---------------------------- MODULE LedgerProofs ----------------------------
(***************************************************************************)
(* Proofs about Ledger for every set of wallets, requests and amounts.     *)
(*                                                                         *)
(* The inductive invariant is LedgerInv: the types, what a running         *)
(* transaction was called with, and LockedRowsAreFresh, the fact the       *)
(* SELECT ... FOR UPDATE buys: the row a transaction read is still the row *)
(* when it commits.  NeverNegative and the refinement of AtomicLedger      *)
(* follow from it.                                                         *)
(***************************************************************************)
EXTENDS Ledger, SumProofs, TLAPS

RunningCallsAreValid ==
  \A r \in Requests : pc[r] = "tx" => call[r] \in Calls /\ Valid(call[r])

LedgerInv == TypeOK /\ RunningCallsAreValid /\ LockedRowsAreFresh
-----------------------------------------------------------------------------
(* The entries of a call are rows of ledger_entries. *)
LEMMA LinesType ==
  ASSUME NEW c \in Calls, {c.from, c.to} \subseteq Wallets \cup {None}
  PROVE  Lines(c) \in Seq(Entry)
<1>1. c.amount \in Int /\ c.from \in Wallets \cup {None} /\ c.to \in Wallets \cup {None}
  BY AmountAssumption DEF Calls, Call
<1>2. DebitLine(c) \in Seq(Entry)
  <2>1. CASE c.from = None
    BY <2>1 DEF DebitLine
  <2>2. CASE c.from # None
    <3>1. [wallet |-> c.from, kind |-> "DEBIT", amount |-> c.amount] \in Entry
      BY <1>1, <2>2 DEF Entry, WalletIds
    <3>2. QED
      BY <2>2, <3>1 DEF DebitLine
  <2>3. QED
    BY <2>1, <2>2
<1>3. CreditLine(c) \in Seq(Entry)
  <2>1. CASE c.to = None
    BY <2>1 DEF CreditLine
  <2>2. CASE c.to # None
    <3>1. [wallet |-> c.to, kind |-> "CREDIT", amount |-> c.amount] \in Entry
      BY <1>1, <2>2 DEF Entry, WalletIds
    <3>2. QED
      BY <2>2, <3>1 DEF CreditLine
  <2>3. QED
    BY <2>1, <2>2
<1>4. QED
  BY <1>2, <1>3 DEF Lines

LEMMA InitLedgerInv == Init => LedgerInv
<1> SUFFICES ASSUME Init PROVE LedgerInv
  OBVIOUS
<1>1. TypeOK
  BY DEF Init, TypeOK, NoAudit, Unread
<1>2. RunningCallsAreValid
  BY DEF Init, RunningCallsAreValid
<1>3. LockedRowsAreFresh
  BY RequestAssumption DEF Init, LockedRowsAreFresh, Held
<1>4. QED
  BY <1>1, <1>2, <1>3 DEF LedgerInv

(* Ending a transaction without writing leaves the invariant true. *)
LEMMA RollbackKeepsInv ==
  ASSUME LedgerInv, NEW r \in Requests, EndTransaction(r),
         UNCHANGED <<balance, entries, auditor>>
  PROVE  LedgerInv'
<1> USE DEF LedgerInv, EndTransaction
<1>1. TypeOK'
  BY DEF TypeOK, Unread
<1>2. RunningCallsAreValid'
  BY DEF TypeOK, RunningCallsAreValid
<1>3. LockedRowsAreFresh'
  BY RequestAssumption DEF TypeOK, LockedRowsAreFresh, Held, Needed
<1>4. QED
  BY <1>1, <1>2, <1>3

LEMMA CommitKeepsInv ==
  ASSUME LedgerInv, NEW r \in Requests, Commit(r)
  PROVE  LedgerInv'
<1>1. call[r] \in Calls /\ {call[r].from, call[r].to} \subseteq Wallets \cup {None}
  BY DEF Commit, LedgerInv, RunningCallsAreValid, Needed, Held
<1>2. call[r].amount \in Int
  BY <1>1, AmountAssumption DEF Calls, Call
<1>3. TypeOK'
  <2>1. balance' \in [Wallets -> Int]
    BY <1>2 DEF Commit, LedgerInv, TypeOK, NewBalance
  <2>2. entries' \in Seq(Entry)
    BY <1>1, LinesType DEF Commit, LedgerInv, TypeOK
  <2>3. QED
    BY <2>1, <2>2 DEF Commit, LedgerInv, TypeOK, EndTransaction, Unread
<1>4. RunningCallsAreValid'
  BY DEF Commit, LedgerInv, TypeOK, RunningCallsAreValid, EndTransaction
<1>5. LockedRowsAreFresh'
  <2> SUFFICES ASSUME NEW q \in Requests, NEW w \in Wallets, lockedBy'[w] = q
               PROVE  pc'[q] = "tx" /\ w \in Needed(q)' /\ seen'[q][w] = balance'[w]
    BY DEF LockedRowsAreFresh, Held
  <2>1. q # r /\ lockedBy[w] = q
    BY RequestAssumption DEF Commit, EndTransaction, LedgerInv, TypeOK
  <2>2. w \notin Needed(r)
    BY <2>1 DEF Commit, Held
  <2>3. pc[q] = "tx" /\ w \in Needed(q) /\ seen[q][w] = balance[w]
    BY <2>1 DEF LedgerInv, LockedRowsAreFresh, Held
  <2>4. QED
    BY <2>1, <2>2, <2>3 DEF Commit, EndTransaction, LedgerInv, TypeOK, Needed
<1>6. QED
  BY <1>3, <1>4, <1>5 DEF LedgerInv

LEMMA NextKeepsInv == LedgerInv /\ [Next]_vars => LedgerInv'
<1> SUFFICES ASSUME LedgerInv, [Next]_vars PROVE LedgerInv'
  OBVIOUS
<1>1. ASSUME NEW r \in Requests, NEW c \in Calls, Begin(r, c) \/ RefuseInvalid(r, c)
      PROVE  LedgerInv'
  <2>1. TypeOK'
    BY <1>1 DEF Begin, RefuseInvalid, LedgerInv, TypeOK
  <2>2. RunningCallsAreValid'
    BY <1>1 DEF Begin, RefuseInvalid, LedgerInv, TypeOK, RunningCallsAreValid
  <2>3. LockedRowsAreFresh'
    BY <1>1 DEF Begin, RefuseInvalid, LedgerInv, TypeOK, LockedRowsAreFresh, Held, Needed
  <2>4. QED
    BY <2>1, <2>2, <2>3 DEF LedgerInv
<1>2. ASSUME NEW r \in Requests, NEW w \in Wallets, LockWallet(r, w)
      PROVE  LedgerInv'
  <2>1. TypeOK'
    BY <1>2 DEF LockWallet, LedgerInv, TypeOK
  <2>2. RunningCallsAreValid'
    BY <1>2 DEF LockWallet, LedgerInv, RunningCallsAreValid
  <2>3. LockedRowsAreFresh'
    BY <1>2 DEF LockWallet, IsNextToLock, LedgerInv, TypeOK, LockedRowsAreFresh, Held, Needed
  <2>4. QED
    BY <2>1, <2>2, <2>3 DEF LedgerInv
<1>3. ASSUME NEW r \in Requests, NEW w \in AbsentWallets, WalletNotFound(r, w)
      PROVE  LedgerInv'
  BY <1>3, RollbackKeepsInv DEF WalletNotFound
<1>4. ASSUME NEW r \in Requests, InsufficientFunds(r) PROVE LedgerInv'
  BY <1>4, RollbackKeepsInv DEF InsufficientFunds
<1>5. ASSUME NEW r \in Requests, Commit(r) PROVE LedgerInv'
  BY <1>5, CommitKeepsInv
<1>6. ASSUME NEW r \in Requests, Crash(r) PROVE LedgerInv'
  BY <1>6, RollbackKeepsInv DEF Crash
<1>7. ASSUME (\E w \in Wallets : ReadStored(w)) \/ CompareSum PROVE LedgerInv'
  <2>1. auditor' \in [at: {"idle", "read", "ok", "mismatch"},
                      wallet: Wallets \cup {None}, stored: Int, rows: Nat]
    <3>1. CASE \E w \in Wallets : ReadStored(w)
      <4>1. Len(entries) \in Nat
        BY DEF LedgerInv, TypeOK
      <4>2. QED
        BY <3>1, <4>1 DEF ReadStored, LedgerInv, TypeOK
    <3>2. CASE CompareSum
      <4>1. PICK verdict \in {"ok", "mismatch"} : auditor' = [auditor EXCEPT !.at = verdict]
        BY <3>2 DEF CompareSum
      <4>2. QED
        BY <4>1 DEF LedgerInv, TypeOK
    <3>3. QED
      BY <1>7, <3>1, <3>2
  <2>2. UNCHANGED <<balance, entries, lockedBy, seen, call, pc>>
    BY <1>7 DEF ReadStored, CompareSum
  <2>3. QED
    BY <2>1, <2>2 DEF LedgerInv, TypeOK, RunningCallsAreValid, LockedRowsAreFresh, Held, Needed
<1>8. ASSUME UNCHANGED vars PROVE LedgerInv'
  BY <1>8 DEF vars, LedgerInv, TypeOK, RunningCallsAreValid, LockedRowsAreFresh, Held, Needed
<1>9. QED
  BY <1>1, <1>2, <1>3, <1>4, <1>5, <1>6, <1>7, <1>8 DEF Next, Step, AllEnded

(* Type correctness of the ledger, with what a running transaction was     *)
(* called with and the freshness of the rows it has locked.                *)
THEOREM LedgerInvariant == Spec => []LedgerInv
<1>1. LedgerInv /\ [Next]_vars => LedgerInv'
  BY NextKeepsInv
<1>2. QED
  BY <1>1, InitLedgerInv, PTL DEF Spec

(* The rows and the requests of the ledger keep their types. *)
THEOREM LedgerTypeOK == Spec => []TypeOK
BY LedgerInvariant, PTL DEF LedgerInv

(* Row locks: the balance a request read when it locked a wallet is the    *)
(* balance of that wallet for as long as the request runs.                 *)
THEOREM LedgerLocksAreFresh == Spec => []LockedRowsAreFresh
BY LedgerInvariant, PTL DEF LedgerInv
-----------------------------------------------------------------------------
LEMMA CommitStaysNonNegative ==
  ASSUME LedgerInv, NeverNegative, NEW r \in Requests, Commit(r)
  PROVE  NeverNegative'
<1>1. call[r] \in Calls /\ call[r].amount \in Int /\ call[r].amount > 0
  BY AmountAssumption DEF Commit, LedgerInv, RunningCallsAreValid, Valid, Calls, Call
<1> SUFFICES ASSUME NEW w \in Wallets PROVE balance'[w] >= 0
  BY DEF NeverNegative
<1>2. CASE w \notin Needed(r)
  BY <1>2 DEF Commit, NeverNegative, LedgerInv, TypeOK
<1>3. CASE w \in Needed(r) /\ w = call[r].from
  BY <1>1, <1>3, NoneAssumption DEF Commit, Insufficient, Needed, NewBalance, LedgerInv, TypeOK
<1>4. CASE w \in Needed(r) /\ w # call[r].from
  <2>1. balance'[w] = seen[r][w] + call[r].amount
    BY <1>4 DEF Commit, NewBalance
  <2>2. seen[r][w] = balance[w]
    BY <1>4 DEF Commit, LedgerInv, LockedRowsAreFresh
  <2>3. QED
    BY <1>1, <2>1, <2>2 DEF NeverNegative, LedgerInv, TypeOK
<1>5. QED
  BY <1>2, <1>3, <1>4

(* No balance is ever negative: the check of debit and transfer is made on *)
(* the balance the commit subtracts from.                                  *)
THEOREM LedgerNeverNegative == Spec => []NeverNegative
<1>1. Init => NeverNegative
  BY DEF Init, NeverNegative
<1>2. LedgerInv /\ NeverNegative /\ [Next]_vars => NeverNegative'
  <2> SUFFICES ASSUME LedgerInv, NeverNegative, [Next]_vars PROVE NeverNegative'
    OBVIOUS
  <2>1. CASE \E r \in Requests : Commit(r)
    BY <2>1, CommitStaysNonNegative
  <2>2. CASE UNCHANGED balance
    BY <2>2 DEF NeverNegative
  <2>3. QED
    BY <2>1, <2>2 DEF Next, vars, Step, Begin, RefuseInvalid, LockWallet, WalletNotFound,
       InsufficientFunds, Crash, ReadStored, CompareSum, AllEnded
<1>3. QED
  BY <1>1, <1>2, LedgerInvariant, PTL DEF Spec
-----------------------------------------------------------------------------
LEMMA CommitIsPost ==
  ASSUME LedgerInv, NEW r \in Requests, Commit(r)
  PROVE  Atomic!Post(call[r])
<1> DEFINE c == call[r]
<1>1. c \in Calls /\ Valid(c) /\ {c.from, c.to} \subseteq Wallets \cup {None}
  BY DEF Commit, LedgerInv, RunningCallsAreValid, Needed, Held
<1>2. c.amount \in Int
  BY <1>1, AmountAssumption DEF Calls, Call
<1>3. \A w \in Needed(r) : w \in Wallets /\ seen[r][w] = balance[w]
  BY DEF Commit, LedgerInv, LockedRowsAreFresh, Held
<1>4. ASSUME c.from # None PROVE balance[c.from] >= c.amount
  BY <1>2, <1>3, <1>4 DEF Commit, Insufficient, NewBalance, Needed, LedgerInv, TypeOK
<1>5. balance' = [w \in Wallets |-> Atomic!Applied(balance, c, w)]
  <2>1. ASSUME NEW w \in Wallets
        PROVE  (IF w \in Needed(r) THEN NewBalance(r, w) ELSE balance[w])
                  = Atomic!Applied(balance, c, w)
    BY <1>1, <1>2, <1>3, NoneAssumption
       DEF NewBalance, Needed, Atomic!Applied, LedgerInv, TypeOK, Valid
  <2>2. QED
    BY <2>1 DEF Commit
<1>6. entries' = entries \o Atomic!Lines(c)
  BY DEF Commit, Lines, DebitLine, CreditLine, Atomic!Lines, Atomic!DebitLine, Atomic!CreditLine
<1>7. QED
  BY <1>1, <1>4, <1>5, <1>6 DEF Valid, Atomic!Valid, Atomic!Post

(* LedgerService implements AtomicLedger: a commit is one Post of the call *)
(* on the current balances, every other step leaves both tables unchanged. *)
THEOREM LedgerImplementsAtomicLedger == Spec => ImplementsAtomicLedger
<1>1. Init => Atomic!Init
  BY DEF Init, Atomic!Init
<1>2. LedgerInv /\ [Next]_vars => [Atomic!Next]_(Atomic!vars)
  <2> SUFFICES ASSUME LedgerInv, [Next]_vars PROVE [Atomic!Next]_(Atomic!vars)
    OBVIOUS
  <2>1. ASSUME NEW r \in Requests, Commit(r) PROVE Atomic!Next
    <3>1. call[r] \in Calls
      BY <2>1 DEF Commit, LedgerInv, RunningCallsAreValid
    <3>2. QED
      BY <2>1, <3>1, CommitIsPost DEF Atomic!Next, Calls, Call, WalletIds,
         Atomic!Calls, Atomic!Call, Atomic!WalletIds
  <2>2. CASE UNCHANGED <<balance, entries>>
    BY <2>2 DEF Atomic!vars
  <2>3. QED
    BY <2>1, <2>2 DEF Next, vars, Step, Begin, RefuseInvalid, LockWallet, WalletNotFound,
       InsufficientFunds, Crash, ReadStored, CompareSum, AllEnded
<1>3. QED
  BY <1>1, <1>2, LedgerInvariant, PTL DEF Spec, ImplementsAtomicLedger, Atomic!Spec
-----------------------------------------------------------------------------
(* An entry that is inserted adds itself to the sum of its wallet.           *)
LEMMA SignedIsInt == ASSUME NEW e \in Entry PROVE Signed(e) \in Int
<1>1. e.amount \in Int
  BY DEF Entry
<1>2. QED
  BY <1>1 DEF Signed

LEMMA SumOfEntriesIsInt ==
  ASSUME NEW s \in Seq(Entry), NEW w PROVE SumOfEntries(s, w) \in Int
<1> DEFINE f == [i \in DOMAIN s |-> Signed(s[i])]
           S == {i \in DOMAIN s : s[i].wallet = w}
<1>1. IsFiniteSet(S)
  <2>1. S \subseteq 1 .. Len(s) /\ Len(s) \in Nat
    OBVIOUS
  <2>2. QED
    BY <2>1, FS_Interval, FS_Subset
<1>2. ASSUME NEW i \in S PROVE f[i] \in Int
  <2>1. s[i] \in Entry
    OBVIOUS
  <2>2. QED
    BY <2>1, SignedIsInt
<1> HIDE DEF f, S
<1>3. SumFunctionOnSet(f, S) \in Int
  BY <1>1, <1>2, SumIsInt
<1>4. QED
  BY <1>3 DEF f, S, SumOfEntries

LEMMA AppendAddsEntry ==
  ASSUME NEW s \in Seq(Entry), NEW e \in Entry, NEW w
  PROVE  SumOfEntries(Append(s, e), w) =
           SumOfEntries(s, w) + IF e.wallet = w THEN Signed(e) ELSE 0
<1> DEFINE t == Append(s, e)
           n == Len(s) + 1
           f == [i \in DOMAIN s |-> Signed(s[i])]
           g == [i \in DOMAIN t |-> Signed(t[i])]
           S == {i \in DOMAIN s : s[i].wallet = w}
           T == {i \in DOMAIN t : t[i].wallet = w}
<1>1. /\ DOMAIN s = 1 .. Len(s) /\ Len(s) \in Nat /\ DOMAIN t = 1 .. n /\ t[n] = e
      /\ \A i \in 1 .. Len(s) : t[i] = s[i] /\ s[i] \in Entry
  OBVIOUS
<1>2. IsFiniteSet(S) /\ IsFiniteSet(T)
  <2>1. n \in Int /\ DOMAIN s \subseteq 1 .. n /\ DOMAIN t = 1 .. n
    BY <1>1
  <2>2. S \subseteq 1 .. n /\ T \subseteq 1 .. n
    BY <2>1
  <2> HIDE DEF S, T, n
  <2>3. IsFiniteSet(1 .. n)
    BY <2>1, FS_Interval
  <2>4. QED
    BY <2>2, <2>3, FS_Subset
<1>3. \A i \in T : g[i] \in Int
  <2> SUFFICES ASSUME NEW i \in T PROVE g[i] \in Int
    OBVIOUS
  <2>1. t[i] \in Entry
    BY <1>1
  <2>2. QED
    BY <2>1, SignedIsInt
<1>4. \A i \in S : f[i] = g[i]
  BY <1>1
<1>5. /\ e.wallet = w => n \in T /\ T \ {n} = S
      /\ e.wallet # w => T = S
  BY <1>1
<1>6. g[n] = Signed(e)
  BY <1>1
<1>7. SumOfEntries(s, w) = SumFunctionOnSet(f, S) /\ SumOfEntries(t, w) = SumFunctionOnSet(g, T)
  BY DEF SumOfEntries
<1>8. SumOfEntries(s, w) \in Int /\ Signed(e) \in Int
  BY SumOfEntriesIsInt, SignedIsInt
<1> HIDE DEF f, g, S, T, n, t
<1>9. SumFunctionOnSet(f, S) = SumFunctionOnSet(g, S)
  BY <1>2, <1>4, SumsOfEqualsAreEqual
<1>10. CASE e.wallet = w
  <2>1. SumFunctionOnSet(g, T) = g[n] + SumFunctionOnSet(g, T \ {n})
    BY <1>2, <1>3, <1>5, <1>10, SumTakesOut
  <2>2. SumOfEntries(t, w) = Signed(e) + SumOfEntries(s, w)
    BY <1>5, <1>6, <1>7, <1>9, <1>10, <2>1
  <2>3. QED
    BY <1>8, <1>10, <2>2 DEF t
<1>11. CASE e.wallet # w
  <2>1. SumOfEntries(t, w) = SumOfEntries(s, w)
    BY <1>5, <1>7, <1>9, <1>11
  <2>2. QED
    BY <1>8, <1>11, <2>1 DEF t
<1>12. QED
  BY <1>10, <1>11

\* What a call changes a balance by is what its entries add to the sum.
LEMMA LinesAddUp ==
  ASSUME NEW s \in Seq(Entry), NEW c \in Calls, Valid(c),
         {c.from, c.to} \subseteq Wallets \cup {None}, NEW w \in Wallets
  PROVE  SumOfEntries(s \o Lines(c), w) =
           SumOfEntries(s, w) - (IF w = c.from THEN c.amount ELSE 0)
                              + (IF w = c.to THEN c.amount ELSE 0)
<1> DEFINE d == [wallet |-> c.from, kind |-> "DEBIT", amount |-> c.amount]
           e == [wallet |-> c.to, kind |-> "CREDIT", amount |-> c.amount]
<1>1. c.amount \in Int /\ w # None
  BY AmountAssumption, NoneAssumption DEF Calls, Call
<1>2. Signed(d) = 0 - c.amount /\ Signed(e) = c.amount
  BY DEF Signed
<1>3. c.from # None => d \in Entry
  BY <1>1 DEF Entry, WalletIds
<1>4. c.to # None => e \in Entry
  BY <1>1 DEF Entry, WalletIds
<1>5. d.wallet = c.from /\ e.wallet = c.to
  OBVIOUS
<1>6. SumOfEntries(s, w) \in Int
  BY SumOfEntriesIsInt
<1>7. CASE c.from # None /\ c.to = None
  <2>1. s \o Lines(c) = Append(s, d)
    BY <1>3, <1>7 DEF Lines, DebitLine, CreditLine
  <2> HIDE DEF d, e
  <2>2. SumOfEntries(Append(s, d), w) =
          SumOfEntries(s, w) + IF d.wallet = w THEN Signed(d) ELSE 0
    BY <1>3, <1>7, AppendAddsEntry
  <2>3. QED
    BY <1>1, <1>2, <1>5, <1>6, <1>7, <2>1, <2>2
<1>8. CASE c.from = None /\ c.to # None
  <2>1. s \o Lines(c) = Append(s, e)
    BY <1>4, <1>8 DEF Lines, DebitLine, CreditLine
  <2> HIDE DEF d, e
  <2>2. SumOfEntries(Append(s, e), w) =
          SumOfEntries(s, w) + IF e.wallet = w THEN Signed(e) ELSE 0
    BY <1>4, <1>8, AppendAddsEntry
  <2>3. QED
    BY <1>1, <1>2, <1>5, <1>6, <1>8, <2>1, <2>2
<1>9. CASE c.from # None /\ c.to # None
  <2>1. s \o Lines(c) = Append(Append(s, d), e)
    BY <1>3, <1>4, <1>9 DEF Lines, DebitLine, CreditLine
  <2>2. Append(s, d) \in Seq(Entry)
    BY <1>3, <1>9
  <2> HIDE DEF d, e
  <2>3. SumOfEntries(Append(s, d), w) =
          SumOfEntries(s, w) + IF d.wallet = w THEN Signed(d) ELSE 0
    BY <1>3, <1>9, AppendAddsEntry
  <2>4. SumOfEntries(Append(Append(s, d), e), w) =
          SumOfEntries(Append(s, d), w) + IF e.wallet = w THEN Signed(e) ELSE 0
    BY <1>4, <1>9, <2>2, AppendAddsEntry
  <2>5. QED
    BY <1>1, <1>2, <1>5, <1>6, <1>9, <2>1, <2>3, <2>4
<1>10. QED
  BY <1>7, <1>8, <1>9 DEF Calls

(* The balance of a wallet is the sum of its entries, at every moment and    *)
(* whatever the requests interleave, fail or die at.                         *)
LEMMA NextKeepsSum == LedgerInv /\ BalanceIsSum /\ [Next]_vars => BalanceIsSum'
<1> SUFFICES ASSUME LedgerInv, BalanceIsSum, [Next]_vars PROVE BalanceIsSum'
  OBVIOUS
<1>1. ASSUME NEW r \in Requests, Commit(r) PROVE BalanceIsSum'
  <2> DEFINE c == call[r]
  <2>1. /\ c \in Calls /\ Valid(c) /\ {c.from, c.to} \subseteq Wallets \cup {None}
        /\ entries \in Seq(Entry) /\ entries' = entries \o Lines(c)
    BY <1>1 DEF Commit, LedgerInv, TypeOK, RunningCallsAreValid, Needed, Held
  <2>2. balance' = [w \in Wallets |-> Atomic!Applied(balance, c, w)]
    BY <1>1, CommitIsPost DEF Atomic!Post
  <2> SUFFICES ASSUME NEW w \in Wallets PROVE balance'[w] = SumOfEntries(entries', w)
    BY DEF BalanceIsSum
  <2>3. balance[w] = SumOfEntries(entries, w)
    BY DEF BalanceIsSum
  <2>4. balance'[w] = balance[w] - (IF w = c.from THEN c.amount ELSE 0)
                                 + (IF w = c.to THEN c.amount ELSE 0)
    BY <2>2 DEF Atomic!Applied
  <2> HIDE DEF c
  <2>5. SumOfEntries(entries \o Lines(c), w) =
          SumOfEntries(entries, w) - (IF w = c.from THEN c.amount ELSE 0)
                                   + (IF w = c.to THEN c.amount ELSE 0)
    BY <2>1, LinesAddUp
  <2>6. QED
    BY <2>1, <2>3, <2>4, <2>5
<1>2. CASE UNCHANGED <<balance, entries>>
  BY <1>2 DEF BalanceIsSum
<1>3. QED
  BY <1>1, <1>2 DEF Next, vars, Step, Begin, RefuseInvalid, LockWallet, WalletNotFound,
     InsufficientFunds, Crash, ReadStored, CompareSum, AllEnded

LEMMA InitSum == Init => BalanceIsSum
<1> SUFFICES ASSUME Init, NEW w \in Wallets PROVE balance[w] = SumOfEntries(entries, w)
  BY DEF BalanceIsSum
<1>1. entries = <<>> /\ balance[w] = 0
  BY DEF Init
<1>2. {i \in DOMAIN entries : entries[i].wallet = w} = {}
  BY <1>1
<1>3. QED
  BY <1>1, <1>2, SumOfNone DEF SumOfEntries

(* Whatever the requests interleave, fail or die at, a wallet holds what its *)
(* ledger entries add up to.                                                 *)
THEOREM LedgerBalanceIsSum == Spec => []BalanceIsSum
BY InitSum, NextKeepsSum, LedgerInvariant, PTL DEF Spec
-----------------------------------------------------------------------------
\* What verifyBalance read is the balance, until a line of the wallet is committed.
AuditInv ==
  auditor.at = "read" =>
    /\ auditor.wallet \in Wallets /\ auditor.rows <= Len(entries)
    /\ \/ auditor.stored = balance[auditor.wallet]
       \/ \E i \in (auditor.rows + 1) .. Len(entries) : entries[i].wallet = auditor.wallet

LEMMA CommitLeavesALine ==
  ASSUME LedgerInv, NEW r \in Requests, Commit(r)
  PROVE  /\ Len(entries') >= Len(entries)
         /\ \A i \in 1 .. Len(entries) : entries'[i] = entries[i]
         /\ \A w \in Needed(r) :
              \E i \in (Len(entries) + 1) .. Len(entries') : entries'[i].wallet = w
<1> DEFINE c == call[r]
<1>1. /\ c \in Calls /\ {c.from, c.to} \subseteq Wallets \cup {None}
      /\ entries \in Seq(Entry) /\ entries' = entries \o Lines(c)
  BY DEF Commit, LedgerInv, TypeOK, RunningCallsAreValid, Needed, Held
<1>2. Lines(c) \in Seq(Entry)
  BY <1>1, LinesType
<1>3. ASSUME NEW w \in Needed(r) PROVE \E k \in 1 .. Len(Lines(c)) : Lines(c)[k].wallet = w
  <2>1. CASE w = c.from
    <3>1. Lines(c)[1].wallet = w /\ Len(Lines(c)) >= 1
      BY <1>3, <2>1 DEF Lines, DebitLine, CreditLine, Needed
    <3>2. QED
      BY <1>2, <3>1
  <2>2. CASE w = c.to /\ c.from = None
    <3>1. Lines(c)[1].wallet = w /\ Len(Lines(c)) = 1
      BY <1>3, <2>2 DEF Lines, DebitLine, CreditLine, Needed
    <3>2. QED
      BY <3>1
  <2>3. CASE w = c.to /\ c.from # None
    <3>1. Lines(c)[2].wallet = w /\ Len(Lines(c)) = 2
      BY <1>3, <2>3 DEF Lines, DebitLine, CreditLine, Needed
    <3>2. QED
      BY <3>1
  <2>4. QED
    BY <2>1, <2>2, <2>3 DEF Needed
<1> DEFINE L == Lines(c)
<1>4. /\ Len(entries') = Len(entries) + Len(L) /\ Len(entries) \in Nat /\ Len(L) \in Nat
      /\ \A i \in 1 .. Len(entries) : entries'[i] = entries[i]
      /\ \A k \in 1 .. Len(L) : entries'[Len(entries) + k] = L[k]
  <2> HIDE DEF L, c
  <2>1. L \in Seq(Entry)
    BY <1>2 DEF L
  <2>2. entries' = entries \o L
    BY <1>1 DEF L
  <2>3. QED
    BY <1>1, <2>1, <2>2
<1>5. ASSUME NEW w \in Needed(r)
      PROVE  \E i \in (Len(entries) + 1) .. Len(entries') : entries'[i].wallet = w
  <2>1. PICK k \in 1 .. Len(L) : L[k].wallet = w
    BY <1>3
  <2> HIDE DEF L
  <2>2. Len(entries) + k \in (Len(entries) + 1) .. Len(entries')
    BY <1>4
  <2>3. QED
    BY <1>4, <2>1, <2>2
<1>6. QED
  BY <1>4, <1>5

LEMMA NextKeepsAudit ==
  LedgerInv /\ BalanceIsSum /\ AuditInv /\ MismatchNeedsCommit /\ [Next]_vars
    => (AuditInv /\ MismatchNeedsCommit)'
<1> SUFFICES ASSUME LedgerInv, BalanceIsSum, AuditInv, MismatchNeedsCommit, [Next]_vars
             PROVE  (AuditInv /\ MismatchNeedsCommit)'
  OBVIOUS
<1>1. ASSUME NEW r \in Requests, Commit(r) PROVE (AuditInv /\ MismatchNeedsCommit)'
  <2> DEFINE n == auditor.rows
             Told == \E i \in (n + 1) .. Len(entries) : entries[i].wallet = auditor.wallet
             ToldNow == \E i \in (n + 1) .. Len(entries') : entries'[i].wallet = auditor.wallet
  <2>1. auditor' = auditor /\ n \in Nat /\ Len(entries) \in Nat /\ Len(entries') \in Nat
    BY <1>1, CommitKeepsInv DEF Commit, LedgerInv, TypeOK
  <2>2. /\ Len(entries') >= Len(entries)
        /\ \A i \in 1 .. Len(entries) : entries'[i] = entries[i]
        /\ \A w \in Needed(r) :
              \E i \in (Len(entries) + 1) .. Len(entries') : entries'[i].wallet = w
    BY <1>1, CommitLeavesALine
  <2>3. Told => ToldNow
    BY <2>1, <2>2
  <2>4. MismatchNeedsCommit'
    BY <2>1, <2>3 DEF MismatchNeedsCommit
  <2>5. AuditInv'
    <3> SUFFICES ASSUME auditor.at = "read"
                 PROVE  /\ auditor.wallet \in Wallets /\ n <= Len(entries')
                        /\ auditor.stored = balance'[auditor.wallet] \/ ToldNow
      BY <2>1 DEF AuditInv
    <3>1. auditor.wallet \in Wallets /\ n <= Len(entries) /\ (auditor.stored = balance[auditor.wallet] \/ Told)
      BY DEF AuditInv
    <3>2. CASE auditor.wallet \in Needed(r)
      BY <2>1, <2>2, <3>1, <3>2
    <3>3. CASE auditor.wallet \notin Needed(r)
      <4>1. balance'[auditor.wallet] = balance[auditor.wallet]
        BY <1>1, <3>1, <3>3 DEF Commit
      <4>2. QED
        BY <2>1, <2>2, <2>3, <3>1, <4>1
    <3>4. QED
      BY <3>2, <3>3
  <2>6. QED
    BY <2>4, <2>5
<1>2. ASSUME NEW w \in Wallets, ReadStored(w) PROVE (AuditInv /\ MismatchNeedsCommit)'
  BY <1>2 DEF ReadStored, AuditInv, MismatchNeedsCommit
<1>3. CASE CompareSum
  <2>1. /\ auditor.at = "read" /\ UNCHANGED <<balance, entries>>
        /\ auditor'.at \in {"ok", "mismatch"}
        /\ auditor'.wallet = auditor.wallet /\ auditor'.rows = auditor.rows
        /\ auditor'.at = "mismatch" => SumOfEntries(entries, auditor.wallet) # auditor.stored
    BY <1>3 DEF CompareSum, LedgerInv, TypeOK
  <2>2. QED
    BY <2>1 DEF AuditInv, MismatchNeedsCommit, BalanceIsSum
<1>4. CASE UNCHANGED <<balance, entries, auditor>>
  BY <1>4 DEF AuditInv, MismatchNeedsCommit
<1>5. QED
  BY <1>1, <1>2, <1>3, <1>4 DEF Next, vars, Step, Begin, RefuseInvalid, LockWallet,
     WalletNotFound, InsufficientFunds, Crash, AllEnded

(* verifyBalance reports a mismatch only of a wallet for which a transaction *)
(* committed between its two reads.                                          *)
THEOREM LedgerMismatchNeedsCommit == Spec => []MismatchNeedsCommit
<1>1. Init => AuditInv /\ MismatchNeedsCommit
  BY DEF Init, NoAudit, AuditInv, MismatchNeedsCommit
<1>2. QED
  BY <1>1, NextKeepsAudit, LedgerInvariant, LedgerBalanceIsSum, PTL DEF Spec

(* The books balance: the parts of BooksBalance, each proved above, hold     *)
(* together in every state of the ledger.                                    *)
THEOREM LedgerBooksBalance == Spec => []BooksBalance
BY LedgerTypeOK, LedgerBalanceIsSum, LedgerNeverNegative,
   LedgerLocksAreFresh, LedgerMismatchNeedsCommit,
   PTL DEF BooksBalance
=============================================================================
