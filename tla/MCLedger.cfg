SPECIFICATION FairSpec
CONSTANTS
  None = None
  r1 = r1  r2 = r2  r3 = r3
  Wallets <- MCWallets
  AbsentWallets <- MCAbsent
  Amounts <- MCAmounts
  Requests <- MCRequests
INVARIANTS
  BooksBalance
PROPERTIES
  ImplementsAtomicLedger
  EveryCallEnds
