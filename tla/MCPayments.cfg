SPECIFICATION FairSpec
CONSTANTS
  None = None
  p1 = p1  p2 = p2
  h1 = h1  h2 = h2
  PaymentIds <- TwoPayments
  Topups <- OnePayment
  Callbacks <- TwoCallbacks
  PoolSize = 2
  FaultSets <- FaultSetsOf
INVARIANTS
  CreditsAreEarned
  AtMostOneCredit
PROPERTIES
  TerminalIsFinal
  CallbacksDeliver
