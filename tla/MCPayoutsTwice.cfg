SPECIFICATION Spec
CONSTANTS
  None = None
  p1 = p1  p2 = p2  w1 = w1
  c1 = c1  c2 = c2  c3 = c3
  PayoutIds <- MCPayoutIds
  Wallets <- MCWallets
  WalletOf <- MCWalletOf
  AmountOf <- MCAmountOf
  Opening <- MCOpening
  Calls <- TwoCalls
  FaultSets <- OverlapOnly
INVARIANT
  NeverReleasedTwice
