SPECIFICATION FairSpec
CONSTANTS
  None = None
  u1 = u1  u2 = u2
  l1 = l1  l2 = l2
  i1 = i1  i2 = i2
  a1 = a1  a2 = a2
  k1 = k1  k2 = k2
  c1 = c1
  Users <- TwoUsers
  Listings <- TwoListings
  PerRun <- SoldByRun
  Items <- TwoItems
  ListingOf <- MCListingOf
  RunsOf <- MCRunsOf
  RowIds <- SixRows
  Carts <- OppositeCarts
  Moderated <- OneListing
  Removable <- FirstAddedRow
  Added <- BothItems
  Adds <- TwoAdds
  Checkouts <- TwoCheckouts
  Consumers <- OneConsumer
  FaultSets <- AllFaults
INVARIANTS
  CountersAreTrue
  NothingIsSoldTwice
PROPERTIES
  TakesWhatItSells
  EveryCheckoutEnds
