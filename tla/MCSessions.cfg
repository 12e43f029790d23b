SPECIFICATION Spec
CONSTANTS
  None = None
  t1 = t1  t2 = t2  t3 = t3
  b1 = b1  b2 = b2
  c1 = c1  c2 = c2
  Tokens <- ThreeTokens
  Browsers <- TwoBrowsers
  Calls <- TwoCalls
  FaultSets <- AllFaults
SYMMETRY Symmetry
INVARIANTS
  ExchangesAreSafe
