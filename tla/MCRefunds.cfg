SPECIFICATION Spec
CONSTANTS
  None = None
  p1 = p1  p2 = p2
  r1 = r1  r2 = r2  r3 = r3
  c1 = c1  c2 = c2
  PaymentIds <- MCPaymentIds
  Topups <- MCTopups
  PaidAmount <- MCPaidAmount
  RefundIds <- ThreeRefunds
  Confirmations <- TwoConfirmations
  Opening = 2
  Faults <- AllFaults
SYMMETRY Symmetry
INVARIANTS
  RefundsAreCovered
PROPERTIES
  ReferenceIsFinal
