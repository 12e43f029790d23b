SPECIFICATION Spec
CONSTANTS
  None = None
  k1 = k1
  k2 = k2
  r1 = r1
  v1 = v1
  v2 = v2
  root = root
  p1 = p1
  p2 = p2
  c1 = c1
  c2 = c2
  FaultSets <- AllFaults
  Codes <- CodeIds
  CodeRequests <- RequestIds
  Verifiers <- VerifierIds
  MAX_ATTEMPTS = 2
  LastMinute = 3
  LastCode = 2
  People <- PhoneIds
  Root = root
  AccountCalls <- CallIds
  MaxImpersonations = 1
SYMMETRY Symmetry
INVARIANTS
  CodesAreSafe
  RightsHold
PROPERTIES
  NewestCodeWorks
  DeletedStaysDeleted
CHECK_DEADLOCK FALSE
