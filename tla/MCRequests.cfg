SPECIFICATION Spec
CONSTANTS
  i1 = i1
  i2 = i2
  i3 = i3
  i4 = i4
  a1 = a1
  a2 = a2
  a3 = a3
  key1 = key1
  b1 = b1
  b2 = b2
  p1 = p1
  p2 = p2
  admin = admin
  h1 = h1
  h2 = h2
  h3 = h3
  h4 = h4
  n1 = n1
  n2 = n2
  m1 = m1
  m2 = m2
  Bell = Bell
  Other = Other
  Reader = Reader
  Stranger = Stranger
  None = None
  FaultSets <- AllFaults
  Intents <- IntentIds
  Attempts <- AttemptIds
  Keys = {key1}
  Bodies = {b1, b2}
  Persons = {p1, p2, admin}
  KeyOf <- KeyOfIntent
  BodyOf <- BodyOfIntent
  SubjectOf <- SubjectOfIntent
  PersonOf <- PersonOfIntent
  NeededBy <- NeededByIntent
  Hits <- HitIds
  Limits = {1, 2}
  Usual = 2
  windowMs = 2
  LastInstant = 4
  Notices <- NoticeIds
  Marks <- MarkIds
  LastId = 4
  pageLimit = 2
INVARIANTS
  RequestsAgree
  WindowKept
  NoticesAgree
PROPERTIES
  ImplementsAtMostOnce
  BellCatchesUp
  ListsAreWhole
CHECK_DEADLOCK FALSE
