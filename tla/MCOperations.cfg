SPECIFICATION Spec
CONSTANTS
  t1 = t1
  t2 = t2
  q1 = q1
  q2 = q2
  p1 = p1
  p2 = p2
  None = None
  FaultSets <- AllFaults
  Tabs <- TabIds
  FirstTab = t1
  Queries <- QueryIds
  FirstQuery = q1
  LastToken = 6
  MODULES <- ModuleNames
  CodesOf <- CodesOfModule
  DefaultRoles <- RolesOfCode
  DefaultsOf <- ModuleOfDefault
  Defaults = {"settings", "categories"}
  SeededRoles = {"member"}
  LastBoot = 3
  Queued <- PayoutIds
  Prices = {1, 7, 99, 100}
  Percents = {0, 20, 33, 100}
  IdInputs <- NationalIds
  IbanInputs <- Ibans
  PhoneInputs <- Phones
INVARIANTS
  BrowserIsTrue
  ModulesAreWhole
  QueueIsTrue
  PricesAgree
  ChecksFindErrors
PROPERTIES
  BrowserSettles
  BootsRecover
CHECK_DEADLOCK FALSE
