SPECIFICATION Spec
CONSTANTS
  p1 = p1
  p2 = p2
  Inverters = {p1, p2}
  Cases <- SafetyCases
INVARIANTS
  TypeOK
  OneOpenOutage
  DownIsInLedger
  LedgerFollowsReports
  OneDownRowPerOutage
  SuppressedIsVisible
PROPERTY ImplementsLedger
