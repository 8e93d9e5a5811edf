SPECIFICATION FairSpec
CONSTANTS
  Diagram = {d1, d2}
  Toggles = {t1}
  MaxInFlight = 2
  MaxBreaks = 1
INVARIANTS
  TypeOK
  ToggleAgrees
  WidgetsAgree
  ShowsReports
  UnknownAfterOrder
PROPERTY
  KnownAgain
