SPECIFICATION FairSpec
CONSTANTS
  NoButton = NoButton
  MaxTenths = 2
  MaxPosts <- PostsOfBuild
  MaxReports = 1
  MaxFaults = 1
CHECK_DEADLOCK FALSE
INVARIANTS
  PanelTypeOK
  FirehornSurvives
  OrderNamesButton
  CountdownExplained
  StatusShownIsTrue
PROPERTIES
  CountdownForward
  ClickIsAnswered
