SPECIFICATION Spec
CONSTANTS
  a = a
  b = b
  c = c
  Article <- MCArticle
  Event <- MCEvent
  Members <- MCMembers
  Input <- MoveInput
  EventsOf <- MoveEventsOf
  Score = {1, 2}
  None = None
  HomepageSize = 1
  MaxClusterIds = 4
  MaxFaults = 2
INVARIANTS
  RecordedStageIsTrue
  
  LineageResolves
  EventsKeepApart
PROPERTIES
  PayloadBeforeRow
  ImplementsLedger
