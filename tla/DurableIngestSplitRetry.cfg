SPECIFICATION FairSpec
CONSTANTS
  a = a
  b = b
  c = c
  Article <- MCArticle
  Event <- MCEvent
  Members <- MCMembers
  Input <- SplitInput
  EventsOf <- SplitEventsOf
  Score = {1}
  None = None
  HomepageSize = 1
  MaxClusterIds = 4
  MaxFaults = 1
PROPERTIES FailedRunCompletes
