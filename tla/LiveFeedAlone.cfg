SPECIFICATION FairSpec
CONSTANTS
  s1 = s1
  r1 = r1
  r2 = r2
  Story <- MCOneStory
  Request <- MCOneRequest
  Committed <- MCLocked
  None = None
  Keep = 1
  MaxTime = 1
  MaxRequests = 3
  MaxFaults = 1
PROPERTIES
  
  CrawlsGetThrough
