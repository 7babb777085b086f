SPECIFICATION Spec
CONSTANTS
  Nothing = Nothing
  Caller = {"c1", "c2"}
  Limit = 2
  Window = 2
  StoreSize = 1
  MaxRequests = 5
  Life = 2
  MaxDays = 2
  MaxCalls = 3
  MaxSignIns = 1
  MaxRevocations = 1
  EdgePasses = 2
  EdgeChanges = 1
  EdgePurges = 1
  EdgeCalls = 2
  Archived = {"b1", "b2", "b3"}
  Query = {"blank", "word"}
  Browse = "blank"
  Matches <- MatchesOf
  Unreadable = {"b3"}
  ArchivePage = 1
  ArchiveClock = 2
  ArchiveSearches = 3
  Cluster = {1, 2, 3}
  MaxDate = 2
  MaxStamp = 2
  MaxEvents = 2
  TopicPage = 1
  Single = {"program"}
  Several = {"thread"}
  MaxElements = 4
  Builds = 2
  MaxDeploys = 3
  MaxVisits = 3
  MaxOutages = 2
  Thread = {"t1", "t2"}
  Subject = {"s1"}
  Called <- CalledBy
  ThreadPage = 2
  MaxGrowth = 1
  MaxReads = 4
  Story = {"s1", "s2"}
  Body <- Bodies
  MaxPatterns = 3
  Hypothesis = {"p1", "p2"}
  PatternAsk = {"a1", "a2"}
  PatternPresses = 3
  Table = {"entities", "sources"}
  FirstTable = "entities"
  Column = {"name", "id"}
  Sortable = {"name"}
  DefaultSort = "count"
  Filter = {"", "f"}
  RowsOfPage = 1
  MaxRows = 2
  TableAsk = {"a1", "a2"}
  TablePresses = 2
CHECK_DEADLOCK FALSE
INVARIANTS
  
  UnderTwoLimits
  
  
PROPERTIES
  SessionEnds
  OneKeyOneThing
