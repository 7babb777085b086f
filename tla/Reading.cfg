SPECIFICATION Spec
CONSTANTS
  Nothing = Nothing
  MaxStamp = 2
  MaxChanges = 3
  MaxFaults = 1
  MaxEdits = 1
  MaxSaves = 2
  Tab = {"stories", "programs", "suppliers"}
  Needs <- ChunksOf
  Home = "stories"
  Node = {"n1", "n2", "n3"}
  CategoryOf <- Categories
  Link = {"l12", "l23"}
  Ends <- EndsOf
  Seen <- SeenOn
  Centre = {Nothing, "n1"}
  Around <- LinksAround
  Today = 2
  Week = 2
  MaxViews = 2
  MaxActs = 2
  Entry = {"p1", "s1", "s2"}
  Supplier = {"s1", "s2"}
  Facet = {"tier"}
  Value = {"one"}
  Has <- TiersOf
  Text = {"", "a", "a "}
  Trim <- Trimmed
  Empty = ""
  Says <- TextsOf
  Story = {"story"}
  Mentions <- MentionsOf
  MaxKeys = 4
  Candidate = {"s1", "s2"}
  FormAsk = {"a1", "a2"}
  FormPresses = 3
  Queue = {"pendingCandidates", "nearDuplicateCandidates", "provisionalTopics", "aliasCollisions",
           "assignmentDisagreements"}
  RowsOf <- QueuedRows
  DetailOf <- DetailsOf
  Candidates = {"pendingCandidates", "nearDuplicateCandidates"}
  Shadowed = "assignmentDisagreements"
  Known = {"k1"}
  TopicAsk = {"a1", "a2"}
  TopicPresses = 2
CHECK_DEADLOCK FALSE
INVARIANTS
  ColumnIsTrue
PROPERTIES
  FeedReachesScreen
  TabComes
  CanvasRests
  BoxTellsList
  PanelsUnlock
