SPECIFICATION Spec
CONSTANTS
  Nothing = Nothing
  Field = {"takeaway", "angle", "points"}
  Copied = {"takeaway", "angle"}
  HasKey = TRUE
  MaxCalls = 3
  None = Nothing
  Pattern = {"pattern1"}
  Curator = {"u1", "u2"}
  Engines = {"gemini", "workers"}
  MaxTexts = 3
  MaxAsked = 3
  Feed = {"wire", "sansad"}
  Item = {"a1", "a2", "a3"}
  Order <- AskedInTurn
  Body <- Bodies
  Trait <- Traits
  SocialFeed = {}
  Expert = {"sansad"}
  Parliament = {"sansad"}
  Unsafe = {}
  BatchSize = 1
  Threshold = 2
  Cooldown = 2
  Report = {"p", "q", "r", "post"}
  Feeds <- FeedsInTurn
  Carried <- ItemsOf
  Post = {"post"}
  Authority <- Authorities
  Likenesses <- Resemblances
  Ages <- AgesOf
  Snapshots <- OnDiskHomepages
  Decisions <- RowsFound
  Keyed = TRUE
  MaxClusters = 2
  MaxAttempts = 2
  Name = {"amca", "kusha"}
  Domain = {"wire", "daily"}
  Digests <- Findings
  MinMentions = 3
  MinSources = 2
  MaxCrawls = 3
  Story = {"g1", "g2"}
  Node = {"n1", "n2", "n3"}
  Edge = {"e12", "e23"}
  Ends <- EndsOf
  Names <- NamesIn
  Tells <- LinksIn
  Category <- CategoryOf
  MaxWeight = 2
  Limit = 2
  Pair = {"s1", "s2"}
  Listed = {}
  OnFile = {"s1", "s2"}
  Reviewer = {"u1", "u2"}
  MaxMentions = 2
  MaxDrafts = 3
  MaxReviews = 3
CHECK_DEADLOCK FALSE
INVARIANTS
  PromotedStays
