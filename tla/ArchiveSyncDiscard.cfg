SPECIFICATION AllSpec
CONSTANTS
  s1 = s1
  s2 = s2
  s3 = s3
  Story <- MCStory
  Committed <- MCCommitted
  None = None
  HomepageSize = 1
  MaxFaults = 0
  NoInput = NoInput
  NoThread = NoThread
  Thread = {"t1", "t2"}
  Tale = {"a", "b", "c", "e"}
  Names <- MCNames
  Lead <- MCLead
  Programme = {"a", "b", "e"}
  Resembles <- MCResembles
  Mention <- MCMention
  Topical <- MCTopical
  SameEvent = {}
  Lineage = {{"a", "b"}}
  At <- MCAt
  OnDisk = {"a"}
  FrontSize = 1
  BatchSize = 3
  MaxOutages = 1
PROPERTIES
  NothingDiscarded
