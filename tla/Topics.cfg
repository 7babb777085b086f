SPECIFICATION Spec
CONSTANTS
  ta = ta
  tb = tb
  tn = tn
  c1 = c1
  c2 = c2
  k1 = k1
  al = al
  u1 = u1
  u2 = u2
  NoTopic = NoTopic
  Topic <- MCTopic
  Cluster <- MCCluster
  Candidate = {k1}
  Alias = {al}
  Curator = {u1, u2}
  Seeded = {ta, tb}
  Agendas <- MCAgendas
  MaxRequests = 2
  Mentions <- MCMentions
  Discovers <- MCDiscovers
  NameOf <- MCNameOf
  AliasOf <- MCAliasOf
  Owner <- MCOwner
  Official = {}
  MaxVersion = 4
  MaxLoads = 2
CONSTRAINT MCBound
SYMMETRY MCSymmetry
INVARIANTS  AliasNamesOneTopic OneCommitPerVersion
PROPERTIES LocksSurvive  CrawlNeverOverturnsCurators ImplementsLifecycle
CHECK_DEADLOCK FALSE
