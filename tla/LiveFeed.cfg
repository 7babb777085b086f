SPECIFICATION Spec
CONSTANTS
  s1 = s1
  r1 = r1
  r2 = r2
  Story <- MCOneStory
  Request <- MCTwoRequests
  Committed <- MCCommitted
  None = None
  Keep = 2
  MaxTime = 0
  MaxRequests = 3
  MaxFaults = 1
SYMMETRY MCSymmetry
INVARIANTS
  LiveIsDurable
