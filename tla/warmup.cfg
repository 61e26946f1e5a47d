\* Two managers, two pods on two nodes, two paths, two edits, one fault and one change of the leader.
CONSTANTS
  Managers = {m1, m2}
  p1 = p1
  p2 = p2
  Pods = {p1, p2}
  n1 = n1
  n2 = n2
  Nodes = {n1, n2}
  Paths = {x1, x2}
  NodeOf <- EachItsNode
  Volumes <- MixedVolumes
  MaxEdits = 2
  MaxFaults = 1
  MaxElections = 1
SPECIFICATION FairSpec
INVARIANT CopiesInv
PROPERTY CachedIsWarm
PROPERTY CachedStays
PROPERTY CachedInTheEnd
