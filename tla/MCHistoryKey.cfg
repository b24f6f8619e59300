SPECIFICATION Spec
CONSTANTS
  c1 = c1
  c2 = c2
  Collectors = {c1, c2}
  Nodes = {1, 2, 3}
  Clouds = {"aurora"}
  Topologies <- MCTopologies
  Windows = {1, 2}
  Periods = {1}
  MaxTime = 2
  MaxCollections = 2
  MaxChanges = 0
  NoSalt = NoSalt
SYMMETRY MCSymmetry
CHECK_DEADLOCK FALSE
INVARIANTS OneHistoryPerCluster
