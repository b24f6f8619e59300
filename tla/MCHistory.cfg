SPECIFICATION Spec
CONSTANTS
  c1 = c1
  c2 = c2
  Collectors = {c1, c2}
  Nodes = {1, 2, 3}
  Clouds = {"aurora", "rds", "gcp", "azure"}
  Topologies <- MCTopologies
  Windows = {2}
  Periods = {1, 2}
  MaxTime = 3
  MaxCollections = 2
  MaxChanges = 1
  NoSalt = NoSalt
SYMMETRY MCSymmetry
CHECK_DEADLOCK FALSE
INVARIANTS WrittenAccounted NothingHidden RecordedMeansHeld OneNodePerRole
