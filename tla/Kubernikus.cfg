SPECIFICATION FairSpec
CONSTANTS
  Nodes = {n1}
  Matches <- ExactMatches
  Versions = {"old", "new"}
  Workers = 1
  Pods = {p1}
  ForceEviction = TRUE
  Faults = {"api", "eviction", "openstack", "crash", "lost", "uncordon"}
INVARIANTS
  TypeOK
PROPERTIES
  DeletedEmpty
  EventuallyDeleted
  UpdateMarked
