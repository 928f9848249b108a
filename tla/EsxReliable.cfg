SPECIFICATION FairSpec
CONSTANTS
  h1 = h1
  Hosts = {h1}
  Nodes = {n1}
  HostOf <- OneHost
  Pods = {p1, p2}
  ForceEviction = TRUE
  Faults = {"patch", "vcenter", "eviction", "crash"}
INVARIANTS
  TypeOK
  DownIsMarked
  DownIsCordoned
PROPERTIES
  NoPodKilled
  Recovered
  StaysDown
