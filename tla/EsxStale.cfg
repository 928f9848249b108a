SPECIFICATION FairSpec
CONSTANTS
  h1 = h1
  Hosts = {h1}
  Nodes = {n1}
  HostOf <- OneHost
  Pods = {}
  ForceEviction = FALSE
  Faults = {"vcenter", "lateOff", "lag", "uncordon", "crash"}
PROPERTIES
  StaysDown
