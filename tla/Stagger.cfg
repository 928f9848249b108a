SPECIFICATION Spec
CONSTANTS
  Nodes = {n1, n2}
  Parallel = 2
  Duration = 2
  Second = 2
  MaxTime = 5
  MaxGrabs = 4
  Faults = {"api", "lost", "crash"}
SYMMETRY Symmetry
INVARIANTS
  TypeOK
  Staggered
