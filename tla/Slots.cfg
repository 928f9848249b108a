SPECIFICATION Spec
CONSTANTS
  Nodes = {n1, n2}
  Names = {"default", "a"}
  Profiles = {"default", "a"}
  Default = "default"
  Transitions <- OneProfile
  Labels <- OneProfileLabels
  MaxNodes = 1
  MaxLag = 1
  Faults = {"crash", "delete", "config", "relabel", "reject"}
INVARIANTS
  AtMostMaxNodes
PROPERTIES
  SlotsKept
SYMMETRY Symmetry
