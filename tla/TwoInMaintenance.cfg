SPECIFICATION Spec
CONSTANTS
  Nodes = {n1}
  Names = {"default", "b", "c", "x"}
  Profiles = {"default", "b", "c"}
  Default = "default"
  Transitions <- TwoProfiles
  Labels <- TwoProfilesLabels
  MaxNodes = 1
  MaxLag = 1
  Faults = {}
INVARIANTS
  OneProfileInMaintenance
