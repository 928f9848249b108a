SPECIFICATION FairSpec
CONSTANTS
  Nodes = {n1}
  Names = {"default", "a"}
  Profiles = {"default", "a"}
  Default = "default"
  Transitions <- OneProfile
  Labels <- OneProfileLabels
  MaxNodes = 1
  MaxLag = 1
  Faults = {"delete", "create", "crash", "relabel", "retry", "timeout", "lostReply"}
INVARIANTS
  NoOrphanedInfo
PROPERTIES
  DeletedNodeForgotten
  LabelHonoured
