SPECIFICATION FairSpec
CONSTANTS
  Nodes = {n1, n2}
  Names = {"a"}
  Profiles = {"a"}
  Default = "a"
  Label <- OneProfile
  Transitions <- WorkflowTransitions
  Checks <- WorkflowChecks
  Chains <- WorkflowChains
  Enter <- WorkflowEnter
  Keys = {"needed", "approved", "ok", "hold"}
  Finalizers = {"hold"}
  Groups = {"zone", "none"}
  MaxNodes = 1
  MinOperational = 1
  Pods = {p1}
  Affine = {p1}
  ForceEviction = TRUE
  Faults = {"eviction", "fail", "reject", "crash"}
INVARIANTS
  TypeOK
  GroupInService
PROPERTIES
  MaintainedEmpty
  EveryoneMaintained
