----------------------------- MODULE MCWorkflow -----------------------------
(***************************************************************************)
(* A workflow for TLC, laid out as the documentation advises: cordon on    *)
(* the way into maintenance, drain after it has been entered.  A finalizer *)
(* holds the node object for the time of the maintenance.                  *)
(***************************************************************************)
EXTENDS MaintenanceWorkflow, TLC

OneProfile == <<"a">>

PerState(op, req, main) ==
  (Operational :> op) @@ (Required :> req) @@ (InMaintenance :> main)

Check(has, hasNot) == [has |-> has, hasNot |-> hasNot, affinity |-> FALSE, max |-> FALSE]
To(s) == [next |-> s, limited |-> FALSE]

WorkflowTransitions ==
  "a" :> PerState(<<To(Required)>>, <<[next |-> InMaintenance, limited |-> TRUE]>>,
                  <<To(Operational)>>)
WorkflowChecks ==
  "a" :> PerState(<<Check({"needed"}, {})>>,
                  <<[has |-> {"approved"}, hasNot |-> {}, affinity |-> TRUE, max |-> TRUE]>>,
                  <<Check({}, {"needed"})>>)
WorkflowChains ==
  "a" :> PerState(<<<<>>>>, <<<<Eviction("cordon"), AddKey("hold"), RemoveKey("approved")>>>>,
                  <<<<RemoveKey("ok"), RemoveKey("hold"), Eviction("uncordon")>>>>)
WorkflowEnter ==
  "a" :> PerState(<<>>, <<>>, <<Eviction("drain"), AddKey("ok")>>)

ASSUME Disciplined("a")
=============================================================================
