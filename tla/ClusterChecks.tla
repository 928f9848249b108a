---------------------------- MODULE ClusterChecks ----------------------------
(***************************************************************************)
(* The check plugins of a workflow: hasLabel and hasAnnotation look at the *)
(* node in memory, affinity and maxMaintenance at the other nodes and at   *)
(* their pods.  A check chain is a conjunction of instances and of negated *)
(* ones.                                                                   *)
(***************************************************************************)
EXTENDS ProfileState, FiniteSets

CONSTANTS
  Nodes,
  MaxNodes,        \* max of the maxMaintenance instance
  MinOperational,  \* minOperational of the affinity instance
  Affine           \* the pods that prefer operational nodes

-----------------------------------------------------------------------------
(* maxMaintenance *)

\* The nodes the check for node n counts: those listed with the in-maintenance label,
\* of the same group if n has the groupBy label.
Maintained(n, objects) ==
  {m \in Nodes : /\ objects[m].state = InMaintenance
                 /\ objects[n].group # NoLabel => objects[m].group = objects[n].group}

\* Mutant: nodes of other groups are counted as well, the group of n is not.
maxMaintenanceOthers(n, objects) ==
  Cardinality({m \in Nodes : /\ objects[m].state = InMaintenance
                             /\ objects[m].group # objects[n].group}) < MaxNodes

maxMaintenance(n, objects) == Cardinality(Maintained(n, objects)) < MaxNodes

-----------------------------------------------------------------------------
(* affinity *)

\* A pod of the node, terminating or not, has the affinity.
hasAffinityPod(pods, n) == \E p \in Affine : pods[n][p] # "gone"

countOperational(objects, profile) ==
  Cardinality({m \in Nodes : objects[m].data[profile].current = Operational})

\* Mutant: every required node counts, the ones with affinity pods too.
checkOtherAll(n, objects, pods, profile) ==
  \A m \in Nodes \ {n} : objects[m].data[profile].current # Required

\* No other node that is required for the profile is without such pods.
checkOther(n, objects, pods, profile) ==
  \A m \in Nodes \ {n} :
    objects[m].data[profile].current = Required => hasAffinityPod(pods, m)

\* Affinity.Check, in the maintenance-required state
affinity(n, objects, pods, profile) ==
  \/ MinOperational > 0 /\ countOperational(objects, profile) >= MinOperational
  \/ ~hasAffinityPod(pods, n)
  \/ checkOther(n, objects, pods, profile)

-----------------------------------------------------------------------------

\* CheckChain.Execute of chain c for profile p of node n, of which the worker holds
\* copy node: every plugin is run, and an error of one is an error of the chain.
\* Affinity is an error in any other state than maintenance-required.
ExecuteChecks(c, n, node, p, objects, pods) ==
  IF c.affinity /\ node.data[p].current # Required THEN "error"
  ELSE IF /\ c.has \subseteq node.marks /\ c.hasNot \cap node.marks = {}
          /\ c.max => maxMaintenance(n, objects)
          /\ c.affinity => affinity(n, objects, pods, p)
       THEN "pass" ELSE "fail"
=============================================================================
