-------------------------------- MODULE Drain --------------------------------
(***************************************************************************)
(* EnsureDrain of package common: one attempt to empty a node.  The pods   *)
(* of a node are a function from pod names to pod states; mirror pods and  *)
(* pods of daemon sets are none of them, GetPodsForDrain skips these.      *)
(***************************************************************************)
CONSTANTS
  Pods,            \* the names of pods that can be evicted
  ForceEviction    \* whether pods beyond their grace period are deleted

\* A pod is active, was asked to terminate, or has exceeded its grace period
\* ("overdue").
PodStates == {"gone", "active", "terminating", "overdue"}
PodMap == [Pods -> PodStates]
NoPods == [p \in Pods |-> "gone"]

Pending(pods) == {p \in Pods : pods[p] # "gone"}
Active(pods) == {p \in Pods : pods[p] = "active"}

\* The terminating pods that are deleted without grace.
Overdue(pods) == IF ForceEviction THEN {p \in Pods : pods[p] = "overdue"} ELSE {}

\* The pods after an attempt.  An eviction without grace period removes the pod.
Evict(pods, deleted, evicted, graceless) ==
  [p \in Pods |-> IF p \in deleted \/ (p \in evicted /\ graceless) THEN "gone"
                  ELSE IF p \in evicted THEN "terminating" ELSE pods[p]]

\* Mutant: a node without active pods counts as drained.
DrainedWhileTerminating(pods, graceless, mayFail, new, result) ==
  \/ Active(pods) = {} /\ new = pods /\ result = "drained"
  \/ /\ Active(pods) # {}
     /\ new = Evict(pods, Overdue(pods), Active(pods), graceless)
     /\ result = "pending"

\* One attempt that turns pods into new and answers result.  Only a node that
\* was empty to begin with is drained; evictions may fail one by one when
\* mayFail, and an attempt with a failed one ends in an error.
EnsureDrain(pods, graceless, mayFail, new, result) ==
  \/ Pending(pods) = {} /\ new = pods /\ result = "drained"
  \/ /\ Pending(pods) # {}
     /\ \E deleted \in SUBSET Overdue(pods), evicted \in SUBSET Active(pods) :
          /\ ~mayFail => deleted = Overdue(pods) /\ evicted = Active(pods)
          /\ new = Evict(pods, deleted, evicted, graceless)
          /\ result = IF evicted = Active(pods) THEN "pending" ELSE "error"
  \/ mayFail /\ new = pods /\ result = "error"
==============================================================================
