---------------------------- MODULE TriggerChains ----------------------------
(***************************************************************************)
(* The trigger plugins that work on the node at hand.  They edit the copy  *)
(* of the node the reconciliation holds in memory; only draining acts on   *)
(* the cluster at once.  Labels, annotations and finalizers are the marks  *)
(* of a node: the keys that are there with the value the configuration     *)
(* asks for.                                                               *)
(***************************************************************************)
EXTENDS Integers, Sequences, Drain

CONSTANTS
  Keys,
  Finalizers   \* those of them that are finalizers

NoKey == "none"

\* An instance: eviction with its three actions, or alterLabel, alterAnnotation and
\* alterFinalizer, which add a key or remove it.
Triggers == [action: {"cordon", "uncordon", "drain", "add", "remove"}, key: Keys \cup {NoKey}]

Eviction(action) == [action |-> action, key |-> NoKey]
AddKey(key) == [action |-> "add", key |-> key]
RemoveKey(key) == [action |-> "remove", key |-> key]

\* i is the last trigger among ts.
IsLast(ts, i) == i \in ts /\ \A j \in ts : j <= i

\* Eviction.Trigger sets Unschedulable, for a drain as well; the last one that ran
\* decides.
Unschedulable(node, chain, ran) ==
  LET ts == {i \in ran : chain[i].action \in {"cordon", "drain", "uncordon"}}
  IN IF ts = {} THEN node.unschedulable
     ELSE \A i \in ts : IsLast(ts, i) => chain[i].action # "uncordon"

\* AlterLabel.Trigger, AlterAnnotation.Trigger, AlterFinalizer.Trigger
Altered(node, chain, ran) ==
  {k \in Keys :
     LET ts == {i \in ran : chain[i].action \in {"add", "remove"} /\ chain[i].key = k}
     IN IF ts = {} THEN k \in node.marks
        ELSE \E i \in ts : IsLast(ts, i) /\ chain[i].action = "add"}

\* What the triggers of a chain that ran leave in memory.
Edit(node, chain, ran) ==
  [node EXCEPT !.unschedulable = Unschedulable(node, chain, ran),
               !.marks = Altered(node, chain, ran)]

\* The triggers that run if the first drain asks for a retry.
UpToDrain(chain) ==
  {i \in DOMAIN chain : \A j \in DOMAIN chain : j < i => chain[j].action # "drain"}

\* What draining the pods may come to; without a drain in the chain, nothing.
DrainOutcomes(chain, pods, mayFail) ==
  IF \E i \in DOMAIN chain : chain[i].action = "drain"
    THEN {o \in [pods: PodMap, result: {"drained", "pending", "error"}] :
            EnsureDrain(pods, FALSE, mayFail, o.pods, o.result)}
    ELSE {[pods |-> pods, result |-> "drained"]}

\* Mutant: a trigger that asks for a retry does not keep the next ones from running.
ExecuteAll(chain, node, pods, mayFail) ==
  {[node |-> Edit(node, chain, DOMAIN chain), pods |-> o.pods,
    err |-> IF o.result = "drained" THEN "none" ELSE "retry"] :
     o \in DrainOutcomes(chain, pods, mayFail)}

\* TriggerChain.Execute: one trigger after the other until one returns an error.
\* A drain that is not through, for whatever reason, asks for a retry; what the
\* triggers before it did in memory stays.
ExecuteChain(chain, node, pods, mayFail) ==
  {IF o.result = "drained"
     THEN [node |-> Edit(node, chain, DOMAIN chain), pods |-> o.pods, err |-> "none"]
     ELSE [node |-> Edit(node, chain, UpToDrain(chain)), pods |-> o.pods, err |-> "retry"] :
     o \in DrainOutcomes(chain, pods, mayFail)}
=============================================================================
