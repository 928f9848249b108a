----------------------------- MODULE Kubernikus -----------------------------
(***************************************************************************)
(* The Kubernikus controller: up to Workers nodes are reconciled at a time.*)
(* A reconciliation marks a node whose kubelet differs from the API server *)
(* and, if the node is labelled for deletion, cordons and drains it and    *)
(* deletes its OpenStack server.  Every reconciliation requeues its node,  *)
(* whatever happens, so every node waits for its next one all the time; one*)
(* that finds no configuration or no node changes nothing and is left out. *)
(*                                                                         *)
(* What may go wrong in a run is the constant Faults.  During an outage:   *)
(*   "api"         a patch or the version of the API server fails          *)
(*   "eviction"    listing or evicting pods fails                          *)
(*   "openstack"   a call to OpenStack fails                               *)
(*   "crash"       the controller restarts                                 *)
(* and at any time:                                                        *)
(*   "uncordon"    somebody else uncordons nodes                           *)
(*   "lost"        somebody else deletes servers                           *)
(***************************************************************************)
EXTENDS Drain, Naturals, FiniteSets

CONSTANTS
  Nodes,      \* node names, which are the names of the servers as well
  Matches,    \* the servers OpenStack lists when asked for a name
  Versions,   \* of kubelets and API servers
  Workers,    \* ConcurrentReconciles
  Faults

ASSUME KubernikusAssumption == Matches \in [Nodes -> SUBSET Nodes]

VARIABLES
  api,      \* the node objects on the API server
  cache,    \* the node objects in the informer cache
  server,   \* the version of the API server
  outage,   \* whether other services fail at the moment
  vm,       \* the server of each node
  pods,     \* the pods on each node
  pc,       \* the step of the reconciliation of each node
  copy,     \* the node object it works on
  uncordoned   \* history: the nodes others uncordoned since their reconciliation was
               \* told whether they are cordoned

vars == <<api, cache, server, outage, vm, pods, pc, copy, uncordoned>>

-----------------------------------------------------------------------------
(* Nodes and servers *)

\* The labels kubelet-needs-update and delete-node, and Spec.Unschedulable.
NodeObject == [exists: BOOLEAN, version: Versions, update: {"none", "true", "false"},
               delete: BOOLEAN, cordoned: BOOLEAN]
NewNode(v) == [exists |-> TRUE, version |-> v, update |-> "none",
               delete |-> FALSE, cordoned |-> FALSE]

\* Mutant: the version to update to is written into the label.
UpdateVersion(obj) == server

\* Mutant: the label is never taken back.
UpdateOnly(obj) == IF server # obj.version THEN "true" ELSE obj.update

\* needsKubeletUpdate as the value of the label.
needsKubeletUpdate(obj) == IF server # obj.version THEN "true" ELSE "false"

\* The servers listed under the name of node n.
Listed(n) == {m \in Matches[n] : vm[m] # "gone"}

Fails(kind) == outage /\ kind \in Faults

\* A reconciliation goes on with object obj, or returns and keeps nothing.
Continue(n, step, obj) ==
  /\ pc' = [pc EXCEPT ![n] = step]
  /\ copy' = [copy EXCEPT ![n] = obj]
Return(n) == Continue(n, "idle", NewNode(copy[n].version))

\* The patch of n reaches the API server, or does not.
Patch(n, obj) == api[n].exists /\ api' = [api EXCEPT ![n] = obj]
PatchFails(n) == (Fails("api") \/ ~api[n].exists) /\ UNCHANGED api

-----------------------------------------------------------------------------
(* The environment *)

Outage == outage' = ~outage /\ UNCHANGED <<api, cache, server, vm, pods, pc, copy, uncordoned>>

UpgradeServer ==
  /\ server' \in Versions \ {server}
  /\ UNCHANGED <<api, cache, outage, vm, pods, pc, copy, uncordoned>>

EditNode(n, obj) ==
  /\ api[n].exists
  /\ api' = [api EXCEPT ![n] = obj]
  /\ UNCHANGED <<cache, server, outage, vm, pc, copy>>

\* Maintenance profiles set the label delete-node, and may remove it.
EditDelete(n) == EditNode(n, [api[n] EXCEPT !.delete = ~@]) /\ UNCHANGED <<pods, uncordoned>>

UncordonByOthers(n) ==
  /\ "uncordon" \in Faults
  /\ api[n].cordoned
  /\ EditNode(n, [api[n] EXCEPT !.cordoned = FALSE])
  /\ uncordoned' = uncordoned \cup {n}
  /\ UNCHANGED pods

ServerLost(n) ==
  /\ "lost" \in Faults
  /\ vm[n] = "on"
  /\ vm' = [vm EXCEPT ![n] = "gone"]
  /\ UNCHANGED <<api, cache, server, outage, pods, pc, copy, uncordoned>>

\* OpenStack finishes the deletion of a server.
ServerGone(n) ==
  /\ vm[n] = "deleting"
  /\ vm' = [vm EXCEPT ![n] = "gone"]
  /\ UNCHANGED <<api, cache, server, outage, pods, pc, copy, uncordoned>>

\* The cloud provider removes a node that lost its server, and its pods.
NodeRemoved(n) ==
  /\ vm[n] = "gone"
  /\ EditNode(n, [api[n] EXCEPT !.exists = FALSE])
  /\ pods' = [pods EXCEPT ![n] = NoPods]
  /\ UNCHANGED uncordoned

Deliver(n) ==
  /\ cache[n] # api[n]
  /\ cache' = [cache EXCEPT ![n] = api[n]]
  /\ UNCHANGED <<api, server, outage, vm, pods, pc, copy, uncordoned>>

PodStep(n, p, s) ==
  /\ pods' = [pods EXCEPT ![n][p] = s]
  /\ UNCHANGED <<api, cache, server, outage, vm, pc, copy, uncordoned>>

\* The scheduler binds pods to nodes that are not cordoned.
Schedule(n, p) ==
  /\ pods[n][p] = "gone" /\ ~api[n].cordoned /\ vm[n] = "on"
  /\ PodStep(n, p, "active")

GraceExceeded(n, p) == pods[n][p] = "terminating" /\ PodStep(n, p, "overdue")

\* The kubelet of a running machine finishes a terminating pod.
PodStops(n, p) ==
  /\ pods[n][p] \in {"terminating", "overdue"} /\ vm[n] = "on"
  /\ PodStep(n, p, "gone")

-----------------------------------------------------------------------------
(* A reconciliation *)

Busy == {n \in Nodes : pc[n] # "idle"}

\* Reconcile reads the node from the cache.
Get(n) ==
  /\ pc[n] = "idle" /\ Cardinality(Busy) < Workers
  /\ cache[n].exists
  /\ Continue(n, "mark", cache[n])
  /\ UNCHANGED <<api, cache, server, outage, vm, pods, uncordoned>>

\* Mutant: nothing else is done in a reconciliation that has no label to write.
markChangedOnly(n) ==
  /\ pc[n] = "mark"
  /\ LET value == needsKubeletUpdate(copy[n])
     IN \/ /\ copy[n].update # value
           /\ Patch(n, [api[n] EXCEPT !.update = value])
           /\ IF api[n].delete THEN Continue(n, "cordon", api'[n]) ELSE Return(n)
        \/ copy[n].update = value /\ Return(n) /\ UNCHANGED api
  /\ uncordoned' = uncordoned \ {n}
  /\ UNCHANGED <<cache, server, outage, vm, pods>>

\* Only a value that differs from the one that was read is written.  The label
\* delete-node is looked at in the reply.
markUpdate(n) ==
  /\ pc[n] = "mark"
  /\ LET value == needsKubeletUpdate(copy[n])
     IN Patch(n, [api[n] EXCEPT !.update = IF copy[n].update # value THEN value ELSE @])
  /\ IF api[n].delete THEN Continue(n, "cordon", api'[n]) ELSE Return(n)
  /\ uncordoned' = uncordoned \ {n}
  /\ UNCHANGED <<cache, server, outage, vm, pods>>

markFails(n) ==
  /\ pc[n] = "mark"
  /\ PatchFails(n)
  /\ Return(n)
  /\ UNCHANGED <<cache, server, outage, vm, pods, uncordoned>>

\* Mutant: a node that could not be cordoned is drained and deleted all the same.
CordonIgnoresError(n) ==
  /\ pc[n] = "cordon"
  /\ \/ /\ copy[n].cordoned
        /\ Continue(n, "drain", copy[n])
        /\ UNCHANGED api
     \/ /\ ~copy[n].cordoned
        /\ Patch(n, [api[n] EXCEPT !.cordoned = TRUE])
        /\ Continue(n, "drain", api'[n])
     \/ ~copy[n].cordoned /\ PatchFails(n) /\ Continue(n, "drain", copy[n])
  /\ UNCHANGED <<cache, server, outage, vm, pods, uncordoned>>

\* deleteNode: EnsureSchedulable(false)
Cordon(n) ==
  /\ pc[n] = "cordon"
  /\ \/ /\ copy[n].cordoned
        /\ Continue(n, "drain", copy[n])
        /\ UNCHANGED api
     \/ /\ ~copy[n].cordoned
        /\ Patch(n, [api[n] EXCEPT !.cordoned = TRUE])
        /\ Continue(n, "drain", api'[n])
     \/ ~copy[n].cordoned /\ PatchFails(n) /\ Return(n)
  /\ UNCHANGED <<cache, server, outage, vm, pods, uncordoned>>

\* Mutant: a node that is not empty yet goes on to the deletion.
DrainIgnoresResult(n) ==
  /\ pc[n] = "drain"
  /\ \E new \in PodMap, result \in {"drained", "pending"} :
       /\ EnsureDrain(pods[n], FALSE, FALSE, new, result)
       /\ pods' = [pods EXCEPT ![n] = new]
       /\ Continue(n, "delete", copy[n])
  /\ UNCHANGED <<api, cache, server, outage, vm, uncordoned>>

\* deleteNode: one attempt to drain.  Only the server of a drained node is deleted.
DrainNode(n) ==
  /\ pc[n] = "drain"
  /\ \E new \in PodMap, result \in {"drained", "pending", "error"} :
       /\ EnsureDrain(pods[n], FALSE, Fails("eviction"), new, result)
       /\ pods' = [pods EXCEPT ![n] = new]
       /\ IF result = "drained" THEN Continue(n, "delete", copy[n]) ELSE Return(n)
  /\ UNCHANGED <<api, cache, server, outage, vm, uncordoned>>

\* The server is deleted, unless the list holds none (any more) or several.
deleteVM(n) ==
  /\ pc[n] = "delete"
  /\ \/ \E m \in Nodes : Listed(n) = {m} /\ vm' = [vm EXCEPT ![m] = "deleting"]
     \/ (\A m \in Nodes : Listed(n) # {m}) /\ UNCHANGED vm
  /\ Return(n)
  /\ UNCHANGED <<api, cache, server, outage, pods, uncordoned>>

\* No OpenStack configuration, or no answer.
deleteFails(n) ==
  /\ Fails("openstack")
  /\ pc[n] = "delete"
  /\ Return(n)
  /\ UNCHANGED <<api, cache, server, outage, vm, pods, uncordoned>>

\* A new process, with a new cache.
Restart ==
  /\ Fails("crash")
  /\ pc' = [n \in Nodes |-> "idle"]
  /\ copy' = [n \in Nodes |-> NewNode(copy[n].version)]
  /\ cache' = api
  /\ UNCHANGED <<api, server, outage, vm, pods, uncordoned>>

-----------------------------------------------------------------------------
(* The specification *)

Init ==
  /\ \E v \in [Nodes -> Versions] : api = [n \in Nodes |-> NewNode(v[n])]
  /\ cache = api
  /\ server \in Versions
  /\ outage = FALSE
  /\ vm = [n \in Nodes |-> "on"]
  /\ pods = [n \in Nodes |-> NoPods]
  /\ pc = [n \in Nodes |-> "idle"]
  /\ copy = api
  /\ uncordoned = {}

Environment ==
  \/ Outage \/ UpgradeServer
  \/ \E n \in Nodes :
       \/ EditDelete(n) \/ UncordonByOthers(n) \/ Deliver(n)
       \/ ServerLost(n) \/ ServerGone(n) \/ NodeRemoved(n)
       \/ \E p \in Pods : Schedule(n, p) \/ GraceExceeded(n, p) \/ PodStops(n, p)

\* The steps of a reconciliation that was started.
Reconcile(n) ==
  \/ markUpdate(n) \/ markFails(n) \/ Cordon(n) \/ DrainNode(n)
  \/ deleteVM(n) \/ deleteFails(n)

Next == Environment \/ Restart \/ \E n \in Nodes : Get(n) \/ Reconcile(n)

Spec == Init /\ [][Next]_vars

\* Reconciliations go on, no node is overtaken in the work queue for ever, and
\* watch, kubelets, OpenStack and the cloud provider do their part.
Fairness ==
  \A n \in Nodes :
    /\ SF_vars(Get(n)) /\ WF_vars(Reconcile(n))
    /\ WF_vars(Deliver(n)) /\ WF_vars(ServerGone(n)) /\ WF_vars(NodeRemoved(n))
    /\ \A p \in Pods : WF_vars(PodStops(n, p))

FairSpec == Spec /\ Fairness

-----------------------------------------------------------------------------
(* Properties *)

\* Every variable has its type.
TypeOK ==
  /\ api \in [Nodes -> NodeObject]
  /\ cache \in [Nodes -> NodeObject]
  /\ server \in Versions
  /\ outage \in BOOLEAN
  /\ vm \in [Nodes -> {"on", "deleting", "gone"}]
  /\ pods \in [Nodes -> PodMap]
  /\ pc \in [Nodes -> {"idle", "mark", "cordon", "drain", "delete"}]
  /\ copy \in [Nodes -> NodeObject]
  /\ uncordoned \subseteq Nodes

\* "a node can be marked with `cloud.sap/delete-node` to cordon, drain and delete
\* it": whenever a server is deleted, its node has no pod left that could have been
\* evicted and is cordoned, unless others uncordoned it behind the back of the very
\* reconciliation that deletes it, whatever other nodes are worked on (deleteNode,
\* deleteVM).
DeletedEmpty ==
  [][\A n \in Nodes : vm[n] = "on" /\ vm'[n] = "deleting" =>
       /\ n \notin uncordoned => api[n].cordoned
       /\ api[n].cordoned => Pending(pods[n]) = {}]_vars

\* A node that stays labelled for deletion, and that others do not uncordon for ever,
\* loses its server, although the drain takes several reconciliations and a failure
\* of any of its calls starts it all over (Reconcile).
EventuallyDeleted ==
  \A n \in Nodes :
    /\ <>[](~outage /\ (api[n].exists => api[n].delete))
    /\ <>[][api[n].cordoned => api'[n].cordoned]_vars
    => <>(vm[n] = "gone")

\* "regularly compares a node's kubelet version with the API server version": the
\* label of a node ends up telling whether its kubelet differs from the API server,
\* although a patch compares with a cache that is behind (markUpdate).
UpdateMarked ==
  \A n \in Nodes, v \in Versions :
    <>[](~outage /\ api[n].exists /\ server = v)
      => <>[](api[n].update = IF v = api[n].version THEN "false" ELSE "true")
=============================================================================
