---------------------------- MODULE EsxController ----------------------------
(***************************************************************************)
(* The ESX controller: a loop that, round by round and host by host, copies*)
(* the maintenance mode of each ESX host to a label of its nodes, starts   *)
(* the virtual machines of nodes it shut down once their host is back, and *)
(* marks, cordons, drains and shuts down the nodes of hosts in maintenance.*)
(* Nodes are listed from the informer cache once per round; every patch    *)
(* refreshes the copy of the node it patched.                              *)
(*                                                                         *)
(* What may go wrong in a run is the constant Faults.  During an outage:   *)
(*   "patch"       the API server rejects a patch                          *)
(*   "vcenter"     a call to the vCenter fails                             *)
(*   "lateOff"     polling a guest shutdown is cut short, by an error or a *)
(*                 restart, and the guest stops later                      *)
(*   "eviction"    listing or evicting pods fails                          *)
(*   "crash"       the controller restarts                                 *)
(* and at any time:                                                        *)
(*   "lag"         a round starts before the cache saw the last patches    *)
(*   "uncordon"    somebody else uncordons nodes                           *)
(***************************************************************************)
EXTENDS Drain

CONSTANTS Nodes, Hosts, HostOf, Faults

ASSUME EsxAssumption == HostOf \in [Nodes -> Hosts]

VARIABLES
  api,      \* the node objects on the API server
  cache,    \* the node objects in the informer cache
  outage,   \* whether other services fail at the moment
  host,     \* what the vCenter reports of each host
  vm,       \* the power state of the virtual machine of each node
  pods,     \* the pods on each node
  pc,       \* the step of the round
  todo,     \* the hosts the round has still to look at
  esx,      \* the host it looks at
  left,     \* the nodes the current loop has still to look at
  node,     \* the node it looks at
  copy      \* the node objects of this round

cluster == <<api, cache, outage, host, vm, pods>>
vars == <<api, cache, outage, host, vm, pods, pc, todo, esx, left, node, copy>>

-----------------------------------------------------------------------------
(* Nodes and hosts *)

\* The values of the label esx-in-maintenance the code knows.
NoMaintenance == "false"
InMaintenance == "true"
AlarmMaintenance == "alarm"
Maintenance == {NoMaintenance, InMaintenance, AlarmMaintenance}

\* The labels esx-in-maintenance and esx-reboot-ok, the annotation
\* esx-reboot-initiated, and Spec.Unschedulable.
NodeObject == [maint: Maintenance \cup {"none"}, rebootOk: BOOLEAN,
               initiated: BOOLEAN, cordoned: BOOLEAN]
NewNode == [maint |-> "none", rebootOk |-> FALSE, initiated |-> FALSE, cordoned |-> FALSE]

\* ParseHostList: the nodes that belong to host h.
NodesOn(h) == {n \in Nodes : HostOf[n] = h}

\* Mutant: the state of the host is not looked at.
ShouldStartInitiated(obj) == obj.initiated

ShouldStart(obj) == obj.initiated /\ obj.maint = NoMaintenance

ShutdownAllowed(maint) == maint \in {InMaintenance, AlarmMaintenance}
ShouldShutdownNode(obj) == ShutdownAllowed(obj.maint) /\ obj.rebootOk

Fails(kind) == outage /\ kind \in Faults

\* A merge patch writes one field; the reply replaces the copy of the node.
Patch(n, obj) ==
  /\ api' = [api EXCEPT ![n] = obj]
  /\ copy' = [copy EXCEPT ![n] = obj]

\* A failed patch leaves the copy changed.
PatchFails(n, obj) ==
  /\ Fails("patch")
  /\ copy' = [copy EXCEPT ![n] = obj]
  /\ UNCHANGED api

-----------------------------------------------------------------------------
(* The environment *)

Outage ==
  /\ outage' = ~outage
  /\ UNCHANGED <<api, cache, host, vm, pods, pc, todo, esx, left, node, copy>>

\* What the vCenter reports of a host changes.
SetHost(h) ==
  /\ \E s \in Maintenance \ {host[h]} : host' = [host EXCEPT ![h] = s]
  /\ UNCHANGED <<api, cache, outage, vm, pods, pc, todo, esx, left, node, copy>>

EditNode(n, obj) ==
  /\ api' = [api EXCEPT ![n] = obj]
  /\ UNCHANGED <<cache, outage, host, vm, pods, pc, todo, esx, left, node, copy>>

\* Maintenance profiles set and clear the label that allows a shutdown.
EditRebootOk(n) == EditNode(n, [api[n] EXCEPT !.rebootOk = ~@])

UncordonByOthers(n) ==
  /\ "uncordon" \in Faults
  /\ api[n].cordoned
  /\ EditNode(n, [api[n] EXCEPT !.cordoned = FALSE])

\* The watch brings the newest version of a node to the cache.
Deliver(n) ==
  /\ cache[n] # api[n]
  /\ cache' = [cache EXCEPT ![n] = api[n]]
  /\ UNCHANGED <<api, outage, host, vm, pods, pc, todo, esx, left, node, copy>>

PodStep(n, p, s) ==
  /\ pods' = [pods EXCEPT ![n][p] = s]
  /\ UNCHANGED <<api, cache, outage, host, vm, pc, todo, esx, left, node, copy>>

\* The scheduler binds pods to nodes that are not cordoned.
Schedule(n, p) ==
  /\ pods[n][p] = "gone" /\ ~api[n].cordoned /\ vm[n] = "on"
  /\ PodStep(n, p, "active")

GraceExceeded(n, p) == pods[n][p] = "terminating" /\ PodStep(n, p, "overdue")

\* The kubelet of a running machine finishes a terminating pod.
PodStops(n, p) ==
  /\ pods[n][p] \in {"terminating", "overdue"} /\ vm[n] # "off"
  /\ PodStep(n, p, "gone")

\* A guest that was asked to shut down goes down.
GuestStops(n) ==
  /\ vm[n] = "stopping"
  /\ vm' = [vm EXCEPT ![n] = "off"]
  /\ UNCHANGED <<api, cache, outage, host, pods, pc, todo, esx, left, node, copy>>

-----------------------------------------------------------------------------
(* A round *)

\* What this controller writes of a node.
Written(obj) == <<obj.maint, obj.initiated, obj.cordoned>>

\* Reconcile lists the nodes.  Nothing makes it wait for the cache, but rounds
\* are minutes apart.
RoundStart ==
  /\ pc = "sleep"
  /\ "lag" \in Faults \/ \A n \in Nodes : Written(cache[n]) = Written(api[n])
  /\ copy' = cache
  /\ todo' = Hosts
  /\ pc' = "host"
  /\ UNCHANGED <<cluster, esx, left, node>>

\* Between two rounds nothing is kept.
Sleep ==
  /\ pc' = "sleep" /\ todo' = {} /\ left' = {}
  /\ copy' = [n \in Nodes |-> NewNode]
  /\ UNCHANGED <<esx, node>>

RoundEnd == pc = "host" /\ todo = {} /\ Sleep /\ UNCHANGED cluster

\* Mutant: the state that comes with the error is used.
CheckUnknown(h) ==
  /\ Fails("vcenter")
  /\ pc = "host" /\ h \in todo
  /\ todo' = todo \ {h}
  /\ esx' = [name |-> h, maint |-> "unknown"]
  /\ left' = NodesOn(h)
  /\ pc' = "label"
  /\ UNCHANGED <<cluster, node, copy>>

\* CheckMaintenance cannot ask the vCenter: the host is left out this round.
CheckFails(h) ==
  /\ Fails("vcenter")
  /\ pc = "host" /\ h \in todo
  /\ todo' = todo \ {h}
  /\ UNCHANGED <<cluster, pc, esx, left, node, copy>>

\* CheckMaintenance: ensureLabel walks over the nodes whose label differs from
\* what the vCenter reports.
CheckMaintenance(h) ==
  /\ pc = "host" /\ h \in todo
  /\ todo' = todo \ {h}
  /\ esx' = [name |-> h, maint |-> host[h]]
  /\ left' = {n \in NodesOn(h) : copy[n].maint # host[h]}
  /\ pc' = "label"
  /\ UNCHANGED <<cluster, node, copy>>

ensureLabel(n) ==
  /\ pc = "label" /\ n \in left
  /\ Patch(n, [api[n] EXCEPT !.maint = esx.maint])
  /\ left' = left \ {n}
  /\ UNCHANGED <<cache, outage, host, vm, pods, pc, todo, esx, node>>

\* One label that cannot be patched ends the work on the host.
LabelFails(n) ==
  /\ pc = "label" /\ n \in left
  /\ PatchFails(n, [copy[n] EXCEPT !.maint = esx.maint])
  /\ left' = {}
  /\ pc' = "host"
  /\ UNCHANGED <<cache, outage, host, vm, pods, todo, esx, node>>

\* StartNodes begins: the nodes to start.
StartNodes ==
  /\ pc = "label" /\ left = {}
  /\ left' = {n \in NodesOn(esx.name) : ShouldStart(copy[n])}
  /\ pc' = "start"
  /\ UNCHANGED <<cluster, todo, esx, node, copy>>

\* A machine that is off is powered on, any other is left alone.
PowerOn(n) == vm' = [vm EXCEPT ![n] = IF @ = "off" THEN "on" ELSE @]

\* The machine is running, maybe because it was never switched off.
ensureVMOn(n) ==
  /\ pc = "start" /\ n \in left
  /\ PowerOn(n)
  /\ left' = left \ {n}
  /\ node' = n
  /\ pc' = "uncordon"
  /\ UNCHANGED <<api, cache, outage, host, pods, todo, esx, copy>>

\* Mutant: the error is logged but the node not skipped.
VMOnIgnoresError(n) ==
  /\ Fails("vcenter")
  /\ pc = "start" /\ n \in left
  /\ left' = left \ {n}
  /\ node' = n
  /\ pc' = "uncordon"
  /\ UNCHANGED <<cluster, todo, esx, copy>>

\* After an error the node stays marked, for the next round; awaiting the task
\* may fail although the machine is started.
VMOnFails(n) ==
  /\ Fails("vcenter")
  /\ pc = "start" /\ n \in left
  /\ PowerOn(n) \/ UNCHANGED vm
  /\ left' = left \ {n}
  /\ UNCHANGED <<api, cache, outage, host, pods, pc, todo, esx, node, copy>>

\* EnsureSchedulable(true), which does nothing when the copy says so already.
Uncordon ==
  /\ pc = "uncordon"
  /\ \/ /\ ~copy[node].cordoned
        /\ pc' = "unmark"
        /\ UNCHANGED <<api, copy>>
     \/ /\ copy[node].cordoned
        /\ Patch(node, [api[node] EXCEPT !.cordoned = FALSE])
        /\ pc' = "unmark"
     \/ /\ copy[node].cordoned
        /\ PatchFails(node, [copy[node] EXCEPT !.cordoned = FALSE])
        /\ pc' = "start"
  /\ UNCHANGED <<cache, outage, host, vm, pods, todo, esx, left, node>>

\* deleteAnnotation; an error is only logged.
Unmark ==
  /\ pc = "unmark"
  /\ \/ ~copy[node].initiated /\ UNCHANGED <<api, copy>>
     \/ copy[node].initiated /\ Patch(node, [api[node] EXCEPT !.initiated = FALSE])
     \/ copy[node].initiated /\ PatchFails(node, [copy[node] EXCEPT !.initiated = FALSE])
  /\ pc' = "start"
  /\ UNCHANGED <<cache, outage, host, vm, pods, todo, esx, left, node>>

\* ShutdownNodes begins: the nodes to shut down.
ShutdownNodes ==
  /\ pc = "start" /\ left = {}
  /\ left' = {n \in NodesOn(esx.name) : ShouldShutdownNode(copy[n])}
  /\ pc' = "shutdown"
  /\ UNCHANGED <<cluster, todo, esx, node, copy>>

\* Mutant: a node that cannot be marked is shut down nevertheless.
MarkIgnoresError(n) ==
  /\ pc = "shutdown" /\ n \in left
  /\ \/ Patch(n, [api[n] EXCEPT !.initiated = TRUE])
     \/ PatchFails(n, [copy[n] EXCEPT !.initiated = TRUE])
  /\ pc' = "cordon"
  /\ left' = left \ {n}
  /\ node' = n
  /\ UNCHANGED <<cache, outage, host, vm, pods, todo, esx>>

\* ensureAnnotation, which does nothing when the copy has it already.
Mark(n) ==
  /\ pc = "shutdown" /\ n \in left
  /\ \/ /\ copy[n].initiated
        /\ pc' = "cordon"
        /\ UNCHANGED <<api, copy>>
     \/ /\ ~copy[n].initiated
        /\ Patch(n, [api[n] EXCEPT !.initiated = TRUE])
        /\ pc' = "cordon"
     \/ /\ ~copy[n].initiated
        /\ PatchFails(n, [copy[n] EXCEPT !.initiated = TRUE])
        /\ pc' = "shutdown"
  /\ left' = left \ {n}
  /\ node' = n
  /\ UNCHANGED <<cache, outage, host, vm, pods, todo, esx>>

\* Mutant: a node that cannot be cordoned is shut down nevertheless.
CordonIgnoresError ==
  /\ pc = "cordon"
  /\ \/ copy[node].cordoned /\ UNCHANGED <<api, copy>>
     \/ ~copy[node].cordoned /\ Patch(node, [api[node] EXCEPT !.cordoned = TRUE])
     \/ ~copy[node].cordoned /\ PatchFails(node, [copy[node] EXCEPT !.cordoned = TRUE])
  /\ pc' = "drain"
  /\ UNCHANGED <<cache, outage, host, vm, pods, todo, esx, left, node>>

\* EnsureSchedulable(false)
Cordon ==
  /\ pc = "cordon"
  /\ \/ /\ copy[node].cordoned
        /\ pc' = "drain"
        /\ UNCHANGED <<api, copy>>
     \/ /\ ~copy[node].cordoned
        /\ Patch(node, [api[node] EXCEPT !.cordoned = TRUE])
        /\ pc' = "drain"
     \/ /\ ~copy[node].cordoned
        /\ PatchFails(node, [copy[node] EXCEPT !.cordoned = TRUE])
        /\ pc' = "shutdown"
  /\ UNCHANGED <<cache, outage, host, vm, pods, todo, esx, left, node>>

\* nodeGracePeriod: no grace on a host with an alarm.
Graceless(obj) == obj.maint = AlarmMaintenance

\* One attempt to drain.  Only a drained node is shut down.
DrainNode ==
  /\ pc = "drain"
  /\ \E new \in PodMap, result \in {"drained", "pending", "error"} :
       /\ EnsureDrain(pods[node], Graceless(copy[node]), Fails("eviction"), new, result)
       /\ pods' = [pods EXCEPT ![node] = new]
       /\ pc' = IF result = "drained" THEN "vmOff" ELSE "shutdown"
  /\ UNCHANGED <<api, cache, outage, host, vm, todo, esx, left, node, copy>>

\* EnsureVMOff: a guest that does not stop in time is powered off.  Only if the
\* vCenter fails does the machine keep running, or stop later.
EnsureVMOff ==
  /\ pc = "vmOff"
  /\ \/ vm' = [vm EXCEPT ![node] = "off"]
     \/ Fails("vcenter") /\ UNCHANGED vm
     \/ /\ Fails("lateOff") /\ vm[node] # "off"
        /\ vm' = [vm EXCEPT ![node] = "stopping"]
  /\ pc' = "shutdown"
  /\ UNCHANGED <<api, cache, outage, host, pods, todo, esx, left, node, copy>>

HostDone ==
  /\ pc = "shutdown" /\ left = {}
  /\ pc' = "host"
  /\ UNCHANGED <<cluster, todo, esx, left, node, copy>>

\* A new process, with a new cache.
Restart ==
  /\ Fails("crash")
  /\ Sleep
  /\ cache' = api
  /\ UNCHANGED <<api, outage, host, vm, pods>>

-----------------------------------------------------------------------------
(* The specification *)

Init ==
  /\ api = [n \in Nodes |-> NewNode]
  /\ cache = api
  /\ outage = FALSE
  /\ host = [h \in Hosts |-> NoMaintenance]
  /\ vm = [n \in Nodes |-> "on"]
  /\ pods = [n \in Nodes |-> NoPods]
  /\ pc = "sleep" /\ todo = {} /\ left = {}
  /\ esx \in [name: Hosts, maint: {NoMaintenance}]
  /\ node \in Nodes
  /\ copy = [n \in Nodes |-> NewNode]

Environment ==
  \/ Outage
  \/ \E h \in Hosts : SetHost(h)
  \/ \E n \in Nodes :
       \/ EditRebootOk(n) \/ UncordonByOthers(n) \/ Deliver(n) \/ GuestStops(n)
       \/ \E p \in Pods : Schedule(n, p) \/ GraceExceeded(n, p) \/ PodStops(n, p)

Round ==
  \/ RoundStart \/ RoundEnd \/ StartNodes \/ ShutdownNodes \/ HostDone
  \/ Uncordon \/ Unmark \/ Cordon \/ DrainNode \/ EnsureVMOff
  \/ \E h \in Hosts : CheckMaintenance(h) \/ CheckFails(h)
  \/ \E n \in Nodes :
       ensureLabel(n) \/ LabelFails(n) \/ ensureVMOn(n) \/ VMOnFails(n) \/ Mark(n)

Next == Environment \/ Round \/ Restart

Spec == Init /\ [][Next]_vars

\* The rounds go on, the watch delivers, pods that were asked to terminate and
\* guests that were asked to shut down do so.
Fairness ==
  /\ WF_vars(Round)
  /\ \A n \in Nodes :
       /\ WF_vars(Deliver(n)) /\ WF_vars(GuestStops(n))
       /\ \A p \in Pods : WF_vars(PodStops(n, p))

FairSpec == Spec /\ Fairness

-----------------------------------------------------------------------------
(* Properties *)

\* Every variable has its type.
TypeOK ==
  /\ api \in [Nodes -> NodeObject]
  /\ cache \in [Nodes -> NodeObject]
  /\ outage \in BOOLEAN
  /\ host \in [Hosts -> Maintenance]
  /\ vm \in [Nodes -> {"on", "stopping", "off"}]
  /\ pods \in [Nodes -> PodMap]
  /\ pc \in {"sleep", "host", "label", "start", "uncordon", "unmark",
            "shutdown", "cordon", "drain", "vmOff"}
  /\ todo \subseteq Hosts
  /\ esx \in [name: Hosts, maint: Maintenance]
  /\ left \subseteq Nodes
  /\ node \in Nodes
  /\ copy \in [Nodes -> NodeObject]

\* A machine the controller switched off carries the annotation by which the
\* controller knows to start it again (ShutdownNodes, StartNodes).
DownIsMarked == \A n \in Nodes : vm[n] # "on" => api[n].initiated

\* A node whose machine is off is cordoned, so that no pod is bound to it
\* (ShutdownNodes, StartNodes).
DownIsCordoned == \A n \in Nodes : vm[n] = "off" => api[n].cordoned

\* No machine is switched off under a pod that could have been evicted, although
\* the drain takes several rounds (ShutdownNodes, EnsureDrain).
NoPodKilled ==
  [][\A n \in Nodes : vm[n] = "on" /\ vm'[n] = "off" => Pending(pods[n]) = {}]_vars

\* "the controller will cordon, drain and shutdown these nodes (and will keep them
\* shutdown)": a node of a host that stays in maintenance ends up switched off, if
\* the shutdown stays allowed and nobody uncordons the node for ever (Reconcile,
\* ShutdownNodes).
StaysDown ==
  \A n \in Nodes :
    /\ <>[](~outage /\ ShutdownAllowed(host[HostOf[n]]) /\ api[n].rebootOk)
    /\ <>[][~UncordonByOthers(n)]_vars
    => <>[](vm[n] = "off")

\* "When the ESX host leaves maintenance mode the controller will turn the nodes on
\* and uncordon them" (Reconcile, StartNodes).
Recovered ==
  \A n \in Nodes :
    <>[](~outage /\ host[HostOf[n]] = NoMaintenance)
      => <>[](vm[n] = "on" /\ ~api[n].cordoned /\ ~api[n].initiated)
=============================================================================
