# TLA+ models of the maintenance-controller

This directory models the parts of the maintenance-controller that decide when a
Kubernetes node goes into maintenance, is drained and is switched off. The modules
are translated from the Go sources (paths below are relative to `src/`); TLC checks
them on small instances and TLAPS proves the main results for every value of the
constants.

    tlc -workers 2 -config Lifecycle.cfg MCNodeController     # one run
    tlapm NodeControllerProofs.tla                            # one module of proofs

## 1. The system

| component | state | operations | works with |
|---|---|---|---|
| profile state machines (`state/`) | per node and profile: current and previous state, last transition, notification times; persisted in one annotation, parsed in every reconciliation | `MaintainProfileStates`, `Apply` (Enter, Notify, Transition, Trigger), `transitionDefault`, `Transition.Execute` | plugins; called by the node controller |
| node controller (`controllers/`, `cache/`) | the informer cache, the work queue, the copy of the node at hand, the `NodeInfoCache` of the dashboard | `Reconcile`: load the configuration, read the node from the cache, `ApplyProfiles`, merge patch, `pollCacheUpdate`, requeue | API server, profile state machines |
| checks and triggers (`plugin/`, `plugin/impl/`) | mostly none; `stagger` and `slackThread` use leases, `maxMaintenance` and `affinity` list nodes and pods | `Check`, `Trigger`, `Notify`, `OnTransition`; triggers edit the copy of the node the reconciliation holds, `eviction` also drains | API server, other services |
| drain (`common/schedule.go`) | none; the pods of a node and their deletion timestamps carry the progress | `EnsureSchedulable`, `EnsureDrain` | ESX and Kubernikus controllers, eviction trigger |
| ESX controller (`esx/`) | none between rounds; labels and an annotation of the nodes carry the progress | `Reconcile`: per host `CheckMaintenance`, `StartNodes`, `ShutdownNodes` | vCenter, API server, drain; the label `esx-reboot-ok` comes from maintenance profiles |
| Kubernikus controller (`kubernikus/`) | labels of the nodes | mark nodes with outdated kubelets, cordon, drain and delete them | OpenStack, API server, drain |
| stagger check (`plugin/impl/stagger.go`) | leases on the API server; which lease to grab, within a reconciliation | `Check`, `OnTransition` | called by `transitionDefault`; API server |
| notification schedules (`plugin/notification.go`) | per node and instance the time of the last notification, persisted with the states | `ShouldNotify` | called by `notifyDefault` in `Apply` |
| time checks (`plugin/impl/wait.go`, `timewindow.go`) | none | `Check` | the clock, the last transition of a profile |
| dashboard server, metrics, set-up | none that matters to the others | | `NodeInfoCache` |

The node controller, the ESX controller and the Kubernikus controller never call
each other. They meet in the labels of the node objects, each reading them from an
informer cache that is behind the API server.

What makes this hard, and what the properties are aimed at (`hazards` in
PROJECT.json gives each one its line):

* *Stale reads.* Every decision is taken on a cached copy. The node controller
  polls until the cache shows its own write, with a timeout; the ESX controller
  relies on rounds being minutes apart.
* *Merge patches without versions.* A patch writes only what differs from the node
  that was read, over whatever is there by now, so the label and the data of a node
  are not necessarily written together.
* *Partial work.* A reconciliation runs the chains of several profiles and persists
  all results in one patch or none; an ESX round makes five separate calls per node.
  Each step may fail, and the process may restart between any two.
* *Retries.* An Enter or Trigger chain that asks for a retry, an eviction that is
  refused, a guest that does not stop: the next attempt starts from what is persisted.
* *Effects out of step.* Triggers work on the node in memory, which is patched at the
  end of the reconciliation or not at all; a drain evicts pods at once.
* *Waiting for each other.* A node waits for a place in its group, for an approval,
  for nodes without certain pods, for its drain.
* *Others.* Labels are edited, nodes deleted and created, hosts enter and leave
  maintenance while all this is going on.

What makes each component correct: profiles move along configured transitions only
and never skip a chain; label and data agree; limits hold although the counting is
done on a cache; a label that was set has its effect; a machine that was switched
off is marked, cordoned and empty; a host that comes back gets its nodes back; a
deleted server was empty; a node that is maintained is cordoned and drained, its group
keeps enough nodes in service, and everyone's turn comes; nodes pass the stagger check one duration apart; waiting
times and notifications come neither early nor late nor twice.

## 2. Modules

| module | models |
|---|---|
| `ProfileState` | `state/state.go`, and the functions of `controllers/node_handler.go` that compute on profile data |
| `NodeController` | `controllers/node_controller.go`, `ApplyProfiles`, `NodeInfoCache`, the plain `maxMaintenance` check; API server, watch and cache as far as they are used |
| `ProfileLifecycle` | abstract: the life of the profile states of a node |
| `MaintenanceSlots` | abstract: the slots `maxMaintenance` hands out |
| `NodeControllerInv` | the inductive invariants of `NodeController` |
| `NodeControllerProofs`, `RefinementProofs` | proofs: types, `NodeInfoCache`, the invariant of the reliable controller; the two refinements |
| `MCNodeController` | constants for TLC: profiles, labels, symmetry |
| `Drain` | `EnsureDrain` |
| `EsxController` | `esx/`, `EnsureSchedulable`; vCenter, guests, scheduler and kubelets as far as they are used |
| `EsxControllerInv`, `EsxControllerProofs`, `MCEsxController` | its invariant, its proofs, its constants for TLC |
| `Kubernikus` | `kubernikus/`, on top of `Drain`; OpenStack, cloud provider, scheduler and kubelets as far as they are used |
| `KubernikusProofs`, `MCKubernikus` | its proofs and invariant, its constants for TLC |
| `Stagger`, `StaggerProofs`, `MCStagger` | the stagger check; its proofs and invariant; symmetry for TLC |
| `NotificationSchedules`, `NotificationProofs`, `MCNotifications` | the three schedules and `notifyDefault`; their proofs and invariant; symmetry for TLC |
| `TimeChecks`, `TimeProofs` | `waitExclude` and `timeWindow`; the proofs about `waitExclude` |
| `TriggerChains` | `TriggerChain.Execute`, `eviction` (on top of `Drain`), `alterLabel`, `alterAnnotation`, `alterFinalizer` |
| `ClusterChecks` | `maxMaintenance` with `groupBy`, `affinity`, `hasLabel`, `hasAnnotation`, `CheckChain.Execute` |
| `MaintenanceWorkflow` | the composition: the worker of the node controller with `ProfileState`, `ClusterChecks` and `TriggerChains`; update agent, approvals, scheduler and kubelets as far as they are used |
| `WorkflowProofs`, `MCWorkflow` | its proofs and invariants; a workflow for TLC |

A definition below a comment that starts with "Mutant" is a deliberately wrong
version of the definition that follows. It is used nowhere; PROJECT.json pairs it
with the property that must fail when it takes the place of the right one.

### NodeController

`api`, `cache` and `watch` are the node objects on the API server, those in the
informer cache, and the versions between the two: the watch delivers versions in
order and a version, once delivered, enqueues its node. `queue` is the work queue,
`configOk` says whether the configuration file loads, `info` is the key set of the
`NodeInfoCache`. The remaining variables are the local variables of one
reconciliation; `MaxConcurrentReconciles` is one, so there is one worker.

| step of the code | action |
|---|---|
| configuration cannot be loaded: return, no requeue | `ReconcileMisconfigured` |
| node not found: drop it from the `NodeInfoCache` | `ReconcileDeleted` |
| copy the node, parse data, `MaintainProfileStates` | `ReconcileStart` |
| one turn of the loop of `ApplyProfiles`: Enter, Notify, Transition, Trigger | `ApplyProfile`, `SkipUnknown` |
| after the loop: `NodeInfoCache.Update`, then errors, commit loop, label | `ApplyFailed`, `NothingToPatch`, `CommitProfiles` |
| `Patch`, its error only logged | `PatchApplied`, `PatchRejected` |
| `pollCacheUpdate`, its timeout only logged, requeue | `PollCacheUpdate`, `PollTimeout` |
| restart: new cache, all nodes enqueued | `Restart` |

`Commit` keeps the data of profiles that asked for a retry, as the code does, and
sets `previous` of the others to the state they were applied in. This is what makes
Enter run exactly as long as it has not finished. The history variable `done`
remembers for which persisted states Enter ran to its end; it influences nothing.

Abstractions. Check, trigger and notification chains are replaced by every answer
they may give (`CheckChain`, `Apply`), except that a chain with `maxMaintenance`
does not pass while the cache lists `MaxNodes` nodes in maintenance. Time stamps
and notification times are the flag `dirty`: whether data changed in a way the
states do not show. Profile names are model values; the label is a sequence of
names, with unknown and repeated ones. Edits of the node that triggers make in
memory (`alterLabel`, `alterAnnotation`) and a malformed data annotation, which
nobody but the controller writes, are left out.

### EsxController and Drain

One round is a walk: `RoundStart` lists the nodes; `CheckMaintenance` takes a host,
`ensureLabel` its nodes whose label is wrong; `StartNodes`, `ensureVMOn`,
`Uncordon`, `Unmark` bring nodes back; `ShutdownNodes`, `Mark`, `Cordon`,
`DrainNode`, `EnsureVMOff` take them down; `HostDone` and `RoundEnd` finish. `copy`
holds the listed nodes. A successful patch replaces a copy by the reply of the API
server, a failed one leaves the copy changed, and later steps look at the copy; this
is kept because `EnsureSchedulable` and `ensureAnnotation` skip the patch if the copy
already has the value.

`vm` is "on", "off", or "stopping" for a guest that was asked to shut down while
nobody waits for it any more. `EnsureVMOff` waits for the guest and powers the
machine off when it takes too long, so that it ends with the machine off unless the
vCenter fails on the way. `ensureVMOn` leaves every machine alone that is not off,
also one that is stopping, because the vCenter reports it as powered on. The maps
`pods[n]` say of each pod that can be evicted whether it is active, terminating, or
terminating beyond its grace period. Evicting a pod makes it terminating, or
removes it when the host has an alarm (grace period 0); a pod beyond its grace
period is deleted if `ForceEviction` is set; only a node that was empty at the
beginning of an attempt counts as drained.

Abstractions. The configured alarms and the maintenance tasks of a host are the
value `host[h]`. Mirror pods and pods of daemon sets are not in `Pods`. Pods are
read as they are, not through a cache. The label `esx-version` is left out. Hosts
and nodes are taken in any order; the code iterates over a Go map and a list.
`Schedule` respects a cordon at once.

### Kubernikus

`pc[n]` is the step the reconciliation of node n has reached, `copy[n]` the object
it works on: `Get`, `markUpdate`, and for a node with the label `delete-node`
`Cordon`, `DrainNode`, `deleteVM`. Up to `Workers` nodes are worked on at a time;
none twice, which the work queue sees to. Every return requeues the node, so a node
that is not worked on may always be taken. A patch replies with the object on the
API server, and the label is looked at in the reply. `Matches` is what OpenStack
lists for a name: the name is a pattern there. `vm` tells a server that runs from one
that is being deleted or gone; when it is gone the cloud provider removes the node.
The history variable `uncordoned`, which no guard reads, holds the nodes that others
uncordoned since their reconciliation learned from the reply of `markUpdate` whether
they are cordoned.
A reconciliation that finds neither configuration nor node changes nothing and is
left out.

### Stagger

The worker checks the chains of a profile (`Check`, `CheckHeld`, `CheckFree`,
`getOrCreateLease`), then calls `OnTransition` (`grabLease`, `GrabFails`), and so on
for the next profile of the node. Other checks of a chain are abstracted to whether
a transition follows (`NoTransition`). A lease that is not in the cache is created
with a `RenewTime` in the past; `OnTransition` reads it again, and may not find it in
the cache. `LeaseDuration` is the duration cut to full seconds. `grabs` is a history
of who grabbed which lease when. The configured duration is constant, and nobody
deletes leases.

### MaintenanceWorkflow, TriggerChains, ClusterChecks

`NodeController` leaves open what chains do. `MaintenanceWorkflow` has the chains of a
configuration instead, and nodes with pods: `api[n]` is the node object (cordon,
marks, the `groupBy` label, the state label, the data of the profiles), `pods[n]` its
pods. A mark stands for a label, an annotation or a finalizer that has the value the
configuration asks for. Three of them have a meaning outside: an update agent sets
"needed" and, once the controller has set "ok", maintains the node and clears
"needed"; somebody sets "approved" on a node that requires maintenance. `Finalizers` are
the keys that are finalizers: a merge patch writes labels and annotations one by one and
the finalizers as one list (`MergeMarks`), so that one that others add between read and
patch is lost when a trigger alters another one. In the run only the controller alters
them.

| step of the code | action |
|---|---|
| read and copy the node, `MaintainProfileStates` | `Reconcile` |
| `Apply`, Enter chain after a change of state | `EnterState` |
| `Apply`, notifications, checks, trigger chain | `ApplyProfile`; `ApplyError` for other errors |
| errors: nothing is patched; nothing differs; commit loop and label | `ApplyFailed`, `NothingToPatch`, `CommitProfiles` |
| `Patch` of what differs | `Patch` |

Enter and the checks are separate steps, because pods come and go in between. A
chain is a sequence of triggers. `ExecuteChain` gives what it may come to: it runs to
its end, or to the first drain that is not through, which asks for a retry; what the
triggers before it did stays in memory (`Edit`), and is patched even though the profile
is not moved. `Commit` is that of `NodeController`. `TriggersTo` is the trigger chain of
the first transition with the target, which the code takes, not the one whose checks
passed. Checks look at the marks of the node in memory, and at nodes and pods of the
API server: the caches are taken to have caught up when a reconciliation looks at them,
since `NodeController` is about caches that have not. A lost approval, the filters
`profile` and `skipAfter` and triggers that alter the keys of the controller itself are
left out.

`WellConfigured(d)` is what the documentation asks of a configuration whose profile d
takes nodes out of service (`docs/concepts.md:91`, the comment at
`plugin/impl/eviction.go:74`): cordon in the transition into maintenance, drain in its
Enter chain, permission after the drain, permission withdrawn with the cordon, other
profiles keep out of it. `Disciplined(d)` is what a limit on the nodes out of service
takes in addition: d is in the profile label, every transition into maintenance asks
`maxMaintenance` and does not drain, every transition out of it uncordons, and no other
chain of d cordons or drains. `MCWorkflow` has such a configuration, and TLC evaluates
that it is one.

### NotificationSchedules and TimeChecks

Time is counted in units; `Day`, `Week` and `Month` give days, days of the week and
days of the month, as Go's `time` does, with small numbers. A reconciliation begins
one or more units after the last one and sends and moves within a unit, notification
first, as the code does. It begins with the data that was saved last: that a poll times out
or a reply is lost, and the next reconciliation begins with older data, is looked at in
`NodeController` and left out here. `last` is the persisted time of the last notification, `Zero`
before the first one: Go's zero time, the first day of a month long ago. Which states
follow each other is left open. `notifyDefault` and the outcome of the profile are one
step, because nothing else can happen to the data in between. The history variables
`sent` and `saved` remember the notifications, and those whose time reached the API
server.

`TimeChecks` has no steps but the clock. The loop of `waitExclude` visits the transition
and every whole number of days after it up to now (`Visited`); it subtracts the rest of
the first day if that is excluded (`subtractFirst`) and a whole day for each other
excluded day it visits (`subtractDays`), the code after it the time since midnight
(`subtractToday`). `since` is what remains, `Elapsed` counts the units that should count. Parts of a
second, which the code never subtracts, are below its units. `InWindow` is
`timeWindow`, whose bounds do not belong to the window.

## 3. Runs

| run | instance | what TLC shows |
|---|---|---|
| `lifecycle` | 1 node, 2 profiles of which one has two ways out of operational and a self-loop, 4 labels; retries, errors, relabelling, rejected patches, restarts | `LabelReflectsData`; `LifecycleKept`, i.e. `NodeController` implements `ProfileLifecycle` |
| `slots` | 2 nodes, 1 slot; restarts, deletions, relabelling, rejected patches, broken configuration | `AtMostMaxNodes`; `SlotsKept`, i.e. `NodeController` implements `MaintenanceSlots` |
| `node_live` | 1 node, relabelled, deleted and created during reconciliations; retries, lost replies, poll timeouts, restarts | `NoOrphanedInfo`, `DeletedNodeForgotten`, `LabelHonoured` |
| `esx_reliable` | 1 node, 2 pods; patches, evictions, vCenter calls fail, restarts | `DownIsMarked`, `DownIsCordoned`, `NoPodKilled`, `Recovered`, `StaysDown` |
| `esx_stale` | 1 node, no pods; late guests, stale rounds, others uncordon, vCenter calls fail, restarts | `StaysDown` |
| `kubernikus` | 1 node, 1 pod, 2 versions; every fault, others uncordon and delete servers | `DeletedEmpty`, `EventuallyDeleted`, `UpdateMarked` |
| `stagger` | 2 nodes, 2 leases; rejected writes, lost replies, restarts | `Staggered` |
| `time_checks` | a week of 4 days of 3 units, a year of 13 days with a holiday, every hour of the transition, every set of excluded days and of days of the window | `NeverEarly`, `ExactOnCountedDays`, `LetThrough` |
| `notifications` | 2 profiles that share an instance, each schedule, more than a month of 2 days; retries, errors, rejected patches | `Announced`, `AnnouncedOnce`, `Spaced`, `OncePerDay` |
| `workflow` | 2 nodes, in one group, without one, or one of each; 1 pod that prefers operational nodes, 1 profile, 1 place in maintenance; evictions, checks, patches fail, restarts | `MaintainedEmpty`, `GroupInService`, `EveryoneMaintained` |
| `two_in_maintenance` | as `lifecycle`, no fault at all | violates `OneProfileInMaintenance` |
| `wait_backwards` | as `time_checks` | violates `StaysPassed` |

Bounds. `MaxLag` (1) limits the versions others may write ahead of the watch; the
controller may write one more, so that its own write races with an edit in either
order, which is all the poll can tell apart. `MaxNodes` is 1: two nodes are enough
to overbook one slot. Two profiles are enough for one to keep the other out of
maintenance. In the ESX runs one node on one host visits every step of a round with
every failure; a second node multiplies the states beyond what a run can do, and the
steps of two nodes never touch the same state. `esx_stale` does without pods, because
what a stale round gets wrong are marks and cordons; the drain is in `esx_reliable`. What
the Kubernikus run checks concerns each node on its own, and the workers share nothing
but their number; `DeletedEmpty` is proved for any number. In `workflow` two nodes
are enough to compete for a place and to wait for each other's pods; with two nodes
`minOperational` lets nobody pass whom the comparison with the other node would hold
back, so that only three could tell it apart. `MaxTime` and `MaxGrabs` leave room for every
lease to be grabbed twice; `MaxTime`, `MaxPause` and the lengths of day, week and month
in the notification run for days without a reconciliation, several in one day, and
the same day of the next month; `MaxWait` for four weeks, after which every chain
of the run has been let through. The theorems are not
limited to any of these numbers. Every action fires in some passing run.

Fairness. The watch delivers eventually (`WF Deliver`), the worker goes on
(`WF Worker`). A waiting node is reconciled (`SF Reconcile(n)`): the worker is busy
again and again in between, but the work queue is first in, first out. In the ESX
controller rounds go on (`WF Round`: a timer and a process that is restarted),
guests that were asked to shut down and pods that were asked to terminate do so
(`WF GuestStops`, `WF PodStops`), and the watch delivers. Nothing is assumed of the
environment's decisions; the ESX promises have as their premise that the outage is
over, that the host stays as it is and, for `StaysDown`, that others do not uncordon
for ever; `LabelHonoured` has as its premise that the process stays up at last. In the
Kubernikus controller a reconciliation
that was begun goes on (`WF Reconcile(n)`), a node that is free again and again is
taken (`SF Get(n)`, the work queue again), and watch, kubelets, OpenStack and cloud
provider do their part; the promises have as their premise that the outage is over
and that the label, or the version of the API server, stays as it is; for
`EventuallyDeleted` also that others do not uncordon for ever. In the workflow the
worker goes on, no node is overtaken in the queue for ever (`SF Reconcile(n)`), pods
stop when they are told to, and approval and update agent do their part; the premise of
`EveryoneMaintained` is that the outage is over and that no new updates come up. In
`TimeChecks` time goes on (`WF Tick`). TLC checks deadlock in
every run.

## 4. What is proved

With TLAPS, for every cluster, configuration and number of nodes, profiles, hosts
and pods. The assumptions on the constants (`ConfigAssumption`,
`ControllerAssumption`, `EsxAssumption`, `WorkflowAssumption` and so on) are that they
have their types, that the default profile is configured, which `loadProfiles` ensures,
that no state is called as an outcome is, and for `TimeChecks` that a window does not end
before it starts, which `New` refuses. A theorem that
needs more says so in its ASSUME.

* `TypeCorrect`: types, under every fault.
* `InfoTracked`: `NoOrphanedInfo`, without configuration faults. The property is
  not inductive: a reconciliation under way will write an entry for `cur`. `InfoInv`
  adds that during a reconciliation its node is in the cache or queued again.
* `LabelCorrect`, `LifecycleCorrect`: `LabelReflectsData` and the refinement of
  `ProfileLifecycle`, for a `Reliable` controller: no poll times out, no reply is
  lost, and a deleted node is not created again under its name. All three let the
  worker start from a version before its own last write. The invariant is `IInv`:
  `Fresh` (every version the worker can start from agrees with the API server in
  what the controller writes: the cache, those in the watch from the one the poll
  waits for on, and the copy at hand), `Working` (what the memory of the worker
  holds relative to the node that was read: the maintained data, for each profile a
  configured transition or none, for each finished turn an Enter that ran),
  `Persisted` (data whose previous and current state are equal has had its Enter
  run) and `LabelReflectsData` itself.
* `SlotsCorrect`, `MaxNodesCorrect`: the refinement of `MaintenanceSlots` and
  `AtMostMaxNodes`, for a `Reliable` controller with `maxMaintenance` in every chain
  into maintenance (`AllLimited`). `IInv` gets the conjunct `SlotFree`: while a
  profile is on its way into maintenance a slot is free on the API server, not only
  in the cache. It is stable because there is one worker and others only free slots.
* `EsxTypeCorrect`: types, under every fault.
* `MarkedCorrect`, `CordonedCorrect`, `NoPodKilledCorrect`: `DownIsMarked`,
  `DownIsCordoned` and `NoPodKilled` for a `Steady` ESX controller: rounds start on
  a cache that has caught up, no guest is left to stop on its own, nobody else
  uncordons. Failing patches, evictions, vCenter calls and restarts are allowed. The
  invariant is `EInv`; its core is `CopiesTrue`, that no copy the round has still to
  use shows a mark or a cordon that is not there. A failed patch breaks this for one
  copy, but only for a node the round has left behind (`InUse`).

* `KubernikusTypeCorrect`: types, under every fault.
* `DeletedEmptyCorrect`: `DeletedEmpty`, if a name lists no other server
  (`OwnServerOnly`); for any number of nodes and workers, with every failure and
  restart, and with others uncordoning. The invariant `KInv` says what a reconciliation
  has achieved at each step: unless others uncordoned the node behind its back
  (`uncordoned`), a copy that shows a cordon is right and from the drain on the node is
  cordoned; before the deletion a node that is still cordoned is empty.
* `StaggerTypeCorrect`: types, under every fault.
* `StaggeredCorrect`: `Staggered`, if reconciliations begin with a cache of leases
  that has caught up and the duration is one of full seconds (`Punctual`). The
  invariant `SInv`: grabs are known to the API server (`Recorded`), the worker's cache
  has seen those of other nodes (`Seen`), and the lease that is about to be grabbed
  was not grabbed lately by another node (`Clear`). `Clear` is what connects `Check`
  with `OnTransition`, between which time passes and other chains are checked.
* `ParallelCorrect`: what `Staggered` is for, under the same premise. In no stretch of
  time as long as the duration do more nodes pass with a lease than there are leases:
  nodes that pass within it hold different leases, so their passes can be mapped one to
  one into the leases, and a finite set cannot hold more than that.

* `WorkflowTypeCorrect`: types, for every configuration and under every fault.
* `MaintainedEmptyCorrect`: `MaintainedEmpty`, for any number of nodes, pods and
  profiles, any checks and every fault, if some profile d is `WellConfigured`. That a
  node with permission is cordoned and drained is not inductive, because cordon and
  permission are made in memory and reach the API server later, or never. `SInv(d)`
  has it for the node objects (`Safe`; `Locked`: a node that d has in maintenance is
  cordoned), for the worker's copies (`Held`: since there is one worker, cordon,
  permission and data that were read are still there, and a copy with the permission is
  one of a node that is cordoned on the API server and empty) and for the loop over the
  profiles (`Looping`: if d is in maintenance the cordon has reached the API server, if
  it is about to be the cordon is in memory). The step that carries it
  is `EnterState`: at a drain in an Enter chain the cordon is already on the API server,
  so that a node that is empty stays empty until the patch.

* `GroupInServiceCorrect`: `GroupInService`, for any number of nodes, groups, pods and
  profiles and every fault, if some profile d is `Disciplined`. Nodes with the permission
  are cordoned (`SInv`), so it is about cordons; but the check counts labels, and the
  cordon is made after the check and reaches the API server with the patch. `GInv(d)` adds
  to `SInv(d)`: a cordoned node carries the label of a node in maintenance and d has it
  there (`Counted`), at most `MaxNodes` nodes of each group are cordoned, and as long as
  the worker has a cordon in memory that the API server does not have, the group has a
  place (`Granted`), which it keeps because only the worker writes what is counted. A
  drain that is retried leaves `Granted` alone, because its cordon was patched before.
* `GroupImplementsSlots`: under the same premise the workflow implements
  `MaintenanceSlots` for each group, with `busy` mapped to the nodes of the group that are
  out of service: they leave and return one at a time, and leave only below the limit. The
  plain `maxMaintenance` of `NodeController` (`SlotsCorrect`) and the grouped one of the
  workflow thus keep the same abstract promise, the second one for cordons and
  permissions instead of labels. No run checks this one.
* `NotificationTypeCorrect`, `AnnouncedOnceCorrect`, `SpacedCorrect`,
  `OncePerDayCorrect`, `AnnouncedCorrect`: the properties of `NotificationSchedules`, for
  any number of profiles, any lengths of day, week and month, any interval and delay, with
  retries, errors and rejected patches. The invariant `NInv`: the times of notifications
  increase (`Ordered`); those of saved ones are not after the persisted time
  (`Accounted`), which itself is that of a notification (`Witnessed`); a reconciliation
  begins after all that is persisted and its copy knows what it sent itself (`Working`);
  and no notification repeats a saved one, or one of the same reconciliation, which may
  be saved together with it (`Distinct`). `OncePerDay` needs no assumption on the length
  of months: equal days have equal days of the month, and the code errs only by being
  silent.
* `NeverEarlyCorrect`, `ExactCorrect`: `NeverEarly` and `ExactOnCountedDays`, for every
  length of day and week, every duration, every set of excluded days and every hour of
  the transition. The invariant `TimeInv` is an equation: `since` is `Elapsed` less
  `Ahead(now)`, which is what has been subtracted too early. On a day that counts it is
  nothing; on the day of the transition it is the rest of the day; on a later excluded
  day it is a whole day from the hour of the transition on. The clock advances by a unit,
  so the proof follows how each term changes in one step, at midnight and at the hour of
  the transition, and no sum over days has to be evaluated.
* `LateCorrect`: what `wait_backwards` shows is limited. A check that fails again on an
  excluded day passes for good once a day more than the duration has counted. No run
  checks this one.

Where a proof takes the last element of a
finite set (the last trigger of a chain that cordons or uncordons), it is obtained from the
well-foundedness of strict inclusion, whose theorem has no operator parameter, and not by
induction.

Only model-checked: the liveness properties (`LabelHonoured`, `DeletedNodeForgotten`,
`StaysDown`, `Recovered`, `EventuallyDeleted`, `UpdateMarked`, `EveryoneMaintained`,
`LetThrough`), because fairness is out of the prover's reach. Every invariant and every
action property of a passing run is stated by a theorem.

## 5. What the violations show

* `two_in_maintenance`. `ApplyProfiles` computes whether some profile is in
  maintenance once, from the states that were read (`controllers/node_handler.go:72`).
  Two profiles whose checks pass in the same reconciliation both go into
  maintenance. `Transition.Execute`, the concepts and a test say that only one
  profile of a node can be in maintenance. What does hold is that no profile
  follows another one that is there already (`LifecycleKept`).
* `wait_backwards`. If today is excluded and the hour of the transition has passed,
  a whole day and the time since midnight are both subtracted for it
  (`plugin/impl/wait.go:119`). A check that had passed fails until the end of the day.

Several properties are stated with a restriction or checked without one of the
faults. Each restriction is needed; the faults and constants of a configuration are
all that has to be changed to see it:

* `AtMostMaxNodes` needs polls that do not time out. When `pollCacheUpdate` times out
  the controller goes on (`controllers/node_controller.go:109`), and `maxMaintenance`
  counts a cache without the last write: with `"timeout"` in `Slots.cfg` two nodes take
  one slot, with a single worker.
* `Recovered` needs guests that do not stop late. With `"lateOff"` a guest shutdown
  whose polling ended with an error may complete when the host is out of maintenance
  again. `ensureVMOn` sees a powered-on machine (`esx/start.go:40`), the node is
  uncordoned and loses its annotation, and then the machine stops. No later round
  starts it.
* `DeletedEmpty` needs names that list no other server. `deleteVM` deletes the one
  server that is listed for the name of the node without comparing the names
  (`kubernikus/node_controller.go:231`). When the node's own server is gone
  (`"lost"`), that one may be the server of a node whose name contains the name, and
  which was neither cordoned nor drained.
* `Staggered` needs a cache of leases that has caught up. Nothing waits until it
  shows a grab (`plugin/impl/stagger.go:79`): with `"lag"` and one lease two nodes
  pass at once.
* `Announced` asks less of a oneshot than of a periodic instance. Profiles share the
  time of the last notification of an instance (`state/state.go:298`), so a oneshot
  notification for one makes another one count as notified.
* `AnnouncedOnce`, `Spaced` and `OncePerDay` are about notifications whose time was
  saved. Notifications are sent before the checks; when one of these fails, nothing
  is saved (`controllers/node_controller.go:89`), and the notification is sent again
  in every reconciliation. They also need reconciliations that begin with what was saved
  last: after a poll that timed out (`controllers/node_controller.go:109`) the cache may
  still show the time before, and the notification is repeated. `Spaced` is about reminders, because a trigger that asks
  for a retry right after a change of state has the change reported again.
* Nothing is claimed about scheduled notifications that are due. "Already notified
  today" compares days of the month (`plugin/notification.go:186`), and the zero time
  is on the first of a month: nothing is sent on that day, or on the day of the month
  of the last notification.

* `MaintainedEmpty` needs a `WellConfigured` profile. A drain marks the node as cordoned
  in memory only (`plugin/impl/eviction.go:82`); in a transition without an earlier
  cordon pods may be bound to the node between its drain and the patch, together with
  the permission.
* `MaintainedEmpty`, `NoPodKilled` and `DeletedEmpty` need a cache of pods that has
  caught up (`common/schedule.go:174`).

An observation no run covers: `RecordShuffles` is called after the Enter chain
(`state/maintenance.go:31`). In the configuration the documentation advises, that chain
drains the node, and the pods to be counted are gone; a check that fails afterwards has
the chain run and counted again.

## 6. Not modelled, and the plan

Not modelled for good:

* parsing of configuration and chain expressions (`plugin/plugin.go`,
  `controllers/config.go`, `esx/config.go`): whether it succeeds is a fault of
  `NodeController`, and what it yields are constants;
* mail and Slack (`plugin/impl/mail.go`, `slack.go`): calls to services. The lease of
  `slackThread` decides in which thread a message appears and nothing else;
* checks that ask one service or look at one object (`condition`, `nodeCount`, `semver`,
  `prometheusInstant`, hypervisor and Kubernikus checks): without state, their answers
  are open in `NodeController`;
* the dashboard's HTTP server, metrics, process set-up.

Planned, in this order:

1. ESX and node controller composed: a profile that sets `esx-reboot-ok` and waits for
   the host, on the labels both share; likewise the Kubernikus controller with a
   profile that sets `delete-node`.
2. `maxMaintenance` with `profile` and `skipAfter` in the workflow; a cache for pods in
   `Drain`.

Theorems to come: an abstract lease that `Stagger` implements; `MaintenanceWorkflow` as
an implementation of `ProfileLifecycle`, which takes a history of the Enter chains that
ran; the drain of the ESX and Kubernikus controllers and of the workflow from lemmas about
`Drain` that all three share.
