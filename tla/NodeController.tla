--------------------------- MODULE NodeController ---------------------------
(***************************************************************************)
(* The maintenance controller: one worker that reconciles the nodes of a   *)
(* cluster.  It reads nodes from the informer cache of controller-runtime, *)
(* which follows the API server through an ordered watch, applies the      *)
(* profiles in memory, writes the result back with one merge patch and     *)
(* then polls until the cache has seen its own write.                      *)
(*                                                                         *)
(* What may go wrong in a run is the constant Faults:                      *)
(*   "retry", "fail"   a plugin answers with a RetryError, with an error   *)
(*   "relabel"         somebody edits the profile label                    *)
(*   "delete", "create"  a node object is deleted, and created again       *)
(*   "config"          the configuration file breaks and is repaired       *)
(*   "reject"          the API server rejects the patch                    *)
(*   "lostReply"       the patch is applied but its reply is lost          *)
(*   "timeout"         polling for the cache gives up after a second       *)
(*   "crash"           the controller restarts                             *)
(***************************************************************************)
EXTENDS ProfileState, FiniteSets

CONSTANTS
  Nodes,      \* the node names
  Labels,     \* the values the profile label may take, sequences of names
  MaxNodes,   \* the max setting of the maxMaintenance instances
  MaxLag,     \* bound: undelivered versions of a node others may pile up
  Faults

ASSUME ControllerAssumption ==
  /\ IsFiniteSet(Nodes)
  /\ Labels \subseteq Seq(Names)
  /\ MaxNodes \in Nat
  /\ MaxLag \in Nat

VARIABLES
  api,        \* the node objects on the API server
  cache,      \* the node objects in the informer cache
  watch,      \* the versions of each node the watch has still to deliver
  queue,      \* the nodes that wait for a reconciliation
  configOk,   \* whether the configuration file can be loaded
  info,       \* the nodes that have an entry in the NodeInfoCache
  done,       \* history: profiles whose persisted state has had its Enter run
  pc,         \* the worker: "idle", "apply", "patch" or "poll"
  cur,        \* the node it works on
  snap,       \* unmodifiedNode
  mem,        \* the parsed and modified profile data
  idx,        \* the position of the profile loop in the label
  next,       \* Current of each profile as the loop has it so far
  retry,      \* profilesWithRetryError
  errs,       \* whether an error was collected
  dirty,      \* whether notification times in the data changed
  await       \* deliveries until the cache has the version the patch returned

cluster == <<api, cache, watch>>
work == <<cur, snap, mem, idx, next, retry, errs, dirty>>
vars == <<api, cache, watch, queue, configOk, info, done, pc, cur, snap, mem, idx,
          next, retry, errs, dirty, await>>

-----------------------------------------------------------------------------
(* Node objects *)

NodeObject == [exists: BOOLEAN, profiles: Seq(Names), state: States \cup {NoLabel},
               data: [Profiles -> ProfileData]]

NewNode(l) == [exists |-> TRUE, profiles |-> l, state |-> NoLabel, data |-> NoProfiles]
Absent == [exists |-> FALSE, profiles |-> <<>>, state |-> NoLabel, data |-> NoProfiles]

\* A write on the API server: a new version for the watch to deliver.
Put(n, obj) ==
  /\ api' = [api EXCEPT ![n] = obj]
  /\ watch' = [watch EXCEPT ![n] = Append(@, obj)]

InMaintenanceNodes(objects) ==
  {n \in Nodes : objects[n].exists /\ objects[n].state = InMaintenance}

\* Mutant: off by one, the last free slot is handed out twice.
maxMaintenanceTooMany(objects) == Cardinality(InMaintenanceNodes(objects)) > MaxNodes

\* Whether a maxMaintenance check fails: it counts the nodes the cache lists
\* with the in-maintenance label.
maxMaintenanceFull(objects) == Cardinality(InMaintenanceNodes(objects)) >= MaxNodes

\* The history of Enter after the data of a node became new.
DoneAfter(old, new, entered) ==
  {p \in Profiles :
     \/ new[p].current = old[p].current /\ p \in entered
     \/ old[p] = NoData /\ new[p].current = Operational}

\* The label of the node the worker reads and the names in it.
Label == snap.profiles
LoopNames == ProfileNames(Label)
-----------------------------------------------------------------------------
(* The environment *)

\* Mutant: the poll condition compares versions for equality.
AwaitExact(n) == IF cur = n THEN await - 1 ELSE await

\* What await becomes when a version of n arrives.  pollCacheUpdate compares
\* with >=, so that versions newer than the one it waits for do as well.
AwaitAfter(n) == IF cur = n /\ await > 0 THEN await - 1 ELSE await

\* The watch delivers the next version; its event enqueues the node.
Deliver(n) ==
  /\ watch[n] # <<>>
  /\ cache' = [cache EXCEPT ![n] = Head(watch[n])]
  /\ watch' = [watch EXCEPT ![n] = Tail(@)]
  /\ queue' = queue \cup {n}
  /\ await' = AwaitAfter(n)
  /\ UNCHANGED <<api, configOk, info, done, pc, work>>

EditNode(n, obj) ==
  /\ Len(watch[n]) < MaxLag
  /\ Put(n, obj)
  /\ UNCHANGED <<cache, queue, configOk, info, pc, work, await>>

Relabel(n, l) ==
  /\ "relabel" \in Faults
  /\ api[n].exists /\ api[n].profiles # l
  /\ EditNode(n, [api[n] EXCEPT !.profiles = l])
  /\ UNCHANGED done

DeleteNode(n) ==
  /\ "delete" \in Faults
  /\ api[n].exists
  /\ EditNode(n, Absent)
  /\ done' = [done EXCEPT ![n] = DoneAfter(api[n].data, NoProfiles, @)]

CreateNode(n, l) ==
  /\ "create" \in Faults
  /\ ~api[n].exists
  /\ EditNode(n, NewNode(l))
  /\ UNCHANGED done

\* The file is edited, and LoadConfig accepts it or does not: profiles, chains and
\* instances either all load, or the controller has no configuration.
EditConfig ==
  /\ "config" \in Faults
  /\ configOk' = ~configOk
  /\ UNCHANGED <<cluster, queue, info, done, pc, work, await>>

-----------------------------------------------------------------------------
(* Reconcile *)

IdleWorker ==
  /\ pc' = "idle" /\ cur' = cur
  /\ snap' = Absent /\ mem' = NoProfiles /\ idx' = 1
  /\ next' = [p \in Profiles |-> NoLabel]
  /\ retry' = {} /\ errs' = FALSE /\ dirty' = FALSE /\ await' = 0

\* Reconcile returns with RequeueAfter.
Requeue == IdleWorker /\ queue' = queue \cup {cur}

\* The configuration cannot be loaded: nothing is done and nothing requeued.
ReconcileMisconfigured(n) ==
  /\ pc = "idle" /\ n \in queue /\ ~configOk
  /\ queue' = queue \ {n}
  /\ UNCHANGED <<cluster, configOk, info, done, pc, work, await>>

\* Mutant: the entry of a deleted node is left in the NodeInfoCache.
ReconcileDeletedKeepsInfo(n) ==
  /\ pc = "idle" /\ n \in queue /\ configOk /\ ~cache[n].exists
  /\ queue' = queue \ {n}
  /\ UNCHANGED <<cluster, configOk, info, done, pc, work, await>>

\* The cache does not know the node (any more).
ReconcileDeleted(n) ==
  /\ pc = "idle" /\ n \in queue /\ configOk /\ ~cache[n].exists
  /\ info' = info \ {n}
  /\ queue' = queue \ {n}
  /\ UNCHANGED <<cluster, configOk, done, pc, work, await>>

\* The node is read from the cache and its profile states are maintained.
ReconcileStart(n) ==
  /\ pc = "idle" /\ n \in queue /\ configOk /\ cache[n].exists
  /\ queue' = queue \ {n}
  /\ pc' = "apply" /\ cur' = n /\ snap' = cache[n] /\ idx' = 1
  /\ mem' = MaintainProfileStates(cache[n].data, cache[n].profiles)
  /\ next' = [p \in Profiles |-> mem'[p].current]
  /\ retry' = {} /\ errs' = FALSE /\ dirty' = FALSE
  /\ UNCHANGED <<cluster, configOk, info, done, await>>

\* getProfiles skips a name that has no configuration.
SkipUnknown ==
  /\ pc = "apply" /\ idx <= Len(LoopNames) /\ LoopNames[idx] \notin Profiles
  /\ idx' = idx + 1
  /\ UNCHANGED <<cluster, queue, configOk, info, done, pc, cur, snap, mem, next,
                 retry, errs, dirty, await>>

\* One turn of the loop of ApplyProfiles, for the profile at position idx.
ApplyProfile ==
  /\ pc = "apply" /\ idx <= Len(LoopNames) /\ LoopNames[idx] \in Profiles
  /\ LET p == LoopNames[idx]
         s == mem[p].current
     IN \E o \in ApplyResult :
          /\ o.err \in {"none"} \cup Faults
          /\ Apply(mem[p], Transitions[p][s], anyInMaintenance(mem, Label),
                   maxMaintenanceFull(cache), o)
          /\ next' = IF o.next # s THEN [next EXCEPT ![p] = o.next] ELSE next
          /\ retry' = IF o.err = "retry" THEN retry \cup {p} ELSE retry
          /\ errs' = (errs \/ o.err = "fail")
          /\ dirty' = (dirty \/ o.notified)
          /\ done' = IF o.entered /\ api[cur].exists
                     THEN [done EXCEPT ![cur] = @ \cup {p}] ELSE done
  /\ idx' = idx + 1
  /\ UNCHANGED <<cluster, queue, configOk, info, pc, cur, snap, mem, await>>

\* The loop is over and its results are shown in the NodeInfoCache.
LoopDone ==
  /\ pc = "apply" /\ idx > Len(LoopNames)
  /\ info' = info \cup {cur}
  /\ UNCHANGED <<cluster, configOk, done>>

\* Mutant: a profile that asked for a retry is committed like the others.
CommitRetries == [p \in Profiles |-> [current |-> next[p], previous |-> mem[p].current]]

\* The data after the commit loop.  A profile that asked for a retry keeps its
\* data; every other one remembers the state it was applied in as Previous.
Commit ==
  [p \in Profiles |-> IF p \in retry THEN mem[p]
                      ELSE [current |-> next[p], previous |-> mem[p].current]]

\* The label written beside data d.
StateLabel(d) == UpdateMaintenanceStateLabel(d, Label)

Changed(d) == dirty \/ d # snap.data \/ StateLabel(d) # snap.state

\* Some profile failed: the node is not patched.
ApplyFailed == LoopDone /\ errs /\ Requeue

\* Nothing differs from the node that was read.
NothingToPatch == LoopDone /\ ~errs /\ ~Changed(Commit) /\ Requeue

\* The transitions are committed in memory; a patch follows.
CommitProfiles ==
  /\ LoopDone /\ ~errs /\ Changed(Commit)
  /\ mem' = Commit
  /\ pc' = "patch"
  /\ UNCHANGED <<queue, cur, snap, idx, next, retry, errs, dirty, await>>

\* client.MergeFrom: only what differs from the node that was read is written.
Merge(obj) ==
  [obj EXCEPT !.state = IF StateLabel(mem) # snap.state THEN StateLabel(mem) ELSE @,
              !.data = IF dirty \/ mem # snap.data THEN mem ELSE @]

\* The patch reaches the API server.  The version it returns is the newest one,
\* unless the reply is lost: then the version that was read stays in theNode.
PatchApplied ==
  /\ pc = "patch" /\ api[cur].exists
  /\ Len(watch[cur]) <= MaxLag
  /\ IF dirty \/ Merge(api[cur]) # api[cur]
       THEN Put(cur, Merge(api[cur]))
       ELSE UNCHANGED <<api, watch>>
  /\ done' = [done EXCEPT ![cur] = DoneAfter(api[cur].data, Merge(api[cur]).data, @)]
  /\ \/ await' = Len(watch'[cur])
     \/ "lostReply" \in Faults /\ await' = 0
  /\ pc' = "poll"
  /\ UNCHANGED <<cache, queue, configOk, info, work>>

\* The patch fails, at least because the node is gone; this is only logged.
PatchRejected ==
  /\ pc = "patch"
  /\ "reject" \in Faults \/ ~api[cur].exists
  /\ await' = 0
  /\ pc' = "poll"
  /\ UNCHANGED <<cluster, queue, configOk, info, done, work>>

\* Mutant: Reconcile does not wait for its own write.
NoPollCacheUpdate ==
  /\ pc = "poll"
  /\ Requeue
  /\ UNCHANGED <<cluster, configOk, info, done>>

\* The cache has the version of the patch, or has lost the node.
PollCacheUpdate ==
  /\ pc = "poll"
  /\ await = 0 \/ ~cache[cur].exists
  /\ Requeue
  /\ UNCHANGED <<cluster, configOk, info, done>>

\* Polling gives up after its timeout; this is only logged.
PollTimeout ==
  /\ "timeout" \in Faults
  /\ pc = "poll" /\ await > 0
  /\ Requeue
  /\ UNCHANGED <<cluster, configOk, info, done>>

\* A restart: the new process lists the nodes afresh and enqueues them all.
Restart ==
  /\ "crash" \in Faults
  /\ IdleWorker
  /\ cache' = api
  /\ watch' = [n \in Nodes |-> <<>>]
  /\ queue' = {n \in Nodes : api[n].exists}
  /\ info' = {}
  /\ UNCHANGED <<api, configOk, done>>

-----------------------------------------------------------------------------
(* The specification *)

Init ==
  /\ \E l \in [Nodes -> Labels] : api = [n \in Nodes |-> NewNode(l[n])]
  /\ cache = api
  /\ watch = [n \in Nodes |-> <<>>]
  /\ queue = Nodes
  /\ configOk = TRUE
  /\ info = {}
  /\ done = [n \in Nodes |-> {}]
  /\ pc = "idle" /\ cur \in Nodes /\ snap = Absent /\ mem = NoProfiles /\ idx = 1
  /\ next = [p \in Profiles |-> NoLabel]
  /\ retry = {} /\ errs = FALSE /\ dirty = FALSE /\ await = 0

Environment ==
  \/ \E n \in Nodes : Deliver(n) \/ DeleteNode(n)
  \/ \E n \in Nodes, l \in Labels : Relabel(n, l) \/ CreateNode(n, l)
  \/ EditConfig

Reconcile(n) == ReconcileMisconfigured(n) \/ ReconcileDeleted(n) \/ ReconcileStart(n)

Worker ==
  \/ SkipUnknown \/ ApplyProfile \/ ApplyFailed \/ NothingToPatch \/ CommitProfiles
  \/ PatchApplied \/ PatchRejected \/ PollCacheUpdate \/ PollTimeout

Next ==
  \/ Environment
  \/ \E n \in Nodes : Reconcile(n)
  \/ Worker
  \/ Restart

Spec == Init /\ [][Next]_vars

\* The watch delivers, the worker goes on, and its queue is first in first
\* out, so that a waiting node is not overtaken for ever.
Fairness ==
  /\ \A n \in Nodes : WF_vars(Deliver(n)) /\ SF_vars(Reconcile(n))
  /\ WF_vars(Worker)

FairSpec == Spec /\ Fairness
-----------------------------------------------------------------------------
(* Properties *)

\* Every variable has its type.
TypeOK ==
  /\ api \in [Nodes -> NodeObject]
  /\ cache \in [Nodes -> NodeObject]
  /\ watch \in [Nodes -> Seq(NodeObject)]
  /\ queue \subseteq Nodes
  /\ configOk \in BOOLEAN
  /\ info \subseteq Nodes
  /\ done \in [Nodes -> SUBSET Profiles]
  /\ pc \in {"idle", "apply", "patch", "poll"}
  /\ cur \in Nodes
  /\ snap \in NodeObject
  /\ mem \in [Profiles -> ProfileData]
  /\ idx \in Nat \ {0}
  /\ next \in [Profiles -> States \cup {NoLabel}]
  /\ retry \subseteq Profiles
  /\ errs \in BOOLEAN
  /\ dirty \in BOOLEAN
  /\ await \in Nat

\* The faults without which the worker always reads what it wrote last.
Reliable == Faults \cap {"create", "lostReply", "timeout"} = {}

\* Some profile of object obj is in state s.
HasState(obj, s) == \E p \in Profiles : obj.data[p].current = s

\* The persisted state label is the most crucial state in the persisted data,
\* although a merge patch writes each of the two only when it differs from the
\* node that was read (UpdateMaintenanceStateLabel, Reconcile).
LabelReflectsData ==
  \A n \in Nodes :
    /\ api[n].state = InMaintenance <=> HasState(api[n], InMaintenance)
    /\ api[n].state = Required <=>
         HasState(api[n], Required) /\ ~HasState(api[n], InMaintenance)

\* As long as the configuration loads, an entry of the NodeInfoCache whose node the
\* cache has lost is still going to be looked at: its node is in the queue
\* (Reconcile, NodeInfoCache.Update and Delete).
NoOrphanedInfo ==
  \A n \in info : cache[n].exists \/ n \in queue

\* No more than MaxNodes nodes are in maintenance: "Checks that less than the
\* specified amount of nodes are in the in-maintenance state" (maxMaintenance).
AtMostMaxNodes == Cardinality(InMaintenanceNodes(api)) <= MaxNodes

\* A node is in maintenance for one profile at a time: "ensure only one profile
\* can be in-maintenance at a time" (Transition.Execute).
OneProfileInMaintenance ==
  \A n \in Nodes : \A p, q \in Profiles :
    /\ api[n].data[p].current = InMaintenance
    /\ api[n].data[q].current = InMaintenance
    => p = q

\* Nodes go into maintenance and leave it the way maxMaintenance promises.
Slots == INSTANCE MaintenanceSlots WITH busy <- InMaintenanceNodes(api)
SlotsKept == Slots!SlotsSpec

\* The persisted profile states live the life the concepts promise: configured
\* transitions only, each state's Enter chain before the state is left, and no
\* second profile into maintenance (Apply, ApplyProfiles, Reconcile).
Lifecycle == INSTANCE ProfileLifecycle
               WITH state <- [n \in Nodes |-> [p \in Profiles |-> api[n].data[p].current]],
                    entered <- done
LifecycleKept == Lifecycle!LifecycleSpec

\* The profiles that have data on the API server.
Attached(n) == {p \in Profiles : api[n].data[p] # NoData}

\* Once the process stays up, a profile label that stays as it is gets its profiles
\* attached and the others detached, and that for good (MaintainProfileStates,
\* Reconcile's requeues).
LabelHonoured ==
  \A n \in Nodes, l \in Labels :
    <>[](api[n].exists /\ api[n].profiles = l) /\ <>[][~Restart]_vars
      => <>[](Attached(n) = getProfiles(l))

\* The dashboard forgets a node that stays deleted, even if a reconciliation was
\* under way when the node was deleted (Reconcile, NodeInfoCache.Delete).
DeletedNodeForgotten ==
  \A n \in Nodes : <>[](~api[n].exists) => <>[](n \notin info)
=============================================================================
