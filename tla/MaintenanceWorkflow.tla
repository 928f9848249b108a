------------------------- MODULE MaintenanceWorkflow -------------------------
(***************************************************************************)
(* A maintenance from end to end: the worker of the node controller with   *)
(* the checks and triggers of a configured workflow, the pods of the nodes *)
(* and the parties around them.  An update agent marks a node with         *)
(* "needed" and maintains it, mostly by a reboot, once the controller has  *)
(* marked it with "ok"; somebody approves each maintenance by "approved".  *)
(*                                                                         *)
(* A reconciliation reads the node, applies its profiles to a copy and     *)
(* patches what differs.  It is taken to find a cache of nodes and pods    *)
(* that has caught up when it starts; NodeController is about caches that  *)
(* have not.  While outage holds, what Faults names may go wrong:          *)
(*   "eviction"  evictions fail, some or all                               *)
(*   "fail"      a trigger or a check returns an error                     *)
(*   "reject"    the API server rejects the patch                          *)
(*   "crash"     the controller restarts                                   *)
(***************************************************************************)
EXTENDS ClusterChecks, TriggerChains

CONSTANTS
  Groups,    \* the values of the groupBy label, NoLabel among them if it may be missing
  Label,     \* the profile label of the nodes, a sequence of names
  Checks,    \* [profile -> [state -> the check chain of each transition]]
  Chains,    \* [profile -> [state -> the trigger chain of each transition]]
  Enter,     \* [profile -> [state -> the enter chain]]
  Faults

\* The marks a node must and must not have, and the plugins beside them.
CheckChains == [has: SUBSET Keys, hasNot: SUBSET Keys, affinity: BOOLEAN, max: BOOLEAN]

ASSUME WorkflowAssumption ==
  /\ IsFiniteSet(Nodes)
  /\ {"needed", "approved", "ok"} \subseteq Keys /\ Finalizers \subseteq Keys
  /\ Label \in Seq(Profiles) /\ Label # <<>>
  /\ Groups # {}
  /\ MaxNodes \in Nat /\ MinOperational \in Nat
  /\ Affine \subseteq Pods
  /\ \A p \in Profiles, s \in States :
       /\ Enter[p][s] \in Seq(Triggers)
       /\ Checks[p][s] \in Seq(CheckChains)
       /\ Chains[p][s] \in Seq(Seq(Triggers))
       /\ DOMAIN Checks[p][s] = DOMAIN Transitions[p][s]
       /\ DOMAIN Chains[p][s] = DOMAIN Transitions[p][s]

-----------------------------------------------------------------------------
(* How the documentation advises to set up profile d, which takes nodes out of *)
(* service: "cordon" on the way into maintenance, "drain" after it was entered. *)

Has(chain, action) == \E i \in DOMAIN chain : chain[i].action = action
Alters(chain, action, key) ==
  \E i \in DOMAIN chain : chain[i].action = action /\ chain[i].key = key

TriggersOf(p, s) == {Chains[p][s][i] : i \in DOMAIN Chains[p][s]}
ChainsOf(p, s) == TriggersOf(p, s) \cup {Enter[p][s]}

\* The chain has nothing to do with scheduling and permission.
Neutral(c) ==
  /\ ~Has(c, "cordon") /\ ~Has(c, "drain") /\ ~Has(c, "uncordon")
  /\ ~Alters(c, "add", "ok") /\ ~Alters(c, "remove", "ok")

\* Permission is withdrawn with the cordon.
Releases(c) ==
  Has(c, "uncordon") => ~Has(c, "drain") /\ ~Alters(c, "add", "ok") /\ Alters(c, "remove", "ok")

\* Permission is given after a drain, and the node stays cordoned.
Prepares(c) ==
  /\ ~Has(c, "uncordon")
  /\ \A i \in DOMAIN c : c[i].action = "add" /\ c[i].key = "ok" =>
       \E j \in DOMAIN c : j < i /\ c[j].action = "drain"

\* The node is cordoned, perhaps for a drain.
Withdraws(c) == Has(c, "cordon") \/ Has(c, "drain")
Cordons(c) == Withdraws(c) /\ ~Has(c, "uncordon")

WellConfigured(d) ==
  /\ \A i, j \in DOMAIN Label : Label[i] = Label[j] => i = j
  /\ \A p \in Profiles \ {d}, s \in States : \A c \in ChainsOf(p, s) : Neutral(c)
  /\ Prepares(Enter[d][InMaintenance])
  /\ \A s \in States :
       /\ \A c \in ChainsOf(d, s) : Releases(c)
       /\ \A c \in TriggersOf(d, s) : ~Alters(c, "add", "ok")
       /\ s # InMaintenance => ~Alters(Enter[d][s], "add", "ok")
       /\ \A i \in DOMAIN Transitions[d][s] :
            s # InMaintenance /\ Transitions[d][s][i].next = InMaintenance =>
              Cordons(Chains[d][s][i])

\* In addition every way into maintenance asks for a place in the group and leaves the
\* drain to the Enter chain, every way out uncordons the node, and nothing but entering
\* maintenance cordons it.
Disciplined(d) ==
  /\ WellConfigured(d)
  /\ d \in getProfiles(Label)
  /\ \A s \in States :
       /\ s # InMaintenance => ~Withdraws(Enter[d][s])
       /\ \A i \in DOMAIN Transitions[d][s] :
            IF Transitions[d][s][i].next = InMaintenance
              THEN s # InMaintenance =>
                     Checks[d][s][i].max /\ ~Has(Chains[d][s][i], "drain")
              ELSE /\ ~Withdraws(Chains[d][s][i])
                   /\ s = InMaintenance => Has(Chains[d][s][i], "uncordon")

-----------------------------------------------------------------------------

VARIABLES
  api,      \* the node objects
  pods,     \* the pods of each node
  outage,   \* whether faults may happen
  pc,       \* the worker: "idle", "enter", "check" or "patch"
  cur,      \* the node it works on
  snap,     \* unmodifiedNode
  mem,      \* theNode, edited in memory
  idx,      \* the position of the profile loop
  next,     \* Current of each profile as the loop has it so far
  retry,    \* profilesWithRetryError
  errs      \* whether an error was collected

env == <<api, outage>>
vars == <<api, pods, outage, pc, cur, snap, mem, idx, next, retry, errs>>

NodeObject == [unschedulable: BOOLEAN, marks: SUBSET Keys, group: Groups,
               state: States \cup {NoLabel}, data: [Profiles -> ProfileData]]
NewNode(g) == [unschedulable |-> FALSE, marks |-> {}, group |-> g,
               state |-> NoLabel, data |-> NoProfiles]

\* What the worker holds between two reconciliations.
Blank == NewNode(CHOOSE g \in Groups : TRUE)

Fails(f) == outage /\ f \in Faults

-----------------------------------------------------------------------------
(* The environment *)

Idle == UNCHANGED <<pc, cur, snap, mem, idx, next, retry, errs>>

SetMarks(n, marks) ==
  /\ api' = [api EXCEPT ![n].marks = marks]
  /\ UNCHANGED <<pods, outage>> /\ Idle

\* The update agent has an update for the node.
Need(n) == "needed" \notin api[n].marks /\ SetMarks(n, api[n].marks \cup {"needed"})

\* Somebody sees a node that requires maintenance.
Approve(n) ==
  /\ api[n].state = Required /\ "approved" \notin api[n].marks
  /\ SetMarks(n, api[n].marks \cup {"approved"})

\* The update agent has its permission and maintains the node.
Maintain(n) ==
  /\ {"needed", "ok"} \subseteq api[n].marks
  /\ SetMarks(n, api[n].marks \ {"needed"})

SetPod(n, p, s) ==
  /\ pods' = [pods EXCEPT ![n][p] = s]
  /\ UNCHANGED env /\ Idle

Schedule(n, p) ==
  /\ ~api[n].unschedulable /\ pods[n][p] = "gone"
  /\ SetPod(n, p, "active")

GraceExceeded(n, p) == pods[n][p] = "terminating" /\ SetPod(n, p, "overdue")

PodStops(n, p) == pods[n][p] \in {"terminating", "overdue"} /\ SetPod(n, p, "gone")

Outage ==
  /\ outage' = ~outage
  /\ UNCHANGED <<api, pods>> /\ Idle

-----------------------------------------------------------------------------
(* A reconciliation *)

IdleWorker ==
  /\ pc' = "idle" /\ cur' = cur
  /\ snap' = Blank /\ mem' = Blank /\ idx' = 1
  /\ next' = [p \in Profiles |-> NoLabel] /\ retry' = {} /\ errs' = FALSE

Reconcile(n) ==
  /\ pc = "idle"
  /\ pc' = "enter" /\ cur' = n /\ snap' = api[n] /\ idx' = 1
  /\ mem' = [api[n] EXCEPT !.data = MaintainProfileStates(api[n].data, Label)]
  /\ next' = [p \in Profiles |-> mem'.data[p].current]
  /\ retry' = {} /\ errs' = FALSE
  /\ UNCHANGED <<api, pods, outage>>

Profile == Label[idx]
State == mem.data[Profile].current

\* Mutant: the loop goes on with the profile after the next one.
SkipProfile(err) ==
  /\ pc' = "enter" /\ idx' = idx + 2
  /\ retry' = IF err = "retry" THEN retry \cup {Profile} ELSE retry
  /\ errs' = (errs \/ err = "fail")
  /\ UNCHANGED <<api, outage, cur, snap>>

\* The loop goes on with the next profile.
NextProfile(err) ==
  /\ pc' = "enter" /\ idx' = idx + 1
  /\ retry' = IF err = "retry" THEN retry \cup {Profile} ELSE retry
  /\ errs' = (errs \/ err = "fail")
  /\ UNCHANGED <<api, outage, cur, snap>>

\* The part of Apply before the notifications: after a change of state the Enter
\* chain of the new one is run.
EnterState ==
  /\ pc = "enter" /\ idx <= Len(Label)
  /\ \E r \in IF mem.data[Profile].previous = State
                THEN {[node |-> mem, pods |-> pods[cur], err |-> "none"]}
                ELSE ExecuteChain(Enter[Profile][State], mem, pods[cur], Fails("eviction")) :
       /\ mem' = r.node
       /\ pods' = [pods EXCEPT ![cur] = r.pods]
       /\ IF r.err = "none"
            THEN pc' = "check" /\ UNCHANGED <<api, outage, cur, snap, idx, retry, errs>>
            ELSE NextProfile(r.err)
  /\ UNCHANGED next

\* Trigger: the trigger chain of the first transition with the target, which need
\* not be the one whose checks passed.
TriggersTo(target) ==
  LET ts == Transitions[Profile][State]
      to == {i \in DOMAIN ts : ts[i].next = target}
  IN {Chains[Profile][State][i] : i \in {j \in to : \A k \in to : j <= k}}

\* A notification or a check returned an error.
ApplyError ==
  /\ Fails("fail")
  /\ pc = "check"
  /\ NextProfile("fail")
  /\ UNCHANGED <<pods, mem, next>>

\* What Apply makes of the target of its checks: triggers are run for a change only.
Outcomes(target, err) ==
  IF target = State THEN {[node |-> mem, pods |-> pods[cur], err |-> err]}
  ELSE UNION {ExecuteChain(c, mem, pods[cur], Fails("eviction")) : c \in TriggersTo(target)}

\* The check chains are run on the node in memory, then the triggers.
ApplyProfile ==
  /\ pc = "check"
  /\ LET ts == Transitions[Profile][State]
         chain == [i \in DOMAIN ts |->
                     ExecuteChecks(Checks[Profile][State][i], cur, mem, Profile, api, pods)]
     IN \E target \in States, err \in {"none", "fail"} :
          /\ transitionDefault(State, ts, chain, anyInMaintenance(mem.data, Label),
                               [err |-> err, next |-> target])
          /\ err = "fail" => \E i \in DOMAIN ts : chain[i] = "error"
          /\ \E r \in Outcomes(target, err) :
               /\ mem' = r.node
               /\ pods' = [pods EXCEPT ![cur] = r.pods]
               /\ next' = IF r.err = "none" THEN [next EXCEPT ![Profile] = target] ELSE next
               /\ NextProfile(r.err)

LoopDone == pc = "enter" /\ idx > Len(Label)

\* The node after the commit loop and UpdateMaintenanceStateLabel.  A profile that
\* asked for a retry keeps its data; the edits of its triggers are kept as well.
Commit ==
  LET data == [p \in Profiles |->
                 IF p \in retry THEN mem.data[p]
                 ELSE [current |-> next[p], previous |-> mem.data[p].current]]
  IN [mem EXCEPT !.data = data, !.state = UpdateMaintenanceStateLabel(data, Label)]

\* An error of a profile discards everything, edits of the node included.
ApplyFailed == LoopDone /\ errs /\ IdleWorker /\ UNCHANGED <<api, pods, outage>>

\* Nothing differs from the node that was read.
NothingToPatch ==
  /\ LoopDone /\ ~errs /\ Commit = snap
  /\ IdleWorker
  /\ UNCHANGED <<api, pods, outage>>

CommitProfiles ==
  /\ LoopDone /\ ~errs /\ Commit # snap
  /\ mem' = Commit
  /\ pc' = "patch"
  /\ UNCHANGED <<api, pods, outage, cur, snap, idx, next, retry, errs>>

\* Labels and annotations are written one by one, finalizers are one list.
MergeMarks(marks) ==
  (((marks \ (snap.marks \ mem.marks)) \cup (mem.marks \ snap.marks)) \ Finalizers)
    \cup (Finalizers \cap (IF mem.marks \cap Finalizers # snap.marks \cap Finalizers
                             THEN mem.marks ELSE marks))

\* client.MergeFrom: only what differs from the node that was read is written.
Merge(obj) ==
  [unschedulable |-> IF mem.unschedulable # snap.unschedulable
                       THEN mem.unschedulable ELSE obj.unschedulable,
   marks |-> MergeMarks(obj.marks),
   group |-> obj.group,
   state |-> IF mem.state # snap.state THEN mem.state ELSE obj.state,
   data |-> IF mem.data # snap.data THEN mem.data ELSE obj.data]

Patch ==
  /\ pc = "patch"
  /\ \/ api' = [api EXCEPT ![cur] = Merge(@)]
     \/ Fails("reject") /\ UNCHANGED api
  /\ IdleWorker
  /\ UNCHANGED <<pods, outage>>

Restart ==
  /\ Fails("crash")
  /\ pc # "idle"
  /\ IdleWorker
  /\ UNCHANGED <<api, pods, outage>>

-----------------------------------------------------------------------------
(* The specification *)

Init ==
  /\ \E g \in [Nodes -> Groups] : api = [n \in Nodes |-> NewNode(g[n])]
  /\ pods = [n \in Nodes |-> NoPods]
  /\ outage = FALSE
  /\ pc = "idle" /\ cur \in Nodes /\ snap = Blank /\ mem = Blank /\ idx = 1
  /\ next = [p \in Profiles |-> NoLabel] /\ retry = {} /\ errs = FALSE

Environment ==
  \/ Outage
  \/ \E n \in Nodes :
       \/ Need(n) \/ Approve(n) \/ Maintain(n)
       \/ \E p \in Pods : Schedule(n, p) \/ GraceExceeded(n, p) \/ PodStops(n, p)

Worker ==
  \/ EnterState \/ ApplyError \/ ApplyProfile \/ ApplyFailed \/ NothingToPatch
  \/ CommitProfiles \/ Patch

Next == Environment \/ Worker \/ Restart \/ \E n \in Nodes : Reconcile(n)

Spec == Init /\ [][Next]_vars

\* The worker goes on and no node is overtaken in its queue for ever; pods stop when
\* they are told to; maintenances are approved, and done once they are permitted.
Fairness ==
  /\ WF_vars(Worker)
  /\ \A n \in Nodes :
       /\ SF_vars(Reconcile(n)) /\ WF_vars(Approve(n)) /\ WF_vars(Maintain(n))
       /\ \A p \in Pods : WF_vars(PodStops(n, p))

FairSpec == Spec /\ Fairness

-----------------------------------------------------------------------------
(* Properties *)

\* Every variable has its type.
TypeOK ==
  /\ api \in [Nodes -> NodeObject]
  /\ pods \in [Nodes -> PodMap]
  /\ outage \in BOOLEAN
  /\ pc \in {"idle", "enter", "check", "patch"}
  /\ cur \in Nodes
  /\ snap \in NodeObject /\ mem \in NodeObject
  /\ idx \in 1 .. Len(Label) + 1
  /\ next \in [Profiles -> States \cup {NoLabel}]
  /\ retry \subseteq Profiles
  /\ errs \in BOOLEAN

\* A node is maintained only when it is cordoned and none of its pods could still be
\* evicted, although the drain takes several reconciliations that are retried, fail,
\* and lose their patch (Eviction.Trigger, ApplyProfiles, Reconcile).
MaintainedEmpty ==
  [][\A n \in Nodes : Maintain(n) => api[n].unschedulable /\ Pending(pods[n]) = {}]_vars

\* The nodes that are out of service: cordoned, or at the mercy of the update agent.
OutOfService == {n \in Nodes : api[n].unschedulable \/ "ok" \in api[n].marks}

Absent(g) == {n \in OutOfService : api[n].group = g}

\* No more than MaxNodes nodes of a group are out of service: neither cordon nor
\* permission outlives the maintenance the group had a place for, nor do they come
\* before it (MaxMaintenance.checkInternal, Reconcile).
GroupInService == \A g \in Groups : Cardinality(Absent(g)) <= MaxNodes

\* Node n is in service and up to date.
Finished(n) ==
  /\ "needed" \notin api[n].marks /\ n \notin OutOfService
  /\ \A p \in getProfiles(Label) : api[n].data[p].current = Operational

\* Once nothing fails and no new update comes up, all nodes get maintained and back
\* into service: waiting for a place in the group, for nodes without affinity pods,
\* for an approval and for the drain does not end in everyone waiting for everyone
\* (Affinity.Check, MaxMaintenance.Check, ApplyProfiles).
EveryoneMaintained ==
  <>[]~outage /\ <>[][\A n \in Nodes : ~Need(n)]_vars
    => <>[](\A n \in Nodes : Finished(n))
=============================================================================
