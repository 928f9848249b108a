-------------------------- MODULE NodeControllerInv --------------------------
(***************************************************************************)
(* The inductive invariants behind the theorems about NodeController.      *)
(* Without the faults that Reliable excludes, the worker starts from what  *)
(* it wrote last; Fresh says so, and Working says what its memory holds    *)
(* relative to that.                                                       *)
(***************************************************************************)
EXTENDS NodeController

\* Two versions of a node agree in what only the controller writes.
Agree(v, w) == v.exists /\ w.exists => v.state = w.state /\ v.data = w.data

\* The version i deliveries away; 0 is the one in the cache.
Version(n, i) == IF i = 0 THEN cache[n] ELSE watch[n][i]

\* How many deliveries of n the worker still waits for.
Lag(n) == IF cur = n THEN await ELSE 0

\* Every version the worker can start from agrees with the API server, and a
\* node is gone for good once any version says so.
Fresh ==
  /\ await > 0 => pc = "poll"
  /\ \A n \in Nodes : Lag(n) <= Len(watch[n])
  /\ \A n \in Nodes : \A i \in Lag(n)..Len(watch[n]) : Agree(Version(n, i), api[n])
  /\ \A n \in Nodes : \A i \in 0..Len(watch[n]) : api[n].exists => Version(n, i).exists
  /\ pc \in {"apply", "patch"} => Agree(snap, api[cur])

\* The data the loop works on, and the data it leaves behind.
Base == MaintainProfileStates(snap.data, snap.profiles)
Left == [p \in Profiles |-> IF p \in retry THEN Base[p]
                            ELSE [current |-> next[p], previous |-> Base[p].current]]

Busy == pc \in {"apply", "patch"} /\ snap.exists /\ api[cur].exists

\* What next may hold for profile p.
NextFollows(p) ==
  /\ next[p] = NoLabel <=> Base[p].current = NoLabel
  /\ next[p] # Base[p].current =>
       /\ Lifecycle!Leads(p, Base[p].current, next[p])
       /\ \E j \in 1..(idx - 1) : LoopNames[j] = p
  /\ anyInMaintenance(Base, Label) /\ next[p] = InMaintenance
       => Base[p].current = InMaintenance

\* A profile the loop is through with, and that did not ask for a retry, has
\* had its Enter chain run.
LoopEntered ==
  \A j \in 1..(idx - 1) : LET p == LoopNames[j] IN
    p \in Profiles /\ p \notin retry /\ snap.data[p] # NoData => p \in done[cur]

Working ==
  /\ pc \in {"apply", "patch"} => snap.exists
  /\ pc = "apply" => mem = Base
  /\ pc = "patch" => mem = Left /\ ~errs /\ idx > Len(LoopNames)
  /\ Busy => \A p \in Profiles : NextFollows(p)
  /\ Busy /\ ~errs => LoopEntered

\* Persisted data that is not waiting for an Enter chain has had it, and no
\* entry of the map is half there.
Persisted ==
  \A n \in Nodes : \A p \in Profiles : LET d == api[n].data[p] IN
    /\ d.current = NoLabel <=> d = NoData
    /\ d # NoData /\ d.previous = d.current => p \in done[n]

\* The inductive invariant of the reliable controller.
IInv == TypeOK /\ Fresh /\ Working /\ Persisted /\ LabelReflectsData

\* A profile goes into maintenance only while a slot is free.
SlotFree ==
  Busy /\ (\E p \in Profiles : next[p] = InMaintenance /\ Base[p].current # InMaintenance)
    => Cardinality(InMaintenanceNodes(api)) < MaxNodes

\* Every way into maintenance is guarded by maxMaintenance.
AllLimited ==
  \A p \in Profiles : \A s \in States : \A i \in DOMAIN Transitions[p][s] :
    Transitions[p][s][i].next = InMaintenance => Transitions[p][s][i].limited

\* The inductive invariant of the NodeInfoCache.
InfoInv ==
  /\ configOk
  /\ NoOrphanedInfo
  /\ pc # "idle" => cache[cur].exists \/ cur \in queue
=============================================================================
