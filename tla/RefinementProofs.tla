-------------------------- MODULE RefinementProofs --------------------------
(***************************************************************************)
(* The reliable controller implements the two abstract specifications: the *)
(* life of the profiles of a node (ProfileLifecycle) and the maintenance   *)
(* slots of the cluster (MaintenanceSlots).                                *)
(***************************************************************************)
EXTENDS NodeControllerProofs

-----------------------------------------------------------------------------
(* The life of a profile *)

\* The abstract state of NodeController.
LifeState == [n \in Nodes |-> [p \in Profiles |-> api[n].data[p].current]]

\* The names of the abstract specification are those of ProfileState.
LEMMA LifeNames ==
  /\ Lifecycle!NoLabel = NoLabel /\ Lifecycle!Operational = Operational
  /\ Lifecycle!InMaintenance = InMaintenance /\ Lifecycle!States = States
  BY DEF Lifecycle!NoLabel, NoLabel, Lifecycle!Operational, Operational, Lifecycle!States,
         States, Lifecycle!InMaintenance, InMaintenance, Lifecycle!Required, Required

\* The abstract history after the states of node n became new.
EnteredAfter(n, new) ==
  {p \in Profiles : \/ new[p] = LifeState[n][p] /\ p \in done[n]
                    \/ LifeState[n][p] = NoLabel /\ new[p] = Operational}

\* An update of one node, in the terms of NodeController.
LEMMA LifeUpdate ==
  ASSUME IInv, NEW n \in Nodes, NEW new \in [Profiles -> States \cup {NoLabel}],
         \A p \in Profiles : new[p] # LifeState[n][p] =>
           Lifecycle!MayMove(n, p, LifeState[n][p], new[p]),
         (\E p \in Profiles : LifeState[n][p] = InMaintenance /\ new[p] # NoLabel) =>
           \A p \in Profiles : new[p] = InMaintenance => LifeState[n][p] = InMaintenance,
         \A p \in Profiles : api'[n].data[p].current = new[p],
         \A m \in Nodes \ {n} : api'[m] = api[m],
         done' = [done EXCEPT ![n] = EnteredAfter(n, new)]
  PROVE  Lifecycle!LifecycleNext
  <1>1. LifeState' = [LifeState EXCEPT ![n] = new]
    <2>1. /\ LifeState'[n] = new
          /\ \A m \in Nodes \ {n} : LifeState'[m] = LifeState[m]
      BY DEF LifeState
    <2> QED BY <2>1 DEF LifeState
  <1>2. done' = [done EXCEPT ![n] =
                   {p \in Profiles : \/ new[p] = LifeState[n][p] /\ p \in @
                                     \/ LifeState[n][p] = NoLabel /\ new[p] = Operational}]
    BY DEF EnteredAfter, IInv, TypeOK
  <1>3. Lifecycle!Update(n, new)
    BY <1>1, <1>2, LifeNames DEF Lifecycle!Update, Lifecycle!Occupied, LifeState
  <1> QED BY <1>3, LifeNames DEF Lifecycle!LifecycleNext

\* Nothing of the abstract state changes when data and history do not.
LEMMA LifeStutter ==
  ASSUME \A n \in Nodes : api'[n].data = api[n].data, UNCHANGED done
  PROVE  UNCHANGED <<LifeState, done>>
  BY DEF LifeState

\* A deletion detaches every profile.
LEMMA LifeDelete ==
  ASSUME IInv, NEW n \in Nodes, DeleteNode(n)
  PROVE  Lifecycle!LifecycleNext
  <1> DEFINE new == [p \in Profiles |-> NoLabel]
  <1>1. /\ api'[n].data = NoProfiles
        /\ \A m \in Nodes \ {n} : api'[m] = api[m]
        /\ done' = [done EXCEPT ![n] = DoneAfter(api[n].data, NoProfiles, @)]
    BY DEF DeleteNode, EditNode, Put, Absent, IInv, TypeOK
  <1>2. DoneAfter(api[n].data, NoProfiles, done[n]) = EnteredAfter(n, new)
    BY DEF EnteredAfter, DoneAfter, LifeState, NoProfiles, NoData, NoLabel, Operational
  <1>3. done' = [done EXCEPT ![n] = EnteredAfter(n, new)]
    BY <1>1, <1>2 DEF IInv, TypeOK
  <1>4. \A p \in Profiles : api'[n].data[p].current = new[p]
    BY <1>1 DEF NoProfiles, NoData
  <1>5. \A p \in Profiles : Lifecycle!MayMove(n, p, LifeState[n][p], new[p])
    BY LifeNames DEF Lifecycle!MayMove
  <1>6. /\ new \in [Profiles -> States \cup {NoLabel}]
        /\ \A p \in Profiles : new[p] = NoLabel /\ new[p] # InMaintenance
    BY DEF NoLabel, InMaintenance
  <1>7. (\E p \in Profiles : LifeState[n][p] = InMaintenance /\ new[p] # NoLabel) =>
          \A p \in Profiles : new[p] = InMaintenance => LifeState[n][p] = InMaintenance
    BY <1>6
  <1>8. \A m \in Nodes \ {n} : api'[m] = api[m] BY <1>1
  <1> HIDE DEF new
  <1> QED BY <1>3, <1>4, <1>5, <1>6, <1>7, <1>8, LifeUpdate

\* One turn of the loop runs one Enter chain, or nothing the abstraction sees.
LEMMA LifeApply ==
  ASSUME IInv, ApplyProfile
  PROVE  Lifecycle!LifecycleNext \/ UNCHANGED <<LifeState, done>>
  <1> DEFINE p == LoopNames[idx]
  <1>1. /\ UNCHANGED api /\ pc = "apply" /\ p \in Profiles /\ cur \in Nodes
        /\ idx \in 1..Len(LoopNames) /\ mem = Base
    BY DEF ApplyProfile, cluster, IInv, TypeOK, Working
  <1>2. UNCHANGED LifeState BY <1>1 DEF LifeState
  <1>3. PICK o \in ApplyResult :
          /\ Apply(mem[p], Transitions[p][mem[p].current], anyInMaintenance(mem, Label),
                   maxMaintenanceFull(cache), o)
          /\ done' = IF o.entered /\ api[cur].exists
                       THEN [done EXCEPT ![cur] = @ \cup {p}] ELSE done
    BY DEF ApplyProfile
  <1>4. CASE o.entered /\ api[cur].exists
    <2>1. mem[p].previous # mem[p].current BY <1>3, <1>4, ApplyFacts
    <2>2. p \in getProfiles(Label) BY <1>1, LoopNamesType, Positions DEF IInv
    <2>3. snap.data[p] # NoData
      BY <1>1, <2>1, <2>2, BaseFacts DEF NewData
    <2>4. snap.data = api[cur].data BY <1>1, <1>4 DEF IInv, Fresh, Working, Agree
    <2>5. LifeState[cur][p] # NoLabel
      BY <1>1, <2>3, <2>4 DEF LifeState, IInv, Persisted
    <2>6. Lifecycle!RunEnter(cur, p)
      BY <1>2, <1>3, <1>4, <2>5, LifeNames DEF Lifecycle!RunEnter, LifeState
    <2> QED BY <1>1, <2>6 DEF Lifecycle!LifecycleNext
  <1>5. CASE ~(o.entered /\ api[cur].exists) BY <1>2, <1>3, <1>5
  <1> QED BY <1>4, <1>5

\* What a patch does to one profile.
LEMMA LifeMove ==
  ASSUME IInv, PatchApplied, NEW p \in Profiles, mem[p].current # api[cur].data[p].current
  PROVE  Lifecycle!MayMove(cur, p, api[cur].data[p].current, mem[p].current)
  <1> DEFINE s == api[cur].data[p].current
             t == mem[p].current
  <1> USE DEF Lifecycle!MayMove
  <1>1. TypeOK /\ Fresh /\ Working /\ Persisted BY DEF IInv
  <1>2. /\ Busy /\ ~errs /\ cur \in Nodes /\ snap.data = api[cur].data
        /\ api[cur].data[p].current = NoLabel <=> api[cur].data[p] = NoData
    BY <1>1, PatchWrites DEF Persisted
  <1>3. /\ t # NoLabel => p \in getProfiles(Label)
        /\ p \notin retry => mem[p] = [current |-> next[p], previous |-> Base[p].current]
        /\ p \in retry => mem[p] = Base[p]
    BY <1>1, LeftShape
  <1>4. t # Base[p].current => p \notin retry /\ Lifecycle!Leads(p, Base[p].current, t)
    <2> SUFFICES ASSUME t # Base[p].current
                 PROVE  p \notin retry /\ Lifecycle!Leads(p, Base[p].current, t)
      OBVIOUS
    <2>1. p \notin retry /\ t = next[p] BY <1>3
    <2>2. NextFollows(p) BY <1>1, <1>2 DEF Working
    <2> QED BY <2>1, <2>2 DEF NextFollows
  <1>5. CASE t = NoLabel BY <1>5, LifeNames
  <1>6. CASE t # NoLabel /\ s = NoLabel
    <2>1. Base[p].current = Operational
      BY <1>2, <1>3, <1>6, BaseFacts DEF NewData
    <2> QED BY <1>4, <1>6, <2>1, LifeNames
  <1>7. CASE t # NoLabel /\ s # NoLabel
    <2>1. snap.data[p] # NoData /\ Base[p] = api[cur].data[p]
      BY <1>2, <1>3, <1>7, BaseFacts DEF NoData
    <2>2. p \notin retry /\ Lifecycle!Leads(p, s, t) BY <1>4, <2>1
    <2>3. PICK j \in DOMAIN LoopNames : LoopNames[j] = p BY <1>3, <1>7, Positions
    <2>4. j \in 1..(idx - 1)
      <3>1. j \in 1..Len(LoopNames) /\ Len(LoopNames) \in Nat BY <1>1, LoopNamesType
      <3>2. idx > Len(LoopNames) /\ idx \in Nat BY <1>1 DEF Working, PatchApplied, TypeOK
      <3> QED BY <3>1, <3>2
    <2>5. p \in done[cur]
      <3>1. LoopEntered BY <1>1, <1>2 DEF Working
      <3> QED BY <2>1, <2>2, <2>3, <2>4, <3>1 DEF LoopEntered
    <2> QED BY <2>2, <2>5
  <1> QED BY <1>5, <1>6, <1>7

\* A patch does not bring a profile into maintenance beside another one.
LEMMA LifeExclusive ==
  ASSUME IInv, PatchApplied, NEW q \in Profiles, api[cur].data[q].current = InMaintenance,
         mem[q].current # NoLabel, NEW p \in Profiles, mem[p].current = InMaintenance
  PROVE  api[cur].data[p].current = InMaintenance
  <1> USE DEF NoLabel, InMaintenance, Operational, NoData, NewData
  <1>1. TypeOK /\ Fresh /\ Working /\ Persisted BY DEF IInv
  <1>2. Busy /\ cur \in Nodes /\ snap.data = api[cur].data BY <1>1, PatchWrites
  <1>3. q \in getProfiles(Label) /\ p \in getProfiles(Label) BY <1>1, LeftShape
  <1>4. Base[q].current = InMaintenance BY <1>2, <1>3, BaseFacts
  <1>5. anyInMaintenance(Base, Label) BY <1>3, <1>4 DEF anyInMaintenance
  <1>6. Base[p].current = InMaintenance
    <2>1. CASE p \in retry BY <2>1, <1>1, LeftShape
    <2>2. CASE p \notin retry
      <3>1. mem[p] = [current |-> next[p], previous |-> Base[p].current]
        BY <2>2, <1>1, LeftShape
      <3>2. next[p] = InMaintenance BY <3>1
      <3>3. NextFollows(p) BY <1>1, <1>2 DEF Working
      <3> QED BY <1>5, <3>2, <3>3 DEF NextFollows
    <2> QED BY <2>1, <2>2
  <1> QED BY <1>2, <1>3, <1>6, BaseFacts

\* A patch is one update of the profiles of its node.
LEMMA LifePatch ==
  ASSUME IInv, PatchApplied
  PROVE  Lifecycle!LifecycleNext
  <1> DEFINE new == [p \in Profiles |-> mem[p].current]
  <1>1. TypeOK /\ Fresh /\ Working /\ Persisted BY DEF IInv
  <1>2. /\ cur \in Nodes /\ api'[cur].data = mem
        /\ \A n \in Nodes \ {cur} : api'[n] = api[n]
        /\ done' = [done EXCEPT ![cur] = DoneAfter(api[cur].data, mem, @)]
    BY <1>1, PatchWrites
  <1>3. \A p \in Profiles : api[cur].data[p] = NoData <=> LifeState[cur][p] = NoLabel
    BY <1>1, <1>2 DEF Persisted, LifeState
  <1>4. DoneAfter(api[cur].data, mem, done[cur]) = EnteredAfter(cur, new)
    BY <1>2, <1>3 DEF DoneAfter, EnteredAfter, LifeState
  <1>5. done' = [done EXCEPT ![cur] = EnteredAfter(cur, new)]
    BY <1>1, <1>2, <1>4 DEF TypeOK
  <1>6. new \in [Profiles -> States \cup {NoLabel}]
    <2>1. \A p \in Profiles : mem[p] \in ProfileData BY <1>1 DEF TypeOK
    <2> QED BY <2>1 DEF ProfileData
  <1>7. \A p \in Profiles : new[p] # LifeState[cur][p] =>
          Lifecycle!MayMove(cur, p, LifeState[cur][p], new[p])
    BY <1>2, LifeMove DEF LifeState
  <1>8. (\E p \in Profiles : LifeState[cur][p] = InMaintenance /\ new[p] # NoLabel) =>
          \A p \in Profiles : new[p] = InMaintenance => LifeState[cur][p] = InMaintenance
    BY <1>2, LifeExclusive DEF LifeState
  <1>9. \A p \in Profiles : api'[cur].data[p].current = new[p] BY <1>2
  <1> HIDE DEF new
  <1> QED BY <1>2, <1>5, <1>6, <1>7, <1>8, <1>9, LifeUpdate

\* Every step of the reliable controller is a step of the life cycle.
LEMMA LifeStep ==
  ASSUME Reliable, IInv, [Next]_vars
  PROVE  [Lifecycle!LifecycleNext]_<<LifeState, done>>
  <1> USE DEF cluster, work
  <1>1. ASSUME NEW n \in Nodes, Deliver(n) PROVE UNCHANGED <<LifeState, done>>
    BY <1>1, LifeStutter DEF Deliver
  <1>2. ASSUME NEW n \in Nodes, NEW l \in Labels, Relabel(n, l)
        PROVE  UNCHANGED <<LifeState, done>>
    <2>1. \A m \in Nodes : api'[m].data = api[m].data
      BY <1>2 DEF Relabel, EditNode, Put, IInv, TypeOK, NodeObject
    <2> QED BY <1>2, <2>1, LifeStutter DEF Relabel
  <1>3. ASSUME NEW n \in Nodes, NEW l \in Labels, CreateNode(n, l) PROVE FALSE
    BY <1>3 DEF CreateNode, Reliable
  <1>4. CASE EditConfig BY <1>4, LifeStutter DEF EditConfig
  <1>5. ASSUME NEW n \in Nodes, Reconcile(n) PROVE UNCHANGED <<LifeState, done>>
    BY <1>5, LifeStutter
    DEF Reconcile, ReconcileMisconfigured, ReconcileDeleted, ReconcileStart
  <1>6. CASE SkipUnknown BY <1>6, LifeStutter DEF SkipUnknown
  <1>7. CASE ApplyFailed \/ NothingToPatch \/ CommitProfiles
    BY <1>7, LifeStutter DEF ApplyFailed, NothingToPatch, CommitProfiles, LoopDone
  <1>8. CASE PatchRejected BY <1>8, LifeStutter DEF PatchRejected
  <1>9. CASE PollCacheUpdate \/ PollTimeout
    BY <1>9, LifeStutter DEF PollCacheUpdate, PollTimeout
  <1>10. CASE Restart BY <1>10, LifeStutter DEF Restart
  <1>11. CASE UNCHANGED vars BY <1>11, LifeStutter DEF vars
  <1> QED
    BY <1>1, <1>2, <1>3, <1>4, <1>5, <1>6, <1>7, <1>8, <1>9, <1>10, <1>11,
       LifeDelete, LifeApply, LifePatch
    DEF Next, Environment, Worker

\* The reliable controller implements the life cycle: configured transitions
\* only, every state's Enter chain before the state is left, and no second
\* profile into maintenance.
THEOREM LifecycleCorrect == ASSUME Reliable PROVE Spec => LifecycleKept
  <1>1. Init => Lifecycle!LifecycleInit
    <2> SUFFICES ASSUME Init PROVE Lifecycle!LifecycleInit OBVIOUS
    <2>1. \A n \in Nodes : \A p \in Profiles : api[n].data[p].current = NoLabel
      BY DEF Init, NewNode, NoProfiles, NoData
    <2> QED BY <2>1, LifeNames DEF Lifecycle!LifecycleInit, Init
  <1>2. IInv /\ [Next]_vars => [Lifecycle!LifecycleNext]_<<LifeState, done>> BY LifeStep
  <1> QED
    BY <1>1, <1>2, IInvCorrect, PTL DEF Spec, LifecycleKept, Lifecycle!LifecycleSpec, LifeState

-----------------------------------------------------------------------------
(* The maintenance slots *)

Occupants == InMaintenanceNodes(api)

\* The nodes in maintenance are finitely many.
LEMMA OccupantsFinite ==
  ASSUME NEW f
  PROVE  IsFiniteSet(InMaintenanceNodes(f)) /\ Cardinality(InMaintenanceNodes(f)) \in Nat
  <1>1. InMaintenanceNodes(f) \in SUBSET Nodes BY DEF InMaintenanceNodes
  <1> QED BY <1>1, ControllerAssumption, FS_Subset, FS_CardinalityType

\* The abstract module counts nodes the way this one does.
LEMMA SlotCount == ASSUME NEW S PROVE Slots!Cardinality(S) = Cardinality(S)
  BY DEF Cardinality, Slots!Cardinality

\* Fewer nodes in maintenance do not use up a free slot.
LEMMA SlotMonotone ==
  ASSUME NEW f, NEW g, InMaintenanceNodes(f) \subseteq InMaintenanceNodes(g),
         Cardinality(InMaintenanceNodes(g)) < MaxNodes
  PROVE  Cardinality(InMaintenanceNodes(f)) < MaxNodes
  <1>1. Cardinality(InMaintenanceNodes(f)) <= Cardinality(InMaintenanceNodes(g))
    BY OccupantsFinite, FS_Subset
  <1> QED BY <1>1, OccupantsFinite, ControllerAssumption

\* The check does not overlook a node: who is in maintenance on the API server
\* is so in the cache.
LEMMA CacheCounts ==
  ASSUME IInv, pc = "apply"
  PROVE  InMaintenanceNodes(api) \subseteq InMaintenanceNodes(cache)
  <1>1. TypeOK /\ Fresh BY DEF IInv
  <1>2. \A n \in Nodes : Lag(n) = 0 BY <1>1, Quiet
  <1>3. \A n \in Nodes : 0 \in 0..Len(watch[n]) BY <1>1 DEF TypeOK
  <1>4. \A n \in Nodes : Version(n, 0) = cache[n] BY DEF Version
  <1>5. \A n \in Nodes : (api[n].exists => cache[n].exists) /\ Agree(cache[n], api[n])
    BY <1>1, <1>2, <1>3, <1>4 DEF Fresh
  <1> QED BY <1>5 DEF InMaintenanceNodes, Agree

\* The worker is about to bring a profile into maintenance.
Claims == \E p \in Profiles : next[p] = InMaintenance /\ Base[p].current # InMaintenance

\* Every step but a patch leaves the nodes in maintenance alone, or removes one.
LEMMA OccupantsShrink ==
  ASSUME Reliable, IInv, [Next]_vars, ~PatchApplied
  PROVE  Occupants' = Occupants \/ \E n \in Occupants : Occupants' = Occupants \ {n}
  <1> USE DEF cluster, work
  <1>1. ASSUME UNCHANGED api PROVE Occupants' = Occupants BY <1>1 DEF Occupants
  <1>2. ASSUME NEW n \in Nodes, NEW l \in Labels, Relabel(n, l) PROVE Occupants' = Occupants
    <2>1. \A m \in Nodes : api'[m].state = api[m].state /\ api'[m].exists = api[m].exists
      BY <1>2 DEF Relabel, EditNode, Put, IInv, TypeOK, NodeObject
    <2> QED BY <2>1 DEF Occupants, InMaintenanceNodes
  <1>3. ASSUME NEW n \in Nodes, DeleteNode(n) PROVE Occupants' = Occupants \ {n}
    <2>1. ~api'[n].exists /\ \A m \in Nodes \ {n} : api'[m] = api[m]
      BY <1>3 DEF DeleteNode, EditNode, Put, Absent, IInv, TypeOK
    <2> QED BY <2>1 DEF Occupants, InMaintenanceNodes
  <1>4. ASSUME NEW n \in Nodes, DeleteNode(n)
        PROVE  Occupants' = Occupants \/ \E m \in Occupants : Occupants' = Occupants \ {m}
    <2>1. CASE n \in Occupants BY <2>1, <1>3, <1>4
    <2>2. CASE n \notin Occupants BY <2>2, <1>3, <1>4
    <2> QED BY <2>1, <2>2
  <1>5. ASSUME NEW n \in Nodes, NEW l \in Labels, CreateNode(n, l) PROVE FALSE
    BY <1>5 DEF CreateNode, Reliable
  <1>6. ASSUME NEW n \in Nodes, Deliver(n) \/ Reconcile(n) PROVE Occupants' = Occupants
    BY <1>6, <1>1
    DEF Deliver, Reconcile, ReconcileMisconfigured, ReconcileDeleted, ReconcileStart
  <1>7. CASE EditConfig BY <1>7, <1>1 DEF EditConfig
  <1>8. CASE SkipUnknown \/ ApplyProfile BY <1>8, <1>1 DEF SkipUnknown, ApplyProfile
  <1>9. CASE ApplyFailed \/ NothingToPatch \/ CommitProfiles
    BY <1>9, <1>1 DEF ApplyFailed, NothingToPatch, CommitProfiles, LoopDone
  <1>10. CASE PatchRejected \/ PollCacheUpdate \/ PollTimeout
    BY <1>10, <1>1 DEF PatchRejected, PollCacheUpdate, PollTimeout
  <1>11. CASE Restart BY <1>11, <1>1 DEF Restart
  <1>12. CASE UNCHANGED vars BY <1>12, <1>1 DEF vars
  <1> QED
    BY <1>2, <1>4, <1>5, <1>6, <1>7, <1>8, <1>9, <1>10, <1>11, <1>12
    DEF Next, Environment, Worker

\* A profile that moves into maintenance has seen a free slot.
LEMMA ApplyTakesFreeSlot ==
  ASSUME AllLimited, IInv, Busy, ApplyProfile, Claims', ~Claims
  PROVE  Cardinality(InMaintenanceNodes(cache)) < MaxNodes
  <1> DEFINE p == LoopNames[idx]
             s == mem[p].current
             ts == Transitions[p][s]
             full == maxMaintenanceFull(cache)
  <1>1. /\ pc = "apply" /\ p \in Profiles /\ idx \in 1..Len(LoopNames)
        /\ UNCHANGED <<snap, mem>> /\ mem = Base
    BY DEF ApplyProfile, IInv, TypeOK, Working
  <1>2. UNCHANGED Base BY <1>1 DEF Base
  <1>3. PICK o \in ApplyResult :
          /\ Apply(mem[p], ts, anyInMaintenance(mem, Label), full, o)
          /\ next' = IF o.next # s THEN [next EXCEPT ![p] = o.next] ELSE next
    BY DEF ApplyProfile
  <1>4. next \in [Profiles -> States \cup {NoLabel}] BY DEF IInv, TypeOK
  <1>5. PICK q \in Profiles : next'[q] = InMaintenance /\ Base'[q].current # InMaintenance
    BY DEF Claims
  <1>6. next[q] # InMaintenance BY <1>2, <1>5 DEF Claims
  <1>7. o.next # s /\ o.next = InMaintenance BY <1>3, <1>4, <1>5, <1>6
  <1>8. PICK i \in DOMAIN ts : ts[i].next = o.next /\ (ts[i].limited => ~full)
    <2> HIDE DEF ts, full, p
    <2> QED BY <1>3, <1>7, ApplyFacts
  <1>9. s \in States
    <2>1. mem[p] \in ProfileData BY <1>1 DEF IInv, TypeOK
    <2>2. s # NoLabel
      <3>1. p \in getProfiles(Label) BY <1>1, LoopNamesType, Positions DEF IInv
      <3>2. snap.data = api[cur].data /\ cur \in Nodes
        BY <1>1 DEF IInv, Fresh, Busy, Agree, TypeOK
      <3>3. snap.data[p].current = NoLabel <=> snap.data[p] = NoData
        BY <1>1, <3>2 DEF IInv, Persisted
      <3> QED BY <1>1, <3>1, <3>3, BaseFacts DEF NewData, Operational, NoLabel
    <2> QED BY <2>1, <2>2 DEF ProfileData
  <1>10. ts[i].limited BY <1>1, <1>7, <1>8, <1>9 DEF AllLimited
  <1> QED BY <1>8, <1>10, OccupantsFinite, ControllerAssumption DEF maxMaintenanceFull

\* Every step keeps the slot free that the worker is about to take.
LEMMA SlotFreeStep ==
  ASSUME Reliable, AllLimited, IInv, SlotFree, [Next]_vars
  PROVE  SlotFree'
  <1> USE DEF cluster, work
  <1> SUFFICES ASSUME Busy', Claims'
               PROVE  Cardinality(InMaintenanceNodes(api')) < MaxNodes
    BY DEF SlotFree, Claims, InMaintenanceNodes
  <1>1. SlotFree /\ Busy /\ Claims => Cardinality(Occupants) < MaxNodes
    BY DEF SlotFree, Claims, Occupants
  <1>2. ASSUME ~PatchApplied, Cardinality(InMaintenanceNodes(api)) < MaxNodes
        PROVE  Cardinality(InMaintenanceNodes(api')) < MaxNodes
    <2>1. Occupants' = InMaintenanceNodes(api') BY DEF Occupants, InMaintenanceNodes
    <2>2. InMaintenanceNodes(api') \subseteq InMaintenanceNodes(api)
      BY <2>1, <1>2, OccupantsShrink DEF Occupants
    <2> QED BY <1>2, <2>2, SlotMonotone
  <1>3. pc' \in {"apply", "patch"} /\ snap'.exists /\ api'[cur'].exists BY DEF Busy
  <1>4. ASSUME UNCHANGED <<pc, cur, snap, next>>, api'[cur].exists => api[cur].exists,
               ~PatchApplied
        PROVE  Cardinality(InMaintenanceNodes(api')) < MaxNodes
    <2>1. Busy /\ Claims BY <1>3, <1>4 DEF Busy, Claims, Base
    <2> QED BY <1>1, <1>2, <1>4, <2>1 DEF Occupants
  <1>5. CASE PatchApplied BY <1>3, <1>5 DEF PatchApplied
  <1>6. CASE ApplyProfile
    <2>1. UNCHANGED <<api, pc, cur, snap>> /\ pc = "apply" /\ ~PatchApplied
      BY <1>6 DEF ApplyProfile, PatchApplied
    <2>2. Busy BY <2>1 DEF Busy
    <2>3. Cardinality(InMaintenanceNodes(api)) < MaxNodes
      <3>1. CASE Claims BY <1>1, <2>2, <3>1 DEF Occupants
      <3>2. CASE ~Claims
        BY <3>2, <1>6, <2>1, <2>2, ApplyTakesFreeSlot, CacheCounts, SlotMonotone
      <3> QED BY <3>1, <3>2
    <2> QED BY <1>2, <2>1, <2>3
  <1>7. ASSUME NEW n \in Nodes, ReconcileStart(n) PROVE FALSE
    <2>1. \A p \in Profiles : next'[p] = Base'[p].current
      BY <1>7 DEF ReconcileStart, Base
    <2> QED BY <2>1 DEF Claims
  <1>8. ASSUME NEW n \in Nodes, Deliver(n) \/ ReconcileMisconfigured(n) \/ ReconcileDeleted(n)
        PROVE  Cardinality(InMaintenanceNodes(api')) < MaxNodes
    <2>1. UNCHANGED <<api, pc, cur, snap, next>>
      BY <1>8 DEF Deliver, ReconcileMisconfigured, ReconcileDeleted
    <2> QED BY <2>1, <1>3, <1>4, <1>5
  <1>9. ASSUME NEW n \in Nodes, NEW l \in Labels, Relabel(n, l)
        PROVE  Cardinality(InMaintenanceNodes(api')) < MaxNodes
    <2>1. UNCHANGED <<pc, cur, snap, next>> /\ api'[cur].exists = api[cur].exists
      BY <1>9 DEF Relabel, EditNode, Put, IInv, TypeOK, NodeObject
    <2> QED BY <2>1, <1>4, <1>5
  <1>10. ASSUME NEW n \in Nodes, DeleteNode(n)
         PROVE  Cardinality(InMaintenanceNodes(api')) < MaxNodes
    <2>1. UNCHANGED <<pc, cur, snap, next>> /\ (api'[cur].exists => api[cur].exists)
      BY <1>10 DEF DeleteNode, EditNode, Put, Absent, IInv, TypeOK
    <2> QED BY <2>1, <1>4, <1>5
  <1>11. ASSUME NEW n \in Nodes, NEW l \in Labels, CreateNode(n, l) PROVE FALSE
    BY <1>11 DEF CreateNode, Reliable
  <1>12. CASE EditConfig \/ SkipUnknown \/ UNCHANGED vars
    <2>1. UNCHANGED <<api, pc, cur, snap, next>> BY <1>12 DEF EditConfig, SkipUnknown, vars
    <2> QED BY <2>1, <1>4, <1>5
  <1>13. CASE CommitProfiles
    <2>1. UNCHANGED <<api, cur, snap, next>> /\ pc = "apply"
      BY <1>13 DEF CommitProfiles, LoopDone
    <2>2. Busy /\ Claims /\ ~PatchApplied
      BY <1>3, <2>1 DEF Busy, Claims, Base, PatchApplied
    <2> QED BY <1>1, <1>2, <2>2 DEF Occupants
  <1>14. CASE ApplyFailed \/ NothingToPatch \/ PatchRejected \/ PollCacheUpdate
              \/ PollTimeout \/ Restart
    BY <1>14, <1>3
    DEF ApplyFailed, NothingToPatch, PatchRejected, PollCacheUpdate, PollTimeout, Restart,
        Requeue, IdleWorker
  <1> QED
    BY <1>5, <1>6, <1>7, <1>8, <1>9, <1>10, <1>11, <1>12, <1>13, <1>14
    DEF Next, Environment, Reconcile, Worker

\* A patch takes a free slot, gives one back, or does neither.
LEMMA PatchTakesFreeSlot ==
  ASSUME IInv, SlotFree, PatchApplied
  PROVE  Slots!SlotsNext \/ UNCHANGED Occupants
  <1>1. TypeOK /\ Fresh /\ Working /\ Persisted /\ LabelReflectsData BY DEF IInv
  <1>2. /\ Busy /\ cur \in Nodes /\ snap.data = api[cur].data /\ api[cur].exists
        /\ api'[cur].exists /\ api'[cur].state = StateLabel(mem)
        /\ \A n \in Nodes \ {cur} : api'[n] = api[n]
    BY <1>1, PatchWrites DEF Busy
  <1>3. \A n \in Nodes \ {cur} : n \in Occupants' <=> n \in Occupants
    BY <1>2 DEF Occupants, InMaintenanceNodes
  <1>4. Occupants \subseteq Nodes /\ Occupants' \subseteq Nodes
    BY DEF Occupants, InMaintenanceNodes
  <1>5. CASE cur \in Occupants' /\ cur \notin Occupants
    <2>1. StateLabel(mem) = InMaintenance /\ api[cur].state # InMaintenance
      BY <1>2, <1>5 DEF Occupants, InMaintenanceNodes
    <2>2. PICK p \in getProfiles(Label) : mem[p].current = InMaintenance
      BY <2>1
      DEF StateLabel, UpdateMaintenanceStateLabel, InMaintenance, Required, Operational
    <2>3. p \in Profiles BY DEF getProfiles
    <2>4. api[cur].data[p].current # InMaintenance
      BY <1>1, <1>2, <2>1, <2>3 DEF LabelReflectsData, HasState
    <2>5. Base[p].current # InMaintenance
      BY <1>2, <2>3, <2>4, BaseFacts DEF NewData, NoData, NoLabel, Operational, InMaintenance
    <2>6. next[p] = InMaintenance
      <3>1. p \notin retry BY <1>1, <2>2, <2>3, <2>5, LeftShape
      <3>2. mem[p] = [current |-> next[p], previous |-> Base[p].current]
        BY <1>1, <2>3, <3>1, LeftShape
      <3> QED BY <2>2, <3>2
    <2>7. Cardinality(Occupants) < MaxNodes
      BY <1>2, <2>3, <2>5, <2>6 DEF SlotFree, Occupants
    <2>8. Occupants' = Occupants \cup {cur} BY <1>3, <1>4, <1>5
    <2>9. Slots!Acquire(cur) BY <1>5, <2>7, <2>8, SlotCount DEF Slots!Acquire, Occupants
    <2> QED BY <1>2, <2>9 DEF Slots!SlotsNext
  <1>6. CASE cur \notin Occupants' /\ cur \in Occupants
    <2>1. Occupants' = Occupants \ {cur} BY <1>3, <1>4, <1>6
    <2>2. Slots!Release(cur) BY <1>6, <2>1 DEF Slots!Release, Occupants
    <2> QED BY <1>2, <2>2 DEF Slots!SlotsNext
  <1>7. CASE cur \in Occupants' <=> cur \in Occupants
    BY <1>2, <1>3, <1>4, <1>7
  <1> QED BY <1>5, <1>6, <1>7

\* Every step of the reliable controller is a step of the slots.
LEMMA SlotsStep ==
  ASSUME Reliable, IInv, SlotFree, [Next]_vars
  PROVE  [Slots!SlotsNext]_Occupants
  <1>1. CASE PatchApplied BY <1>1, PatchTakesFreeSlot
  <1>2. CASE ~PatchApplied
    <2>1. CASE Occupants' = Occupants BY <2>1
    <2>2. ASSUME NEW n \in Occupants, Occupants' = Occupants \ {n} PROVE Slots!SlotsNext
      <3>1. n \in Nodes BY DEF Occupants, InMaintenanceNodes
      <3>2. Slots!Release(n) BY <2>2 DEF Slots!Release, Occupants
      <3> QED BY <3>1, <3>2 DEF Slots!SlotsNext
    <2> QED BY <1>2, <2>1, <2>2, OccupantsShrink
  <1> QED BY <1>1, <1>2

\* The reliable controller implements the maintenance slots: with maxMaintenance
\* in every chain that leads into maintenance, a node enters only when a slot is
\* free on the API server, although the check looks at the cache.
THEOREM SlotsCorrect == ASSUME Reliable, AllLimited PROVE Spec => SlotsKept
  <1>1. Init => Slots!SlotsInit
    BY DEF Init, NewNode, Slots!SlotsInit, InMaintenanceNodes, NoLabel, InMaintenance
  <1>2. Init => SlotFree BY DEF Init, SlotFree, Busy
  <1>3. IInv /\ SlotFree /\ [Next]_vars => SlotFree' BY SlotFreeStep
  <1>4. IInv /\ SlotFree /\ [Next]_vars => [Slots!SlotsNext]_Occupants BY SlotsStep
  <1> QED
    BY <1>1, <1>2, <1>3, <1>4, IInvCorrect, PTL DEF Spec, SlotsKept, Slots!SlotsSpec, Occupants

\* With maxMaintenance in every chain that leads into maintenance, no more than
\* MaxNodes nodes are ever in maintenance.
THEOREM MaxNodesCorrect == ASSUME Reliable, AllLimited PROVE Spec => []AtMostMaxNodes
  <1>1. Init => Occupants = {}
    BY DEF Init, NewNode, Occupants, InMaintenanceNodes, NoLabel, InMaintenance
  <1>2. Init => AtMostMaxNodes
    BY <1>1, FS_EmptySet, ControllerAssumption DEF AtMostMaxNodes, Occupants
  <1>3. AtMostMaxNodes /\ [Slots!SlotsNext]_Occupants => AtMostMaxNodes'
    <2> SUFFICES ASSUME AtMostMaxNodes, [Slots!SlotsNext]_Occupants PROVE AtMostMaxNodes'
      OBVIOUS
    <2>1. IsFiniteSet(Occupants) /\ Cardinality(Occupants) \in Nat
      BY OccupantsFinite DEF Occupants
    <2>2. CASE UNCHANGED Occupants BY <2>2 DEF AtMostMaxNodes, Occupants
    <2>3. ASSUME NEW n \in Nodes, Slots!Acquire(n) PROVE Cardinality(Occupants') <= MaxNodes
      <3>1. Occupants' = Occupants \cup {n} /\ Cardinality(Occupants) < MaxNodes
        BY <2>3, SlotCount DEF Slots!Acquire, Occupants
      <3>2. Cardinality(Occupants') <= Cardinality(Occupants) + 1
        BY <2>1, <3>1, FS_AddElement
      <3>3. Cardinality(Occupants') \in Nat BY <2>1, <3>1, FS_AddElement, FS_CardinalityType
      <3> QED BY <2>1, <3>1, <3>2, <3>3, ControllerAssumption
    <2>4. ASSUME NEW n \in Nodes, Slots!Release(n) PROVE Cardinality(Occupants') <= MaxNodes
      <3>1. Occupants' = Occupants \ {n} BY <2>4 DEF Slots!Release, Occupants
      <3>2. /\ IsFiniteSet(Occupants \ {n})
            /\ Cardinality(Occupants \ {n}) =
                 IF n \in Occupants THEN Cardinality(Occupants) - 1 ELSE Cardinality(Occupants)
        BY <2>1, FS_RemoveElement
      <3>3. Cardinality(Occupants') <= Cardinality(Occupants) BY <2>1, <3>1, <3>2
      <3>4. Cardinality(Occupants') \in Nat BY <3>1, <3>2, FS_CardinalityType
      <3> QED BY <2>1, <3>3, <3>4, ControllerAssumption DEF AtMostMaxNodes, Occupants
    <2> QED BY <2>2, <2>3, <2>4 DEF Slots!SlotsNext, AtMostMaxNodes, Occupants
  <1>4. Init => SlotFree BY DEF Init, SlotFree, Busy
  <1>5. IInv /\ SlotFree /\ [Next]_vars => SlotFree' BY SlotFreeStep
  <1>6. IInv /\ SlotFree /\ [Next]_vars => [Slots!SlotsNext]_Occupants BY SlotsStep
  <1> QED BY <1>2, <1>3, <1>4, <1>5, <1>6, IInvCorrect, PTL DEF Spec
=============================================================================
