------------------------ MODULE NodeControllerProofs ------------------------
(***************************************************************************)
(* Theorems about NodeController, for every cluster, configuration and set *)
(* of faults that the assumptions of each theorem admit.                   *)
(***************************************************************************)
EXTENDS NodeControllerInv, FiniteSetTheorems, TLAPS

-----------------------------------------------------------------------------
(* Types *)

\* MaintainProfileStates returns well-typed data (state.MaintainProfileStates).
LEMMA MaintainType ==
  ASSUME NEW d \in [Profiles -> ProfileData], NEW l
  PROVE  MaintainProfileStates(d, l) \in [Profiles -> ProfileData]
  BY DEF MaintainProfileStates, ProfileData, NoData, NewData, NoLabel, States, Operational

\* The commit loop returns well-typed data (ApplyProfiles).
LEMMA CommitType ==
  ASSUME TypeOK PROVE Commit \in [Profiles -> ProfileData]
  <1>1. \A p \in Profiles : mem[p] \in ProfileData /\ next[p] \in States \cup {NoLabel}
    BY DEF TypeOK
  <1> QED BY <1>1 DEF Commit, ProfileData

\* The label is one of the three states (UpdateMaintenanceStateLabel).
LEMMA StateLabelType == \A d : StateLabel(d) \in States
  BY DEF StateLabel, UpdateMaintenanceStateLabel, States

\* A merge patch of a node object is a node object (Reconcile).
LEMMA MergeType ==
  ASSUME TypeOK, NEW obj \in NodeObject
  PROVE  /\ Merge(obj) \in NodeObject
         /\ Merge(obj).exists = obj.exists
         /\ Merge(obj).profiles = obj.profiles
         /\ Merge(obj).state = IF StateLabel(mem) # snap.state THEN StateLabel(mem) ELSE obj.state
         /\ Merge(obj).data = IF dirty \/ mem # snap.data THEN mem ELSE obj.data
  <1>1. StateLabel(mem) \in States BY StateLabelType
  <1>2. mem \in [Profiles -> ProfileData] BY DEF TypeOK
  <1> QED BY <1>1, <1>2 DEF Merge, NodeObject

\* Absent and new nodes are node objects.
LEMMA NewNodeType == Absent \in NodeObject /\ \A l \in Labels : NewNode(l) \in NodeObject
  BY ControllerAssumption
  DEF Absent, NewNode, NodeObject, NoProfiles, ProfileData, NoData

\* Writing a node object keeps the types of the cluster.
LEMMA PutType ==
  ASSUME TypeOK, NEW n \in Nodes, NEW obj \in NodeObject, Put(n, obj)
  PROVE  api' \in [Nodes -> NodeObject] /\ watch' \in [Nodes -> Seq(NodeObject)]
  BY DEF TypeOK, Put

\* The idle worker is well typed.
LEMMA IdleType ==
  ASSUME TypeOK, IdleWorker
  PROVE  /\ pc' \in {"idle", "apply", "patch", "poll"} /\ cur' \in Nodes
         /\ snap' \in NodeObject /\ mem' \in [Profiles -> ProfileData]
         /\ idx' \in Nat \ {0} /\ next' \in [Profiles -> States \cup {NoLabel}]
         /\ retry' \subseteq Profiles /\ errs' \in BOOLEAN /\ dirty' \in BOOLEAN
         /\ await' \in Nat
  <1>1. mem' \in [Profiles -> ProfileData]
    BY DEF IdleWorker, NoProfiles, ProfileData, NoData
  <1>2. next' \in [Profiles -> States \cup {NoLabel}] BY DEF IdleWorker
  <1>3. snap' \in NodeObject /\ cur' \in Nodes BY NewNodeType DEF IdleWorker, TypeOK
  <1>4. pc' = "idle" /\ idx' = 1 /\ retry' = {} /\ await' = 0 BY DEF IdleWorker
  <1>5. errs' \in BOOLEAN /\ dirty' \in BOOLEAN BY DEF IdleWorker
  <1> QED BY <1>1, <1>2, <1>3, <1>4, <1>5

\* Every step keeps the type invariant.
LEMMA TypeStep == TypeOK /\ [Next]_vars => TypeOK'
  <1> SUFFICES ASSUME TypeOK, [Next]_vars PROVE TypeOK' OBVIOUS
  <1> USE DEF cluster, work
  <1>1. ASSUME NEW n \in Nodes, Deliver(n) PROVE TypeOK'
    <2>1. Head(watch[n]) \in NodeObject /\ Tail(watch[n]) \in Seq(NodeObject)
      BY <1>1 DEF Deliver, TypeOK
    <2>2. await' \in Nat
      BY <1>1 DEF Deliver, AwaitAfter, TypeOK
    <2> QED BY <1>1, <2>1, <2>2 DEF Deliver, TypeOK
  <1>2. ASSUME NEW n \in Nodes, DeleteNode(n) PROVE TypeOK'
    <2>1. DoneAfter(api[n].data, NoProfiles, done[n]) \subseteq Profiles BY DEF DoneAfter
    <2>2. done' \in [Nodes -> SUBSET Profiles] BY <1>2, <2>1 DEF DeleteNode, TypeOK
    <2> QED BY <1>2, <2>2, PutType, NewNodeType DEF DeleteNode, EditNode, TypeOK
  <1>3. ASSUME NEW n \in Nodes, NEW l \in Labels, Relabel(n, l) PROVE TypeOK'
    <2>1. [api[n] EXCEPT !.profiles = l] \in NodeObject
      BY ControllerAssumption DEF TypeOK, NodeObject
    <2> QED BY <1>3, <2>1, PutType DEF Relabel, EditNode, TypeOK
  <1>4. ASSUME NEW n \in Nodes, NEW l \in Labels, CreateNode(n, l) PROVE TypeOK'
    BY <1>4, PutType, NewNodeType DEF CreateNode, EditNode, TypeOK
  <1>5. CASE EditConfig BY <1>5 DEF EditConfig, TypeOK
  <1>6. ASSUME NEW n \in Nodes, ReconcileMisconfigured(n) PROVE TypeOK'
    BY <1>6 DEF ReconcileMisconfigured, TypeOK
  <1>7. ASSUME NEW n \in Nodes, ReconcileDeleted(n) PROVE TypeOK'
    BY <1>7 DEF ReconcileDeleted, TypeOK
  <1>8. ASSUME NEW n \in Nodes, ReconcileStart(n) PROVE TypeOK'
    <2>1. cache[n] \in NodeObject /\ cache[n].data \in [Profiles -> ProfileData]
      BY DEF TypeOK, NodeObject
    <2>2. mem' \in [Profiles -> ProfileData]
      BY <1>8, <2>1, MaintainType DEF ReconcileStart
    <2>3. next' \in [Profiles -> States \cup {NoLabel}]
      BY <1>8, <2>2 DEF ReconcileStart, ProfileData
    <2>4. /\ snap' \in NodeObject /\ idx' = 1 /\ pc' = "apply" /\ cur' = n
          /\ retry' = {} /\ queue' \subseteq Nodes
          /\ UNCHANGED <<api, cache, watch, configOk, info, done, await>>
      BY <1>8, <2>1 DEF ReconcileStart, TypeOK
    <2>5. errs' \in BOOLEAN /\ dirty' \in BOOLEAN BY <1>8 DEF ReconcileStart
    <2> QED BY <2>2, <2>3, <2>4, <2>5 DEF TypeOK
  <1>9. CASE SkipUnknown BY <1>9 DEF SkipUnknown, TypeOK
  <1>10. CASE ApplyProfile
    <2> DEFINE p == LoopNames[idx]
    <2>1. p \in Profiles BY <1>10 DEF ApplyProfile
    <2>2. PICK o \in ApplyResult :
            /\ next' = IF o.next # mem[p].current THEN [next EXCEPT ![p] = o.next] ELSE next
            /\ retry' = IF o.err = "retry" THEN retry \cup {p} ELSE retry
            /\ errs' = (errs \/ o.err = "fail")
            /\ dirty' = (dirty \/ o.notified)
            /\ done' = IF o.entered /\ api[cur].exists
                         THEN [done EXCEPT ![cur] = @ \cup {p}] ELSE done
      BY <1>10 DEF ApplyProfile
    <2>3. o.next \in States /\ o.notified \in BOOLEAN BY DEF ApplyResult
    <2>4. idx' \in Nat \ {0} BY <1>10 DEF ApplyProfile, TypeOK
    <2>5. next' \in [Profiles -> States \cup {NoLabel}] /\ retry' \subseteq Profiles
      BY <2>1, <2>2, <2>3 DEF TypeOK
    <2>6. done' \in [Nodes -> SUBSET Profiles] BY <2>1, <2>2 DEF TypeOK
    <2>7. errs' \in BOOLEAN /\ dirty' \in BOOLEAN BY <2>2
    <2> QED BY <1>10, <2>4, <2>5, <2>6, <2>7 DEF ApplyProfile, TypeOK
  <1>11. CASE ApplyFailed
    BY <1>11, IdleType DEF ApplyFailed, LoopDone, Requeue, TypeOK
  <1>12. CASE NothingToPatch
    BY <1>12, IdleType DEF NothingToPatch, LoopDone, Requeue, TypeOK
  <1>13. CASE CommitProfiles
    BY <1>13, CommitType DEF CommitProfiles, LoopDone, TypeOK
  <1>14. CASE PatchApplied
    <2>1. api[cur] \in NodeObject BY DEF TypeOK
    <2>2. api' \in [Nodes -> NodeObject] /\ watch' \in [Nodes -> Seq(NodeObject)]
      <3>1. Merge(api[cur]) \in NodeObject BY <2>1, MergeType
      <3>2. CASE Put(cur, Merge(api[cur])) BY <3>1, <3>2, PutType DEF TypeOK
      <3>3. CASE UNCHANGED <<api, watch>> BY <3>3 DEF TypeOK
      <3> QED BY <1>14, <3>2, <3>3 DEF PatchApplied
    <2>3. await' \in Nat
      <3>1. watch'[cur] \in Seq(NodeObject) BY <2>2 DEF TypeOK
      <3> QED BY <1>14, <3>1 DEF PatchApplied
    <2>4. done' \in [Nodes -> SUBSET Profiles]
      BY <1>14 DEF PatchApplied, DoneAfter, TypeOK
    <2> QED BY <1>14, <2>2, <2>3, <2>4 DEF PatchApplied, TypeOK
  <1>15. CASE PatchRejected BY <1>15 DEF PatchRejected, TypeOK
  <1>16. CASE PollCacheUpdate
    BY <1>16, IdleType DEF PollCacheUpdate, Requeue, TypeOK
  <1>17. CASE PollTimeout
    BY <1>17, IdleType DEF PollTimeout, Requeue, TypeOK
  <1>18. CASE Restart
    BY <1>18, IdleType DEF Restart, TypeOK
  <1>19. CASE UNCHANGED vars BY <1>19 DEF vars, TypeOK
  <1> QED
    BY <1>1, <1>2, <1>3, <1>4, <1>5, <1>6, <1>7, <1>8, <1>9, <1>10, <1>11, <1>12, <1>13,
       <1>14, <1>15, <1>16, <1>17, <1>18, <1>19
    DEF Next, Environment, Reconcile, Worker

\* The initial state is well typed.
LEMMA TypeInit == Init => TypeOK
  <1> SUFFICES ASSUME Init PROVE TypeOK OBVIOUS
  <1>1. api \in [Nodes -> NodeObject] BY NewNodeType DEF Init
  <1>2. watch \in [Nodes -> Seq(NodeObject)] BY DEF Init
  <1>3. mem \in [Profiles -> ProfileData] BY DEF Init, NoProfiles, ProfileData, NoData
  <1>4. next \in [Profiles -> States \cup {NoLabel}] BY DEF Init
  <1>5. done \in [Nodes -> SUBSET Profiles] BY DEF Init
  <1>6. /\ cache = api /\ queue = Nodes /\ info = {} /\ pc = "idle" /\ cur \in Nodes
        /\ snap \in NodeObject /\ idx = 1 /\ retry = {} /\ await = 0
    BY NewNodeType DEF Init
  <1>7. errs \in BOOLEAN /\ dirty \in BOOLEAN /\ configOk \in BOOLEAN BY DEF Init
  <1> QED BY <1>1, <1>2, <1>3, <1>4, <1>5, <1>6, <1>7 DEF TypeOK

\* Whatever goes wrong, every variable of the controller keeps its type.
THEOREM TypeCorrect == Spec => []TypeOK
  BY TypeInit, TypeStep, PTL DEF Spec

-----------------------------------------------------------------------------
(* The NodeInfoCache *)

\* Every step keeps the inductive invariant of the NodeInfoCache, as long as
\* the configuration does not break.
LEMMA InfoStep ==
  ASSUME "config" \notin Faults, TypeOK, InfoInv, [Next]_vars
  PROVE  InfoInv'
  <1> USE DEF cluster, work, InfoInv, NoOrphanedInfo
  <1>1. ASSUME NEW n \in Nodes, Deliver(n) PROVE InfoInv'
    BY <1>1 DEF Deliver, TypeOK
  <1>2. ASSUME NEW n \in Nodes, DeleteNode(n) PROVE InfoInv'
    BY <1>2 DEF DeleteNode, EditNode
  <1>3. ASSUME NEW n \in Nodes, NEW l \in Labels, Relabel(n, l) PROVE InfoInv'
    BY <1>3 DEF Relabel, EditNode
  <1>4. ASSUME NEW n \in Nodes, NEW l \in Labels, CreateNode(n, l) PROVE InfoInv'
    BY <1>4 DEF CreateNode, EditNode
  <1>5. CASE EditConfig BY <1>5 DEF EditConfig
  <1>6. ASSUME NEW n \in Nodes, ReconcileMisconfigured(n) PROVE InfoInv'
    BY <1>6 DEF ReconcileMisconfigured
  <1>7. ASSUME NEW n \in Nodes, ReconcileDeleted(n) PROVE InfoInv'
    BY <1>7 DEF ReconcileDeleted
  <1>8. ASSUME NEW n \in Nodes, ReconcileStart(n) PROVE InfoInv'
    BY <1>8 DEF ReconcileStart
  <1>9. CASE SkipUnknown BY <1>9 DEF SkipUnknown
  <1>10. CASE ApplyProfile BY <1>10 DEF ApplyProfile
  <1>11. CASE ApplyFailed BY <1>11 DEF ApplyFailed, LoopDone, Requeue, IdleWorker
  <1>12. CASE NothingToPatch BY <1>12 DEF NothingToPatch, LoopDone, Requeue, IdleWorker
  <1>13. CASE CommitProfiles BY <1>13 DEF CommitProfiles, LoopDone
  <1>14. CASE PatchApplied BY <1>14 DEF PatchApplied
  <1>15. CASE PatchRejected BY <1>15 DEF PatchRejected
  <1>16. CASE PollCacheUpdate BY <1>16 DEF PollCacheUpdate, Requeue, IdleWorker
  <1>17. CASE PollTimeout BY <1>17 DEF PollTimeout, Requeue, IdleWorker
  <1>18. CASE Restart BY <1>18 DEF Restart, IdleWorker
  <1>19. CASE UNCHANGED vars BY <1>19 DEF vars
  <1> QED
    BY <1>1, <1>2, <1>3, <1>4, <1>5, <1>6, <1>7, <1>8, <1>9, <1>10, <1>11, <1>12, <1>13,
       <1>14, <1>15, <1>16, <1>17, <1>18, <1>19
    DEF Next, Environment, Reconcile, Worker

\* With a configuration that loads, no entry of the NodeInfoCache is forgotten:
\* whenever the informer cache has lost its node, the node is queued for the
\* reconciliation that deletes the entry.
THEOREM InfoTracked ==
  ASSUME "config" \notin Faults PROVE Spec => []NoOrphanedInfo
  <1>1. Init => InfoInv BY DEF Init, InfoInv, NoOrphanedInfo
  <1>2. TypeOK /\ InfoInv /\ [Next]_vars => InfoInv' BY InfoStep
  <1>3. InfoInv => NoOrphanedInfo BY DEF InfoInv
  <1> QED BY <1>1, <1>2, <1>3, TypeCorrect, PTL DEF Spec

-----------------------------------------------------------------------------
(* The rest is about the reliable controller, whose worker always reads its    *)
(* own writes: no node is created again under the name of a deleted one, no    *)
(* reply to a patch is lost and polling for the cache does not time out.       *)
(* Crashes, deletions, edited labels, rejected patches and failing plugins are *)
(* all allowed.                                                                *)


-----------------------------------------------------------------------------
(* Fresh: the worker starts from what it wrote last *)

\* Outside of the poll nothing is awaited.
LEMMA Quiet ==
  ASSUME TypeOK, Fresh, pc # "poll"
  PROVE  await = 0 /\ \A n \in Nodes : Lag(n) = 0
  BY DEF TypeOK, Fresh, Lag

\* Without a step of the worker, Fresh survives when the cluster is unchanged.
LEMMA FreshSame ==
  ASSUME Fresh, UNCHANGED <<cluster, pc, cur, snap, await>>
  PROVE  Fresh'
  BY DEF Fresh, Lag, Version, cluster

\* An edit by somebody else keeps what the controller wrote, or is a deletion.
LEMMA FreshEdit ==
  ASSUME TypeOK, Fresh, NEW n \in Nodes, NEW obj \in NodeObject, EditNode(n, obj),
         obj.exists => api[n].exists /\ obj.state = api[n].state /\ obj.data = api[n].data
  PROVE  Fresh'
  <1> USE DEF work
  <1>1. UNCHANGED <<cache, pc, cur, snap, await>> BY DEF EditNode
  <1>2. \A m \in Nodes : Lag(m)' = Lag(m) BY <1>1 DEF Lag
  <1>3. watch[n] \in Seq(NodeObject) /\ Len(watch[n]) \in Nat BY DEF TypeOK
  <1>4. /\ api'[n] = obj /\ watch'[n] = Append(watch[n], obj)
        /\ Len(watch'[n]) = Len(watch[n]) + 1
        /\ \A m \in Nodes \ {n} : api'[m] = api[m] /\ watch'[m] = watch[m]
    BY <1>3 DEF EditNode, Put, TypeOK
  <1>5. \A v : Agree(v, api[n]) => Agree(v, obj) BY DEF Agree
  <1>6. /\ \A i \in 0..Len(watch[n]) : Version(n, i)' = Version(n, i)
        /\ \A i : i = Len(watch[n]) + 1 => Version(n, i)' = obj
    <2>1. /\ \A i \in 1..Len(watch[n]) : watch'[n][i] = watch[n][i]
          /\ watch'[n][Len(watch[n]) + 1] = obj
      BY <1>3, <1>4
    <2> QED BY <1>1, <1>3, <2>1 DEF Version
  <1>7. \A m \in Nodes \ {n} : \A i : Version(m, i)' = Version(m, i)
    BY <1>1, <1>4 DEF Version
  <1>8. \A m \in Nodes : Lag(m) \in Nat /\ Lag(m)' <= Len(watch'[m])
    <2>1. \A m \in Nodes : Lag(m) \in Nat /\ Lag(m) <= Len(watch[m])
      BY DEF Fresh, Lag, TypeOK
    <2>2. \A m \in Nodes \ {n} : Lag(m)' <= Len(watch'[m]) BY <2>1, <1>2, <1>4
    <2>3. Lag(n)' <= Len(watch'[n]) BY <2>1, <1>2, <1>3, <1>4
    <2> QED BY <2>1, <2>2, <2>3
  <1>9. \A m \in Nodes : \A i \in Lag(m)'..Len(watch'[m]) : Agree(Version(m, i)', api'[m])
    <2> SUFFICES ASSUME NEW m \in Nodes, NEW i \in Lag(m)'..Len(watch'[m])
                 PROVE  Agree(Version(m, i)', api'[m])
      OBVIOUS
    <2>1. CASE m # n BY <2>1, <1>2, <1>4, <1>7 DEF Fresh
    <2>2. CASE m = n /\ i = Len(watch[n]) + 1 BY <2>2, <1>4, <1>6 DEF Agree
    <2>3. CASE m = n /\ i # Len(watch[n]) + 1
      <3>1. i \in Lag(n)..Len(watch[n]) BY <2>3, <1>2, <1>3, <1>4, <1>8
      <3>2. Agree(Version(n, i), api[n]) BY <3>1 DEF Fresh
      <3>3. i \in 0..Len(watch[n]) BY <3>1, <1>3, <1>8
      <3> QED BY <2>3, <3>2, <3>3, <1>4, <1>5, <1>6
    <2> QED BY <2>1, <2>2, <2>3
  <1>10. \A m \in Nodes : \A i \in 0..Len(watch'[m]) : api'[m].exists => Version(m, i)'.exists
    <2> SUFFICES ASSUME NEW m \in Nodes, NEW i \in 0..Len(watch'[m]), api'[m].exists
                 PROVE  Version(m, i)'.exists
      OBVIOUS
    <2>1. CASE m # n BY <2>1, <1>4, <1>7 DEF Fresh
    <2>2. CASE m = n /\ i = Len(watch[n]) + 1 BY <2>2, <1>4, <1>6
    <2>3. CASE m = n /\ i # Len(watch[n]) + 1
      <3>1. i \in 0..Len(watch[n]) BY <2>3, <1>3, <1>4
      <3> QED BY <2>3, <3>1, <1>4, <1>6 DEF Fresh
    <2> QED BY <2>1, <2>2, <2>3
  <1>11. pc' \in {"apply", "patch"} => Agree(snap', api'[cur'])
    BY <1>1, <1>4, <1>5 DEF Fresh, TypeOK
  <1> QED BY <1>1, <1>8, <1>9, <1>10, <1>11 DEF Fresh

\* A delivery moves every version one place nearer.
LEMMA FreshDeliver ==
  ASSUME TypeOK, Fresh, NEW n \in Nodes, Deliver(n)
  PROVE  Fresh'
  <1> USE DEF work
  <1>1. UNCHANGED <<api, pc, cur, snap>> /\ await' = AwaitAfter(n) BY DEF Deliver
  <1>2. watch[n] \in Seq(NodeObject) /\ Len(watch[n]) \in Nat /\ Len(watch[n]) > 0
    BY DEF TypeOK, Deliver
  <1>3. /\ cache'[n] = watch[n][1] /\ watch'[n] = Tail(watch[n])
        /\ \A m \in Nodes \ {n} : cache'[m] = cache[m] /\ watch'[m] = watch[m]
    BY <1>2 DEF Deliver, TypeOK
  <1>4. /\ Len(watch'[n]) = Len(watch[n]) - 1
        /\ \A i \in 1..Len(watch'[n]) : watch'[n][i] = watch[n][i + 1]
    BY <1>2, <1>3
  <1>5. \A i \in 0..Len(watch'[n]) : Version(n, i)' = Version(n, i + 1)
    BY <1>2, <1>3, <1>4 DEF Version
  <1>6. \A m \in Nodes \ {n} : \A i : Version(m, i)' = Version(m, i)
    BY <1>3 DEF Version
  <1>7. \A m \in Nodes : Lag(m) \in Nat /\ Lag(m)' \in Nat
    BY <1>1 DEF Lag, AwaitAfter, TypeOK
  <1>8. \A m \in Nodes \ {n} : Lag(m)' = Lag(m)
    BY <1>1 DEF Lag, AwaitAfter
  <1>9. Lag(n)' = IF Lag(n) = 0 THEN 0 ELSE Lag(n) - 1
    BY <1>1 DEF Lag, AwaitAfter, TypeOK
  <1>10. \A m \in Nodes : Lag(m)' <= Len(watch'[m])
    <2>1. \A m \in Nodes \ {n} : Lag(m)' <= Len(watch'[m]) BY <1>3, <1>8 DEF Fresh
    <2>2. Lag(n) <= Len(watch[n]) BY DEF Fresh
    <2>3. Lag(n)' <= Len(watch'[n]) BY <2>2, <1>2, <1>4, <1>7, <1>9
    <2> QED BY <2>1, <2>3
  <1>11. \A m \in Nodes : \A i \in Lag(m)'..Len(watch'[m]) : Agree(Version(m, i)', api'[m])
    <2> SUFFICES ASSUME NEW m \in Nodes, NEW i \in Lag(m)'..Len(watch'[m])
                 PROVE  Agree(Version(m, i)', api'[m])
      OBVIOUS
    <2>1. CASE m # n BY <2>1, <1>1, <1>3, <1>6, <1>8 DEF Fresh
    <2>2. CASE m = n
      <3>1. i \in 0..Len(watch'[n]) /\ i + 1 \in Lag(n)..Len(watch[n])
        BY <2>2, <1>2, <1>4, <1>7, <1>9
      <3>2. Agree(Version(n, i + 1), api[n]) BY <3>1 DEF Fresh
      <3> QED BY <2>2, <3>1, <3>2, <1>1, <1>5
    <2> QED BY <2>1, <2>2
  <1>12. \A m \in Nodes : \A i \in 0..Len(watch'[m]) : api'[m].exists => Version(m, i)'.exists
    <2> SUFFICES ASSUME NEW m \in Nodes, NEW i \in 0..Len(watch'[m]), api'[m].exists
                 PROVE  Version(m, i)'.exists
      OBVIOUS
    <2>1. CASE m # n BY <2>1, <1>1, <1>3, <1>6 DEF Fresh
    <2>2. CASE m = n
      <3>1. i + 1 \in 0..Len(watch[n]) BY <2>2, <1>2, <1>4
      <3> QED BY <2>2, <3>1, <1>1, <1>5 DEF Fresh
    <2> QED BY <2>1, <2>2
  <1>13. await' > 0 => pc' = "poll" BY <1>1 DEF Fresh, AwaitAfter, TypeOK
  <1> QED BY <1>1, <1>10, <1>11, <1>12, <1>13 DEF Fresh

\* The worker goes idle, waiting for nothing: it was not waiting before, or the
\* node it waits for is gone.
LEMMA FreshIdle ==
  ASSUME TypeOK, Fresh, IdleWorker, UNCHANGED cluster,
         await = 0 \/ ~cache[cur].exists
  PROVE  Fresh'
  <1>1. cur' = cur /\ await' = 0 /\ pc' = "idle" /\ UNCHANGED <<api, cache, watch>>
    BY DEF IdleWorker, cluster
  <1>2. \A n \in Nodes : Lag(n)' = 0 BY <1>1 DEF Lag
  <1>3. \A n \in Nodes : \A i : Version(n, i)' = Version(n, i) BY <1>1 DEF Version
  <1>4. \A n \in Nodes : Len(watch[n]) \in Nat BY DEF TypeOK
  <1>5. \A n \in Nodes : \A i \in 0..Len(watch[n]) : Agree(Version(n, i), api[n])
    <2>1. CASE await = 0
      <3>1. \A n \in Nodes : Lag(n) = 0 BY <2>1 DEF Lag
      <3> QED BY <3>1 DEF Fresh
    <2>2. CASE ~cache[cur].exists
      <3>1. ~api[cur].exists
        <4>1. 0 \in 0..Len(watch[cur]) BY <1>4 DEF TypeOK
        <4> QED BY <2>2, <4>1 DEF Fresh, Version, TypeOK
      <3>2. \A n \in Nodes \ {cur} : Lag(n) = 0 BY DEF Lag
      <3> QED BY <3>1, <3>2 DEF Fresh, Agree
    <2> QED BY <2>1, <2>2
  <1> QED BY <1>1, <1>2, <1>3, <1>4, <1>5 DEF Fresh

\* The snapshot of a worker that starts agrees with the API server.
LEMMA FreshStart ==
  ASSUME TypeOK, Fresh, NEW n \in Nodes, ReconcileStart(n)
  PROVE  Fresh'
  <1>1. UNCHANGED <<api, cache, watch, await>> /\ cur' = n /\ snap' = cache[n]
    BY DEF ReconcileStart, cluster
  <1>2. await = 0 /\ \A m \in Nodes : Lag(m) = 0
    <2>1. pc # "poll" BY DEF ReconcileStart
    <2> QED BY <2>1, Quiet
  <1>3. \A m \in Nodes : Lag(m)' = 0 BY <1>1, <1>2 DEF Lag
  <1>4. \A m \in Nodes : \A i : Version(m, i)' = Version(m, i) BY <1>1 DEF Version
  <1>5. Agree(cache[n], api[n])
    <2>1. Len(watch[n]) \in Nat BY DEF TypeOK
    <2>2. 0 \in Lag(n)..Len(watch[n]) BY <2>1, <1>2
    <2> QED BY <2>2 DEF Fresh, Version
  <1> QED BY <1>1, <1>2, <1>3, <1>4, <1>5 DEF Fresh

\* After a patch the worker waits for exactly the version it wrote.
LEMMA FreshPatch ==
  ASSUME Reliable, TypeOK, TypeOK', Fresh, PatchApplied
  PROVE  Fresh'
  <1> USE DEF work
  <1> DEFINE new == Merge(api[cur])
  <1>1. cur \in Nodes /\ UNCHANGED <<cache, cur>> /\ pc' = "poll" BY DEF TypeOK, PatchApplied
  <1>2. await' = Len(watch'[cur]) BY DEF PatchApplied, Reliable
  <1>3. \A m \in Nodes : Lag(m) = 0
    <2>1. pc # "poll" BY DEF PatchApplied
    <2> QED BY <2>1, Quiet
  <1>4. \A m \in Nodes : Lag(m)' = IF m = cur THEN Len(watch'[cur]) ELSE 0
    BY <1>1, <1>2 DEF Lag
  <1>5. \A m \in Nodes : Len(watch[m]) \in Nat /\ Len(watch'[m]) \in Nat
    <2>1. \A m \in Nodes : watch[m] \in Seq(NodeObject) /\ watch'[m] \in Seq(NodeObject)
      BY DEF TypeOK
    <2> QED BY <2>1
  <1>6. \A m \in Nodes : Lag(m)' <= Len(watch'[m]) BY <1>4, <1>5
  <1>7. new.exists = api[cur].exists
    <2>1. api[cur] \in NodeObject BY <1>1 DEF TypeOK
    <2> QED BY <2>1, MergeType
  <1>8. CASE UNCHANGED <<api, watch>>
    <2>1. \A m \in Nodes : \A i : Version(m, i)' = Version(m, i) BY <1>1, <1>8 DEF Version
    <2>2. \A m \in Nodes : \A i \in Lag(m)'..Len(watch'[m]) : i \in Lag(m)..Len(watch[m])
      BY <1>3, <1>4, <1>5, <1>8
    <2> QED BY <1>1, <1>6, <1>8, <2>1, <2>2 DEF Fresh
  <1>9. CASE Put(cur, new)
    <2>1. /\ api'[cur] = new /\ watch'[cur] = Append(watch[cur], new)
          /\ \A m \in Nodes \ {cur} : api'[m] = api[m] /\ watch'[m] = watch[m]
      BY <1>1, <1>9 DEF Put, TypeOK
    <2>2. watch[cur] \in Seq(NodeObject) BY <1>1 DEF TypeOK
    <2>3. Len(watch'[cur]) = Len(watch[cur]) + 1 BY <2>1, <2>2
    <2>4. \A i \in 1..Len(watch[cur]) : watch'[cur][i] = watch[cur][i] BY <2>1, <2>2
    <2>5. watch'[cur][Len(watch[cur]) + 1] = new BY <2>1, <2>2
    <2>6. /\ \A i \in 0..Len(watch[cur]) : Version(cur, i)' = Version(cur, i)
          /\ \A i : i = Len(watch[cur]) + 1 => Version(cur, i)' = new
      BY <1>1, <1>5, <2>4, <2>5 DEF Version
    <2>7. \A m \in Nodes \ {cur} : \A i : Version(m, i)' = Version(m, i)
      BY <1>1, <2>1 DEF Version
    <2>8. \A m \in Nodes : \A i \in Lag(m)'..Len(watch'[m]) : Agree(Version(m, i)', api'[m])
      <3> SUFFICES ASSUME NEW m \in Nodes, NEW i \in Lag(m)'..Len(watch'[m])
                   PROVE  Agree(Version(m, i)', api'[m])
        OBVIOUS
      <3>1. CASE m # cur BY <3>1, <1>3, <1>4, <2>1, <2>7 DEF Fresh
      <3>2. CASE m = cur
        <4>1. i = Len(watch[cur]) + 1 BY <3>2, <1>1, <1>4, <1>5, <2>3
        <4>2. Version(m, i)' = new BY <4>1, <3>2, <1>1, <2>6
        <4> QED BY <4>2, <3>2, <2>1 DEF Agree
      <3> QED BY <3>1, <3>2
    <2>9. \A m \in Nodes : \A i \in 0..Len(watch'[m]) : api'[m].exists => Version(m, i)'.exists
      <3> SUFFICES ASSUME NEW m \in Nodes, NEW i \in 0..Len(watch'[m]), api'[m].exists
                   PROVE  Version(m, i)'.exists
        OBVIOUS
      <3>1. CASE m # cur BY <3>1, <2>1, <2>7 DEF Fresh
      <3>2. CASE m = cur /\ i = Len(watch[cur]) + 1 BY <3>2, <1>1, <2>1, <2>6
      <3>3. CASE m = cur /\ i # Len(watch[cur]) + 1
        <4>1. i \in 0..Len(watch[cur]) BY <3>3, <1>1, <1>5, <2>3
        <4>2. Version(m, i)' = Version(cur, i) BY <4>1, <3>3, <1>1, <2>6
        <4>3. api[cur].exists BY <3>3, <1>7, <2>1
        <4> QED BY <4>1, <4>2, <4>3, <1>1 DEF Fresh
      <3> QED BY <3>1, <3>2, <3>3
    <2> QED BY <1>1, <1>6, <2>8, <2>9 DEF Fresh
  <1> QED BY <1>8, <1>9 DEF PatchApplied

\* A restarted controller lists the nodes afresh.
LEMMA FreshRestart ==
  ASSUME TypeOK, Restart PROVE Fresh'
  <1>1. cache' = api /\ UNCHANGED api /\ pc' = "idle" /\ await' = 0
    BY DEF Restart, IdleWorker
  <1>2. \A n \in Nodes : Lag(n)' = 0 BY <1>1 DEF Lag
  <1>3. \A n \in Nodes : Len(watch'[n]) = 0 BY DEF Restart
  <1>4. \A n \in Nodes : \A i \in 0..Len(watch'[n]) : Version(n, i)' = api'[n]
    BY <1>1, <1>3 DEF Version
  <1>5. \A n \in Nodes : Agree(api'[n], api'[n]) BY DEF Agree
  <1> QED BY <1>1, <1>2, <1>3, <1>4, <1>5 DEF Fresh

\* Every step of the reliable controller keeps Fresh.
LEMMA FreshStep ==
  ASSUME Reliable, TypeOK, TypeOK', Fresh, [Next]_vars
  PROVE  Fresh'
  <1> USE DEF cluster, work
  <1>1. ASSUME NEW n \in Nodes, Deliver(n) PROVE Fresh' BY <1>1, FreshDeliver
  <1>2. ASSUME NEW n \in Nodes, DeleteNode(n) PROVE Fresh'
    <2>1. Absent \in NodeObject /\ ~Absent.exists BY NewNodeType DEF Absent
    <2> QED BY <1>2, <2>1, FreshEdit DEF DeleteNode
  <1>3. ASSUME NEW n \in Nodes, NEW l \in Labels, Relabel(n, l) PROVE Fresh'
    <2> DEFINE obj == [api[n] EXCEPT !.profiles = l]
    <2>1. obj \in NodeObject /\ obj.state = api[n].state /\ obj.data = api[n].data
      BY ControllerAssumption DEF TypeOK, NodeObject
    <2>2. api[n].exists /\ EditNode(n, obj) BY <1>3 DEF Relabel
    <2> HIDE DEF obj
    <2> QED BY <2>1, <2>2, FreshEdit
  <1>4. ASSUME NEW n \in Nodes, NEW l \in Labels, CreateNode(n, l) PROVE Fresh'
    BY <1>4 DEF CreateNode, Reliable
  <1>5. CASE EditConfig BY <1>5, FreshSame DEF EditConfig
  <1>6. ASSUME NEW n \in Nodes, ReconcileMisconfigured(n) PROVE Fresh'
    BY <1>6, FreshSame DEF ReconcileMisconfigured
  <1>7. ASSUME NEW n \in Nodes, ReconcileDeleted(n) PROVE Fresh'
    BY <1>7, FreshSame DEF ReconcileDeleted
  <1>8. ASSUME NEW n \in Nodes, ReconcileStart(n) PROVE Fresh' BY <1>8, FreshStart
  <1>9. CASE SkipUnknown BY <1>9, FreshSame DEF SkipUnknown
  <1>10. CASE ApplyProfile BY <1>10, FreshSame DEF ApplyProfile
  <1>11. CASE ApplyFailed
    BY <1>11, Quiet, FreshIdle DEF ApplyFailed, LoopDone, Requeue
  <1>12. CASE NothingToPatch
    BY <1>12, Quiet, FreshIdle DEF NothingToPatch, LoopDone, Requeue
  <1>13. CASE CommitProfiles
    BY <1>13, Quiet DEF CommitProfiles, LoopDone, Fresh, Lag, Version
  <1>14. CASE PatchApplied BY <1>14, FreshPatch
  <1>15. CASE PatchRejected
    BY <1>15, Quiet DEF PatchRejected, Fresh, Lag, Version
  <1>16. CASE PollCacheUpdate BY <1>16, FreshIdle DEF PollCacheUpdate, Requeue
  <1>17. CASE PollTimeout BY <1>17 DEF PollTimeout, Reliable
  <1>18. CASE Restart BY <1>18, FreshRestart
  <1>19. CASE UNCHANGED vars BY <1>19, FreshSame DEF vars
  <1> QED
    BY <1>1, <1>2, <1>3, <1>4, <1>5, <1>6, <1>7, <1>8, <1>9, <1>10, <1>11, <1>12, <1>13,
       <1>14, <1>15, <1>16, <1>17, <1>18, <1>19
    DEF Next, Environment, Reconcile, Worker

-----------------------------------------------------------------------------
(* Working: the memory of the worker *)

\* What an answer of Apply says: a transition that happens is a configured one
\* that passed its guards, and an answer without error has run a pending Enter.
LEMMA ApplyFacts ==
  ASSUME NEW pd, NEW ts, NEW inM, NEW full,
         NEW o \in ApplyResult, Apply(pd, ts, inM, full, o)
  PROVE  /\ o.next # pd.current =>
              /\ o.err = "none"
              /\ \E i \in DOMAIN ts :
                   /\ ts[i].next = o.next
                   /\ o.next = InMaintenance => ~inM
                   /\ ts[i].limited => ~full
         /\ o.err = "none" => o.entered \/ pd.previous = pd.current
         /\ o.entered => pd.previous # pd.current
  <1>1. ASSUME NEW c \in CheckChain(ts, full), NEW r \in [err: {"none", "fail"}, next: States],
               transitionDefault(pd.current, ts, c, inM, r), r.next # pd.current
        PROVE  \E i \in DOMAIN ts :
                 /\ ts[i].next = r.next
                 /\ r.next = InMaintenance => ~inM
                 /\ ts[i].limited => ~full
    <2>1. PICK i \in DOMAIN ts : Execute(ts[i], c[i], inM) = "pass" /\ r.next = ts[i].next
      BY <1>1 DEF transitionDefault
    <2>2. c[i] = "pass" /\ (ts[i].next = InMaintenance => ~inM) BY <2>1 DEF Execute
    <2>3. ts[i].limited => ~full BY <2>2 DEF CheckChain
    <2> QED BY <2>1, <2>2, <2>3
  <1>2. o.entered \in BOOLEAN BY DEF ApplyResult
  <1> QED BY <1>1, <1>2 DEF Apply

\* The data of an attached profile is what was read, or new.
LEMMA BaseFacts ==
  ASSUME NEW p \in Profiles
  PROVE  /\ p \notin getProfiles(Label) => Base[p] = NoData
         /\ p \in getProfiles(Label) /\ snap.data[p] = NoData => Base[p] = NewData
         /\ p \in getProfiles(Label) /\ snap.data[p] # NoData => Base[p] = snap.data[p]
  BY DEF Base, MaintainProfileStates, getProfiles, Label

\* A configured profile at a position of the loop is attached, and every
\* attached profile has a position.
LEMMA Positions ==
  /\ \A j \in DOMAIN LoopNames : LoopNames[j] \in Profiles => LoopNames[j] \in getProfiles(Label)
  /\ \A p \in getProfiles(Label) : \E j \in DOMAIN LoopNames : LoopNames[j] = p
  BY DEF LoopNames, getProfiles, ContainsProfile

\* The names the loop runs through are a sequence.
LEMMA LoopNamesType == TypeOK => LoopNames \in Seq(Names) /\ DOMAIN LoopNames = 1..Len(LoopNames)
  <1> SUFFICES ASSUME TypeOK PROVE LoopNames \in Seq(Names) OBVIOUS
  <1>1. Label \in Seq(Names) BY DEF TypeOK, NodeObject, Label
  <1>2. <<Default>> \in Seq(Names) BY ConfigAssumption
  <1> QED BY <1>1, <1>2 DEF LoopNames, ProfileNames

\* Steps of others do not disturb the worker.
LEMMA WorkingSame ==
  ASSUME TypeOK, Working, UNCHANGED <<pc, work>>,
         api'[cur].exists => api[cur].exists /\ done[cur] \subseteq done'[cur]
  PROVE  Working'
  <1>1. UNCHANGED <<pc, cur, snap, mem, idx, next, retry, errs>> BY DEF work
  <1>2. UNCHANGED <<Base, Label, LoopNames, Left>>
    BY <1>1 DEF Base, Label, LoopNames, Left
  <1>3. \A p \in Profiles : NextFollows(p) => NextFollows(p)'
    BY <1>1, <1>2 DEF NextFollows
  <1>4. Busy' => Busy BY <1>1 DEF Busy
  <1>5. Busy' /\ LoopEntered => LoopEntered' BY <1>1, <1>2 DEF LoopEntered, Busy
  <1> QED BY <1>1, <1>2, <1>3, <1>4, <1>5 DEF Working

\* A worker that is neither in the loop nor about to patch promises nothing.
LEMMA WorkingOff == (pc' \notin {"apply", "patch"}) => Working'
  BY DEF Working, Busy

\* The worker starts.
LEMMA WorkingStart ==
  ASSUME TypeOK, NEW n \in Nodes, ReconcileStart(n)
  PROVE  Working'
  <1>1. snap' = cache[n] /\ cache[n].exists /\ pc' = "apply" /\ idx' = 1 BY DEF ReconcileStart
  <1>2. mem' = Base' BY <1>1 DEF ReconcileStart, Base
  <1>3. \A p \in Profiles : next'[p] = Base'[p].current BY <1>2 DEF ReconcileStart
  <1>4. \A p \in Profiles : NextFollows(p)' BY <1>3 DEF NextFollows
  <1>5. LoopEntered' BY <1>1 DEF LoopEntered
  <1> QED BY <1>1, <1>2, <1>4, <1>5 DEF Working

\* A skipped name has no profile.
LEMMA WorkingSkip ==
  ASSUME TypeOK, Working, SkipUnknown PROVE Working'
  <1>1. /\ UNCHANGED <<api, done, pc, cur, snap, mem, next, retry, errs>>
        /\ idx' = idx + 1 /\ pc = "apply" /\ LoopNames[idx] \notin Profiles
    BY DEF SkipUnknown, cluster
  <1>2. UNCHANGED <<Base, Label, LoopNames, Busy>>
    BY <1>1 DEF Base, Label, LoopNames, Busy
  <1>3. idx \in Nat \ {0} /\ 1..(idx' - 1) = 1..(idx - 1) \cup {idx} BY <1>1 DEF TypeOK
  <1>4. \A p \in Profiles : NextFollows(p) => NextFollows(p)'
    BY <1>1, <1>2, <1>3 DEF NextFollows
  <1>5. LoopEntered => LoopEntered' BY <1>1, <1>2, <1>3 DEF LoopEntered
  <1> QED BY <1>1, <1>2, <1>4, <1>5 DEF Working

\* One turn of the loop.
LEMMA WorkingApply ==
  ASSUME TypeOK, Fresh, Working, Persisted, ApplyProfile PROVE Working'
  <1> DEFINE p == LoopNames[idx]
             s == mem[p].current
             inM == anyInMaintenance(mem, Label)
             full == maxMaintenanceFull(cache)
  <1>1. /\ UNCHANGED <<api, pc, cur, snap, mem>> /\ cur \in Nodes
        /\ idx' = idx + 1 /\ pc = "apply" /\ p \in Profiles /\ idx \in 1..Len(LoopNames)
    BY DEF ApplyProfile, cluster, TypeOK
  <1>2. PICK o \in ApplyResult :
          /\ Apply(mem[p], Transitions[p][s], inM, full, o)
          /\ next' = IF o.next # s THEN [next EXCEPT ![p] = o.next] ELSE next
          /\ retry' = IF o.err = "retry" THEN retry \cup {p} ELSE retry
          /\ errs' = (errs \/ o.err = "fail")
          /\ done' = IF o.entered /\ api[cur].exists
                       THEN [done EXCEPT ![cur] = @ \cup {p}] ELSE done
    BY DEF ApplyProfile
  <1>4. /\ o.next # s => /\ o.err = "none"
                         /\ Lifecycle!Leads(p, s, o.next)
                         /\ o.next = InMaintenance => ~inM
        /\ o.err = "none" => o.entered \/ mem[p].previous = s
    <2> DEFINE ts == Transitions[p][s]
    <2>1. Apply(mem[p], ts, inM, full, o) BY <1>2
    <2> HIDE DEF ts, inM, full, p
    <2>2. /\ o.next # mem[p].current =>
               /\ o.err = "none"
               /\ \E i \in DOMAIN ts : ts[i].next = o.next /\ (o.next = InMaintenance => ~inM)
          /\ o.err = "none" => o.entered \/ mem[p].previous = mem[p].current
      BY <2>1, ApplyFacts
    <2> QED BY <2>2 DEF Lifecycle!Leads, ts
  <1>5. UNCHANGED <<Base, Label, LoopNames, Busy>> /\ mem = Base
    BY <1>1 DEF Base, Label, LoopNames, Busy, Working
  <1>6. idx \in Nat \ {0} /\ 1..(idx' - 1) = 1..(idx - 1) \cup {idx} BY <1>1 DEF TypeOK
  <1>7. p \in getProfiles(Label) BY <1>1, LoopNamesType, Positions
  <1>8. o.next \in States /\ NoLabel \notin States /\ o.err \in {"none", "retry", "fail"}
    BY DEF ApplyResult, States, NoLabel, Operational, Required, InMaintenance
  <1>9. ASSUME Busy PROVE Base[p].current # NoLabel
    <2>1. snap.data = api[cur].data BY <1>9 DEF Fresh, Agree, Busy
    <2>2. snap.data[p].current = NoLabel <=> snap.data[p] = NoData
      BY <1>1, <2>1 DEF Persisted
    <2> QED BY <1>1, <1>7, <2>2, BaseFacts DEF NewData, Operational, NoLabel
  <1>10. ASSUME Busy, NEW q \in Profiles, NextFollows(q) PROVE NextFollows(q)'
    <2>1. next \in [Profiles -> States \cup {NoLabel}] BY DEF TypeOK
    <2>2. CASE next'[q] = next[q] BY <2>2, <1>10, <1>5, <1>6 DEF NextFollows
    <2>3. CASE next'[q] # next[q]
      <3>1. q = p /\ next'[q] = o.next /\ o.next # s BY <1>1, <1>2, <2>1, <2>3
      <3>2. /\ Lifecycle!Leads(q, Base[q].current, next'[q])
            /\ next'[q] = InMaintenance => ~anyInMaintenance(Base, Label)
        BY <3>1, <1>4, <1>5
      <3>3. idx \in 1..(idx' - 1) /\ LoopNames'[idx] = q BY <3>1, <1>5, <1>6
      <3>4. next'[q] # NoLabel /\ Base[q].current # NoLabel BY <3>1, <1>8, <1>9, <1>10
      <3> QED BY <3>2, <3>3, <3>4, <1>5 DEF NextFollows
    <2> QED BY <2>2, <2>3
  <1>11. ASSUME Busy, ~errs', ~errs => LoopEntered PROVE LoopEntered'
    <2>1. ~errs /\ o.err # "fail" BY <1>2, <1>11
    <2>2. retry \subseteq retry' /\ done[cur] \subseteq done'[cur]
      BY <1>1, <1>2 DEF TypeOK
    <2>3. ASSUME p \notin retry', snap.data[p] # NoData PROVE p \in done'[cur]
      <3>1. o.err = "none" BY <1>2, <1>8, <2>1, <2>3
      <3>2. CASE o.entered BY <3>2, <1>1, <1>2, <1>11 DEF Busy, TypeOK
      <3>3. CASE mem[p].previous = s
        <4>1. snap.data = api[cur].data BY <1>11 DEF Fresh, Agree, Busy
        <4>2. mem[p] = api[cur].data[p] BY <4>1, <2>3, <1>1, <1>5, <1>7, BaseFacts
        <4>3. p \in done[cur] BY <4>1, <4>2, <3>3, <2>3, <1>1 DEF Persisted
        <4> QED BY <4>3, <2>2
      <3> QED BY <3>1, <3>2, <3>3, <1>4
    <2>4. ASSUME NEW j \in 1..(idx' - 1), LoopNames[j] \in Profiles, LoopNames[j] \notin retry',
                 snap.data[LoopNames[j]] # NoData
          PROVE  LoopNames[j] \in done'[cur]
      <3>1. CASE j = idx BY <3>1, <2>3, <2>4
      <3>2. CASE j \in 1..(idx - 1)
        <4>1. LoopEntered /\ LoopNames[j] \notin retry BY <1>11, <2>1, <2>2, <2>4
        <4>2. LoopNames[j] \in done[cur] BY <4>1, <3>2, <2>4 DEF LoopEntered
        <4> QED BY <4>2, <2>2
      <3> QED BY <3>1, <3>2, <1>6
    <2> QED BY <2>4, <1>1, <1>5 DEF LoopEntered
  <1>13. pc' = "apply" /\ mem' = Base' /\ snap'.exists
    BY <1>1, <1>5 DEF Working
  <1>14. Busy' => \A q \in Profiles : NextFollows(q)'
    BY <1>5, <1>10 DEF Working
  <1>15. Busy' /\ ~errs' => LoopEntered'
    BY <1>5, <1>11 DEF Working
  <1> QED BY <1>13, <1>14, <1>15 DEF Working

\* The commit loop leaves the data behind that Left describes.
LEMMA WorkingCommit ==
  ASSUME TypeOK, Working, CommitProfiles PROVE Working'
  <1>1. /\ UNCHANGED <<api, done, cur, snap, idx, next, retry, errs>>
        /\ pc = "apply" /\ pc' = "patch" /\ mem' = Commit /\ ~errs /\ idx > Len(LoopNames)
    BY DEF CommitProfiles, LoopDone, cluster
  <1>2. UNCHANGED <<Base, Label, LoopNames, Left, Busy>>
    BY <1>1 DEF Base, Label, LoopNames, Left, Busy
  <1>3. mem' = Left' BY <1>1, <1>2 DEF Commit, Left, Working
  <1>4. \A p \in Profiles : NextFollows(p) => NextFollows(p)'
    BY <1>1, <1>2 DEF NextFollows
  <1>5. LoopEntered => LoopEntered' BY <1>1, <1>2 DEF LoopEntered
  <1> QED BY <1>1, <1>2, <1>3, <1>4, <1>5 DEF Working

\* Every step of the reliable controller keeps Working.
LEMMA WorkingStep ==
  ASSUME Reliable, TypeOK, Fresh, Working, Persisted, [Next]_vars
  PROVE  Working'
  <1> USE DEF cluster, work
  <1>1. ASSUME NEW n \in Nodes, Deliver(n) PROVE Working'
    BY <1>1, WorkingSame DEF Deliver
  <1>2. ASSUME NEW n \in Nodes, DeleteNode(n) PROVE Working'
    <2>1. ~api'[n].exists BY <1>2 DEF DeleteNode, EditNode, Put, Absent, TypeOK
    <2>2. cur # n => api'[cur] = api[cur] /\ done'[cur] = done[cur]
      BY <1>2 DEF DeleteNode, EditNode, Put, TypeOK
    <2> QED BY <1>2, <2>1, <2>2, WorkingSame DEF DeleteNode, EditNode
  <1>3. ASSUME NEW n \in Nodes, NEW l \in Labels, Relabel(n, l) PROVE Working'
    <2>1. api'[cur].exists = api[cur].exists
      BY <1>3 DEF Relabel, EditNode, Put, TypeOK, NodeObject
    <2> QED BY <1>3, <2>1, WorkingSame DEF Relabel, EditNode
  <1>4. ASSUME NEW n \in Nodes, NEW l \in Labels, CreateNode(n, l) PROVE Working'
    BY <1>4 DEF CreateNode, Reliable
  <1>5. CASE EditConfig BY <1>5, WorkingSame DEF EditConfig
  <1>6. ASSUME NEW n \in Nodes, ReconcileMisconfigured(n) PROVE Working'
    BY <1>6, WorkingSame DEF ReconcileMisconfigured
  <1>7. ASSUME NEW n \in Nodes, ReconcileDeleted(n) PROVE Working'
    BY <1>7, WorkingSame DEF ReconcileDeleted
  <1>8. ASSUME NEW n \in Nodes, ReconcileStart(n) PROVE Working' BY <1>8, WorkingStart
  <1>9. CASE SkipUnknown BY <1>9, WorkingSkip
  <1>10. CASE ApplyProfile BY <1>10, WorkingApply
  <1>11. CASE ApplyFailed BY <1>11, WorkingOff DEF ApplyFailed, Requeue, IdleWorker
  <1>12. CASE NothingToPatch BY <1>12, WorkingOff DEF NothingToPatch, Requeue, IdleWorker
  <1>13. CASE CommitProfiles BY <1>13, WorkingCommit
  <1>14. CASE PatchApplied BY <1>14, WorkingOff DEF PatchApplied
  <1>15. CASE PatchRejected BY <1>15, WorkingOff DEF PatchRejected
  <1>16. CASE PollCacheUpdate BY <1>16, WorkingOff DEF PollCacheUpdate, Requeue, IdleWorker
  <1>17. CASE PollTimeout BY <1>17, WorkingOff DEF PollTimeout, Requeue, IdleWorker
  <1>18. CASE Restart BY <1>18, WorkingOff DEF Restart, IdleWorker
  <1>19. CASE UNCHANGED vars BY <1>19, WorkingSame DEF vars
  <1> QED
    BY <1>1, <1>2, <1>3, <1>4, <1>5, <1>6, <1>7, <1>8, <1>9, <1>10, <1>11, <1>12, <1>13,
       <1>14, <1>15, <1>16, <1>17, <1>18, <1>19
    DEF Next, Environment, Reconcile, Worker

-----------------------------------------------------------------------------
(* What a patch writes *)

\* The merge patch of a fresh worker writes the whole result of the loop,
\* although it names only the fields that differ from the snapshot.
LEMMA PatchWrites ==
  ASSUME TypeOK, Fresh, Working, PatchApplied
  PROVE  /\ Busy /\ mem = Left /\ ~errs /\ cur \in Nodes
         /\ snap.data = api[cur].data /\ snap.state = api[cur].state
         /\ Merge(api[cur]).data = mem
         /\ api'[cur].exists /\ api'[cur].data = mem /\ api'[cur].state = StateLabel(mem)
         /\ \A n \in Nodes \ {cur} : api'[n] = api[n]
         /\ done' = [done EXCEPT ![cur] = DoneAfter(api[cur].data, mem, @)]
  <1>1. pc = "patch" /\ api[cur].exists /\ cur \in Nodes BY DEF PatchApplied, TypeOK
  <1>2. Busy /\ mem = Left /\ ~errs BY <1>1 DEF Busy, Working
  <1>3. snap.data = api[cur].data /\ snap.state = api[cur].state
    BY <1>1, <1>2 DEF Fresh, Agree, Busy
  <1>4. api[cur] \in NodeObject BY <1>1 DEF TypeOK
  <1>5. /\ Merge(api[cur]).data = mem /\ Merge(api[cur]).state = StateLabel(mem)
        /\ Merge(api[cur]).exists
    BY <1>1, <1>3, <1>4, MergeType
  <1>6. api'[cur] = Merge(api[cur]) /\ \A n \in Nodes \ {cur} : api'[n] = api[n]
    BY <1>1 DEF PatchApplied, Put, TypeOK
  <1>7. done' = [done EXCEPT ![cur] = DoneAfter(api[cur].data, mem, @)]
    BY <1>5 DEF PatchApplied
  <1> QED BY <1>1, <1>2, <1>3, <1>5, <1>6, <1>7

\* The data a patch writes has no entry for a detached profile and no half
\* entry for an attached one.
LEMMA LeftShape ==
  ASSUME TypeOK, Fresh, Working, Persisted, PatchApplied, NEW p \in Profiles
  PROVE  /\ mem[p].current = NoLabel <=> mem[p] = NoData
         /\ mem[p].current # NoLabel => p \in getProfiles(Label)
         /\ p \in getProfiles(Label) => Base[p].current # NoLabel
         /\ p \notin retry => mem[p] = [current |-> next[p], previous |-> Base[p].current]
         /\ p \in retry => mem[p] = Base[p]
  <1>1. Busy /\ mem = Left /\ cur \in Nodes /\ snap.data = api[cur].data BY PatchWrites
  <1>2. snap.data[p].current = NoLabel <=> snap.data[p] = NoData
    BY <1>1 DEF Persisted
  <1>3. next[p] = NoLabel <=> Base[p].current = NoLabel
    BY <1>1 DEF Working, NextFollows
  <1>4. Base[p].current = NoLabel <=> Base[p] = NoData
    BY <1>2, BaseFacts DEF NewData, NoData, NoLabel, Operational
  <1>5. /\ p \notin retry => mem[p] = [current |-> next[p], previous |-> Base[p].current]
        /\ p \in retry => mem[p] = Base[p]
    BY <1>1 DEF Left
  <1>6. mem[p].current = NoLabel <=> mem[p] = NoData
    BY <1>3, <1>4, <1>5 DEF NoData
  <1>7. mem[p].current # NoLabel => Base[p].current # NoLabel BY <1>3, <1>5
  <1>8. Base[p].current # NoLabel <=> p \in getProfiles(Label)
    BY <1>2, BaseFacts DEF NewData, NoData, NoLabel, Operational
  <1> QED BY <1>5, <1>6, <1>7, <1>8

\* An attached profile whose data is written without a pending Enter has had
\* its Enter chain run.
LEMMA EnteredAfterPatch ==
  ASSUME TypeOK, Fresh, Working, Persisted, PatchApplied, NEW p \in Profiles,
         mem[p] # NoData, mem[p].previous = mem[p].current
  PROVE  p \in done'[cur]
  <1>1. /\ Busy /\ mem = Left /\ ~errs /\ cur \in Nodes /\ snap.data = api[cur].data
        /\ done'[cur] = DoneAfter(api[cur].data, mem, done[cur])
    BY PatchWrites DEF TypeOK
  <1>2. p \in getProfiles(Label) BY LeftShape
  <1>0. mem[p].current = Base[p].current
    <2>1. CASE p \in retry BY <2>1, LeftShape
    <2>2. CASE p \notin retry
      <3>1. mem[p] = [current |-> next[p], previous |-> Base[p].current] BY <2>2, LeftShape
      <3> QED BY <3>1
    <2> QED BY <2>1, <2>2
  <1>3. CASE api[cur].data[p] = NoData
    <2>1. Base[p] = NewData BY <1>1, <1>2, <1>3, BaseFacts
    <2>2. mem[p].current = Operational BY <2>1, <1>0 DEF NewData
    <2> QED BY <1>1, <1>3, <2>2 DEF DoneAfter
  <1>4. CASE api[cur].data[p] # NoData
    <2>1. Base[p] = api[cur].data[p] BY <1>1, <1>2, <1>4, BaseFacts
    <2>2. mem[p].current = api[cur].data[p].current BY <2>1, <1>0
    <2>3. CASE p \in retry
      <3>1. mem[p] = api[cur].data[p] BY <2>1, <2>3, LeftShape
      <3>2. p \in done[cur] BY <1>1, <1>4, <3>1 DEF Persisted
      <3> QED BY <1>1, <2>2, <3>2 DEF DoneAfter
    <2>4. CASE p \notin retry
      <3>1. PICK j \in DOMAIN LoopNames : LoopNames[j] = p BY <1>2, Positions
      <3>2. j \in 1..(idx - 1)
        <4>1. j \in 1..Len(LoopNames) /\ Len(LoopNames) \in Nat BY LoopNamesType
        <4>2. idx > Len(LoopNames) /\ idx \in Nat BY DEF Working, PatchApplied, TypeOK
        <4> QED BY <4>1, <4>2
      <3>3. LoopEntered BY <1>1 DEF Working
      <3>4. p \in done[cur] BY <1>1, <1>4, <2>4, <3>1, <3>2, <3>3 DEF LoopEntered
      <3> QED BY <1>1, <2>2, <3>4 DEF DoneAfter
    <2> QED BY <2>3, <2>4
  <1> QED BY <1>3, <1>4

\* Every step of the reliable controller keeps Persisted.
LEMMA PersistedStep ==
  ASSUME Reliable, TypeOK, Fresh, Working, Persisted, [Next]_vars
  PROVE  Persisted'
  <1> USE DEF cluster, work
  <1>1. ASSUME UNCHANGED api, \A n \in Nodes : done[n] \subseteq done'[n] PROVE Persisted'
    BY <1>1 DEF Persisted
  <1>2. ASSUME NEW n \in Nodes, Deliver(n) PROVE Persisted' BY <1>2, <1>1 DEF Deliver
  <1>3. ASSUME NEW n \in Nodes, DeleteNode(n) PROVE Persisted'
    <2>1. /\ \A p \in Profiles : api'[n].data[p] = NoData
          /\ \A m \in Nodes \ {n} : api'[m] = api[m] /\ done'[m] = done[m]
      BY <1>3 DEF DeleteNode, EditNode, Put, Absent, NoProfiles, TypeOK
    <2> QED BY <2>1 DEF Persisted, NoData
  <1>4. ASSUME NEW n \in Nodes, NEW l \in Labels, Relabel(n, l) PROVE Persisted'
    <2>1. \A m \in Nodes : api'[m].data = api[m].data
      BY <1>4 DEF Relabel, EditNode, Put, TypeOK, NodeObject
    <2> QED BY <1>4, <2>1 DEF Relabel, Persisted
  <1>5. ASSUME NEW n \in Nodes, NEW l \in Labels, CreateNode(n, l) PROVE Persisted'
    BY <1>5 DEF CreateNode, Reliable
  <1>6. CASE EditConfig BY <1>6, <1>1 DEF EditConfig
  <1>7. ASSUME NEW n \in Nodes, Reconcile(n) PROVE Persisted'
    BY <1>7, <1>1 DEF Reconcile, ReconcileMisconfigured, ReconcileDeleted, ReconcileStart
  <1>8. CASE SkipUnknown BY <1>8, <1>1 DEF SkipUnknown
  <1>9. CASE ApplyProfile
    <2>1. UNCHANGED api BY <1>9 DEF ApplyProfile
    <2>2. \A n \in Nodes : done[n] \subseteq done'[n]
      BY <1>9 DEF ApplyProfile, TypeOK
    <2> QED BY <2>1, <2>2, <1>1
  <1>10. CASE ApplyFailed \/ NothingToPatch \/ CommitProfiles
    BY <1>10, <1>1 DEF ApplyFailed, NothingToPatch, CommitProfiles, LoopDone
  <1>11. CASE PatchApplied
    <2>1. /\ cur \in Nodes /\ api'[cur].data = mem
          /\ \A n \in Nodes \ {cur} : api'[n] = api[n] /\ done'[n] = done[n]
      BY <1>11, PatchWrites DEF TypeOK
    <2>2. \A p \in Profiles : mem[p].current = NoLabel <=> mem[p] = NoData
      BY <1>11, LeftShape
    <2>3. \A p \in Profiles :
            mem[p] # NoData /\ mem[p].previous = mem[p].current => p \in done'[cur]
      BY <1>11, EnteredAfterPatch
    <2> QED BY <2>1, <2>2, <2>3 DEF Persisted
  <1>12. CASE PatchRejected BY <1>12, <1>1 DEF PatchRejected
  <1>13. CASE PollCacheUpdate \/ PollTimeout BY <1>13, <1>1 DEF PollCacheUpdate, PollTimeout
  <1>14. CASE Restart BY <1>14, <1>1 DEF Restart
  <1>15. CASE UNCHANGED vars BY <1>15, <1>1 DEF vars
  <1> QED
    BY <1>2, <1>3, <1>4, <1>5, <1>6, <1>7, <1>8, <1>9, <1>10, <1>11, <1>12, <1>13, <1>14, <1>15
    DEF Next, Environment, Worker

\* Every step of the reliable controller keeps the label and the data together.
LEMMA LabelStep ==
  ASSUME Reliable, TypeOK, Fresh, Working, Persisted, LabelReflectsData, [Next]_vars
  PROVE  LabelReflectsData'
  <1> USE DEF cluster, work
  <1>1. ASSUME \A n \in Nodes : api'[n].state = api[n].state /\ api'[n].data = api[n].data
        PROVE  LabelReflectsData'
    BY <1>1 DEF LabelReflectsData, HasState
  <1>2. ASSUME NEW n \in Nodes, Deliver(n) PROVE LabelReflectsData' BY <1>2, <1>1 DEF Deliver
  <1>3. ASSUME NEW n \in Nodes, DeleteNode(n) PROVE LabelReflectsData'
    <2>1. /\ api'[n].state = NoLabel /\ \A p \in Profiles : api'[n].data[p] = NoData
          /\ \A m \in Nodes \ {n} : api'[m] = api[m]
      BY <1>3 DEF DeleteNode, EditNode, Put, Absent, NoProfiles, TypeOK
    <2> QED
      BY <2>1 DEF LabelReflectsData, HasState, NoData, NoLabel, InMaintenance, Required
  <1>4. ASSUME NEW n \in Nodes, NEW l \in Labels, Relabel(n, l) PROVE LabelReflectsData'
    BY <1>4, <1>1 DEF Relabel, EditNode, Put, TypeOK, NodeObject
  <1>5. ASSUME NEW n \in Nodes, NEW l \in Labels, CreateNode(n, l) PROVE LabelReflectsData'
    BY <1>5 DEF CreateNode, Reliable
  <1>6. CASE EditConfig BY <1>6, <1>1 DEF EditConfig
  <1>7. ASSUME NEW n \in Nodes, Reconcile(n) PROVE LabelReflectsData'
    BY <1>7, <1>1 DEF Reconcile, ReconcileMisconfigured, ReconcileDeleted, ReconcileStart
  <1>8. CASE SkipUnknown \/ ApplyProfile BY <1>8, <1>1 DEF SkipUnknown, ApplyProfile
  <1>9. CASE ApplyFailed \/ NothingToPatch \/ CommitProfiles
    BY <1>9, <1>1 DEF ApplyFailed, NothingToPatch, CommitProfiles, LoopDone
  <1>10. CASE PatchApplied
    <2>1. /\ cur \in Nodes /\ api'[cur].data = mem /\ api'[cur].state = StateLabel(mem)
          /\ \A n \in Nodes \ {cur} : api'[n] = api[n]
      BY <1>10, PatchWrites
    <2>2. \A p \in Profiles : mem[p].current # NoLabel => p \in getProfiles(Label)
      BY <1>10, LeftShape
    <2>3. \A st \in States : HasState(api'[cur], st) <=>
                             st \in {mem[p].current : p \in getProfiles(Label)}
      BY <2>1, <2>2
      DEF HasState, getProfiles, States, NoLabel, Operational, Required, InMaintenance
    <2>4. /\ StateLabel(mem) = InMaintenance <=> HasState(api'[cur], InMaintenance)
          /\ StateLabel(mem) = Required <=>
               HasState(api'[cur], Required) /\ ~HasState(api'[cur], InMaintenance)
      BY <2>3
      DEF StateLabel, UpdateMaintenanceStateLabel, States, Operational, Required, InMaintenance
    <2> QED BY <2>1, <2>4 DEF LabelReflectsData, HasState
  <1>11. CASE PatchRejected BY <1>11, <1>1 DEF PatchRejected
  <1>12. CASE PollCacheUpdate \/ PollTimeout BY <1>12, <1>1 DEF PollCacheUpdate, PollTimeout
  <1>13. CASE Restart BY <1>13, <1>1 DEF Restart
  <1>14. CASE UNCHANGED vars BY <1>14, <1>1 DEF vars
  <1> QED
    BY <1>2, <1>3, <1>4, <1>5, <1>6, <1>7, <1>8, <1>9, <1>10, <1>11, <1>12, <1>13, <1>14
    DEF Next, Environment, Worker

-----------------------------------------------------------------------------
(* The invariant *)

\* The initial state satisfies the inductive invariant.
LEMMA IInvInit == Init => IInv
  <1> SUFFICES ASSUME Init PROVE IInv OBVIOUS
  <1>1. TypeOK BY TypeInit
  <1>2. Fresh
    <2>1. \A n \in Nodes : Len(watch[n]) = 0 /\ Lag(n) = 0 BY DEF Init, Lag
    <2>2. \A n \in Nodes : \A i \in 0..0 : Version(n, i) = api[n] BY DEF Init, Version
    <2> QED BY <2>1, <2>2 DEF Init, Fresh, Agree
  <1>3. Working BY DEF Init, Working, Busy
  <1>4. /\ \A n \in Nodes : api[n].state = NoLabel
        /\ \A n \in Nodes : \A p \in Profiles : api[n].data[p] = NoData
    BY DEF Init, NewNode, NoProfiles
  <1>5. Persisted BY <1>4 DEF Persisted, NoData
  <1>6. LabelReflectsData
    BY <1>4 DEF LabelReflectsData, HasState, NoData, NoLabel, InMaintenance, Required
  <1> QED BY <1>1, <1>2, <1>3, <1>5, <1>6 DEF IInv

\* Every step of the reliable controller keeps the inductive invariant.
LEMMA IInvStep == Reliable /\ IInv /\ [Next]_vars => IInv'
  <1> SUFFICES ASSUME Reliable, IInv, [Next]_vars PROVE IInv' OBVIOUS
  <1>1. TypeOK /\ Fresh /\ Working /\ Persisted /\ LabelReflectsData BY DEF IInv
  <1>2. TypeOK' BY <1>1, TypeStep
  <1> QED BY <1>1, <1>2, FreshStep, WorkingStep, PersistedStep, LabelStep DEF IInv

\* The inductive invariant holds as long as the worker reads its own writes.
LEMMA IInvCorrect == ASSUME Reliable PROVE Spec => []IInv
  <1>1. IInv /\ [Next]_vars => IInv' BY IInvStep
  <1> QED BY <1>1, IInvInit, PTL DEF Spec

\* The persisted label and the persisted data never disagree, for any number of
\* nodes, profiles and transitions, through crashes, edited labels, deletions,
\* rejected patches and failing plugins.
THEOREM LabelCorrect == ASSUME Reliable PROVE Spec => []LabelReflectsData
  <1>1. IInv => LabelReflectsData BY DEF IInv
  <1> QED BY <1>1, IInvCorrect, PTL
=============================================================================
