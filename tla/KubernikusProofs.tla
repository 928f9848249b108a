--------------------------- MODULE KubernikusProofs ---------------------------
(***************************************************************************)
(* Proofs about Kubernikus, for any number of nodes, pods and workers.     *)
(***************************************************************************)
EXTENDS Kubernikus, TLAPS

\* What the safety of deletions needs: OpenStack lists no server under the name of
\* another one.
OwnServerOnly == \A n \in Nodes : Matches[n] = {n}

\* Changing one field of a node object gives a node object.
LEMMA ObjectType ==
  ASSUME NEW obj \in NodeObject
  PROVE  /\ [obj EXCEPT !.delete = ~@] \in NodeObject
         /\ \A b \in BOOLEAN : /\ [obj EXCEPT !.exists = b] \in NodeObject
                               /\ [obj EXCEPT !.cordoned = b] \in NodeObject
         /\ \A u \in {"none", "true", "false"} : [obj EXCEPT !.update = u] \in NodeObject
         /\ NewNode(obj.version) \in NodeObject
  BY DEF NodeObject, NewNode

\* Ending a reconciliation, or going on with a node object, keeps the types.
LEMMA ContinueType ==
  ASSUME TypeOK, NEW n \in Nodes, NEW obj \in NodeObject,
         NEW step \in {"idle", "mark", "cordon", "drain", "delete"},
         Continue(n, step, obj) \/ Return(n)
  PROVE  /\ pc' \in [Nodes -> {"idle", "mark", "cordon", "drain", "delete"}]
         /\ copy' \in [Nodes -> NodeObject]
  <1>1. copy[n] \in NodeObject BY DEF TypeOK
  <1>2. NewNode(copy[n].version) \in NodeObject BY <1>1, ObjectType
  <1> QED BY <1>2 DEF Continue, Return, TypeOK

\* Steps of the environment keep the types.
LEMMA EnvironmentType == TypeOK /\ Environment => TypeOK'
  <1> SUFFICES ASSUME TypeOK, Environment PROVE TypeOK' OBVIOUS
  <1>1. CASE Outage
    <2>1. outage' \in BOOLEAN BY <1>1 DEF Outage
    <2> QED BY <1>1, <2>1 DEF Outage, TypeOK
  <1>2. CASE UpgradeServer BY <1>2 DEF UpgradeServer, TypeOK
  <1>3. ASSUME NEW n \in Nodes, EditDelete(n) \/ UncordonByOthers(n) PROVE TypeOK'
    <2>1. api[n] \in NodeObject BY DEF TypeOK
    <2>2. /\ [api[n] EXCEPT !.delete = ~@] \in NodeObject
          /\ [api[n] EXCEPT !.cordoned = FALSE] \in NodeObject
      BY <2>1, ObjectType
    <2>3. api' \in [Nodes -> NodeObject]
      BY <1>3, <2>2 DEF EditDelete, UncordonByOthers, EditNode, TypeOK
    <2>4. /\ UNCHANGED <<cache, server, outage, vm, pods, pc, copy>>
          /\ uncordoned' \subseteq Nodes
      BY <1>3 DEF EditDelete, UncordonByOthers, EditNode, TypeOK
    <2> QED BY <2>3, <2>4 DEF TypeOK
  <1>4. ASSUME NEW n \in Nodes, NodeRemoved(n) PROVE TypeOK'
    <2>1. api[n] \in NodeObject BY DEF TypeOK
    <2>2. [api[n] EXCEPT !.exists = FALSE] \in NodeObject BY <2>1, ObjectType
    <2>3. NoPods \in PodMap BY DEF NoPods, PodMap, PodStates
    <2> QED BY <1>4, <2>2, <2>3 DEF NodeRemoved, EditNode, TypeOK
  <1>5. ASSUME NEW n \in Nodes, ServerLost(n) \/ ServerGone(n) PROVE TypeOK'
    BY <1>5 DEF ServerLost, ServerGone, TypeOK
  <1>6. ASSUME NEW n \in Nodes, Deliver(n) PROVE TypeOK'
    BY <1>6 DEF Deliver, TypeOK
  <1>7. ASSUME NEW n \in Nodes, NEW p \in Pods, NEW s \in PodStates, PodStep(n, p, s)
        PROVE  TypeOK'
    <2>1. [pods[n] EXCEPT ![p] = s] \in PodMap BY DEF TypeOK, PodMap
    <2> QED BY <1>7, <2>1 DEF PodStep, TypeOK
  <1>8. ASSUME NEW n \in Nodes, NEW p \in Pods,
               Schedule(n, p) \/ GraceExceeded(n, p) \/ PodStops(n, p)
        PROVE  TypeOK'
    BY <1>7, <1>8 DEF Schedule, GraceExceeded, PodStops, PodStates
  <1> QED BY <1>1, <1>2, <1>3, <1>4, <1>5, <1>6, <1>8 DEF Environment

\* Steps of a reconciliation keep the types.
LEMMA ReconcileType ==
  ASSUME TypeOK, NEW n \in Nodes, Get(n) \/ Reconcile(n)
  PROVE  TypeOK'
  <1>1. api[n] \in NodeObject /\ cache[n] \in NodeObject /\ copy[n] \in NodeObject
    BY DEF TypeOK
  <1>2. CASE Get(n) BY <1>1, <1>2, ContinueType DEF Get, TypeOK
  <1>3. CASE markUpdate(n)
    <2> DEFINE value == needsKubeletUpdate(copy[n])
               new == [api[n] EXCEPT !.update = IF copy[n].update # value THEN value ELSE @]
    <2>1. new \in NodeObject BY <1>1 DEF needsKubeletUpdate, NodeObject
    <2>2. api' = [api EXCEPT ![n] = new] BY <1>3 DEF markUpdate, Patch
    <2>3. api' \in [Nodes -> NodeObject] /\ api'[n] \in NodeObject BY <2>1, <2>2 DEF TypeOK
    <2>4. /\ Continue(n, "cordon", api'[n]) \/ Return(n)
          /\ UNCHANGED <<cache, server, outage, vm, pods>> /\ uncordoned' \subseteq Nodes
      BY <1>3 DEF markUpdate, TypeOK
    <2>5. /\ pc' \in [Nodes -> {"idle", "mark", "cordon", "drain", "delete"}]
          /\ copy' \in [Nodes -> NodeObject]
      BY <2>3, <2>4, ContinueType
    <2> QED BY <2>3, <2>4, <2>5 DEF TypeOK
  <1>4. CASE markFails(n) BY <1>1, <1>4, ContinueType DEF markFails, PatchFails, TypeOK
  <1>5. CASE Cordon(n)
    <2>1. [api[n] EXCEPT !.cordoned = TRUE] \in NodeObject BY <1>1, ObjectType
    <2>2. api' \in [Nodes -> NodeObject]
      BY <1>5, <2>1 DEF Cordon, Patch, PatchFails, TypeOK
    <2>3. /\ \E obj \in NodeObject : Continue(n, "drain", obj) \/ Return(n)
          /\ UNCHANGED <<cache, server, outage, vm, pods>> /\ uncordoned' \subseteq Nodes
      BY <1>1, <1>5, <2>2 DEF Cordon, TypeOK
    <2>4. /\ pc' \in [Nodes -> {"idle", "mark", "cordon", "drain", "delete"}]
          /\ copy' \in [Nodes -> NodeObject]
      BY <2>3, ContinueType
    <2> QED BY <2>2, <2>3, <2>4 DEF TypeOK
  <1>6. CASE DrainNode(n)
    <2>1. PICK new \in PodMap : pods' = [pods EXCEPT ![n] = new] BY <1>6 DEF DrainNode
    <2>2. /\ Continue(n, "delete", copy[n]) \/ Return(n)
          /\ UNCHANGED <<api, cache, server, outage, vm, uncordoned>>
      BY <1>6 DEF DrainNode
    <2>3. /\ pc' \in [Nodes -> {"idle", "mark", "cordon", "drain", "delete"}]
          /\ copy' \in [Nodes -> NodeObject]
      BY <1>1, <2>2, ContinueType
    <2> QED BY <2>1, <2>2, <2>3 DEF TypeOK
  <1>7. CASE deleteVM(n)
    <2>1. vm' \in [Nodes -> {"on", "deleting", "gone"}] BY <1>7 DEF deleteVM, TypeOK
    <2>2. /\ Return(n) /\ UNCHANGED <<api, cache, server, outage, pods, uncordoned>>
      BY <1>7 DEF deleteVM
    <2> QED BY <1>1, <2>1, <2>2, ContinueType DEF TypeOK
  <1>8. CASE deleteFails(n) BY <1>1, <1>8, ContinueType DEF deleteFails, TypeOK
  <1> QED BY <1>2, <1>3, <1>4, <1>5, <1>6, <1>7, <1>8 DEF Reconcile

\* Every step keeps the types.
LEMMA TypeStep == TypeOK /\ [Next]_vars => TypeOK'
  <1> SUFFICES ASSUME TypeOK, [Next]_vars PROVE TypeOK' OBVIOUS
  <1>1. CASE Restart
    <2>1. \A n \in Nodes : NewNode(copy[n].version) \in NodeObject
      BY ObjectType DEF TypeOK
    <2> QED BY <1>1, <2>1 DEF Restart, TypeOK
  <1>2. CASE UNCHANGED vars BY <1>2 DEF vars, TypeOK
  <1> QED BY <1>1, <1>2, EnvironmentType, ReconcileType DEF Next

\* Every variable keeps its type, whatever fails and however many nodes are
\* reconciled at a time.
THEOREM KubernikusTypeCorrect == Spec => []TypeOK
  <1>1. Init => TypeOK
    <2> SUFFICES ASSUME Init PROVE TypeOK OBVIOUS
    <2>1. PICK v \in [Nodes -> Versions] : api = [n \in Nodes |-> NewNode(v[n])] BY DEF Init
    <2>2. \A n \in Nodes : NewNode(v[n]) \in NodeObject BY DEF NewNode, NodeObject
    <2>3. NoPods \in PodMap BY DEF NoPods, PodMap, PodStates
    <2> QED BY <2>1, <2>2, <2>3 DEF Init, TypeOK
  <1> QED BY <1>1, TypeStep, PTL DEF Spec

-----------------------------------------------------------------------------
(* A deleted server was empty *)

\* What a reconciliation of node n has achieved at the step it has reached.
Progress(n) ==
  /\ n \notin uncordoned =>
       /\ pc[n] = "cordon" /\ copy[n].cordoned => api[n].cordoned
       /\ pc[n] \in {"drain", "delete"} => api[n].cordoned
  /\ pc[n] = "delete" /\ api[n].cordoned => Pending(pods[n]) = {}

KInv == TypeOK /\ \A n \in Nodes : Progress(n)

\* A step that leaves the reconciliation of a node, its cordon and its pods alone
\* keeps what was achieved.
LEMMA ProgressUnchanged ==
  ASSUME NEW n \in Nodes, Progress(n),
         pc'[n] = pc[n], copy'[n] = copy[n], api'[n].cordoned = api[n].cordoned,
         pods'[n] = pods[n], n \in uncordoned' <=> n \in uncordoned
  PROVE  Progress(n)'
  BY DEF Progress, Pending

\* So does a step after which the node is not worked on, or only just begun.
LEMMA ProgressIdle ==
  ASSUME NEW n \in Nodes, pc'[n] \in {"idle", "mark"} PROVE Progress(n)'
  BY DEF Progress

\* Steps of the environment: pods only come to nodes that are not cordoned.
LEMMA EnvironmentProgress ==
  ASSUME KInv, Environment, NEW m \in Nodes
  PROVE  Progress(m)'
  <1>t. TypeOK /\ Progress(m) BY DEF KInv
  <1>1. CASE Outage \/ UpgradeServer
    BY <1>1, <1>t, ProgressUnchanged DEF Outage, UpgradeServer
  <1>2. ASSUME NEW n \in Nodes, EditDelete(n) PROVE Progress(m)'
    <2>1. api[n] \in NodeObject BY <1>t DEF TypeOK
    <2>2. api'[m].cordoned = api[m].cordoned
      BY <1>2, <1>t, <2>1 DEF EditDelete, EditNode, TypeOK, NodeObject
    <2> QED BY <1>2, <1>t, <2>2, ProgressUnchanged DEF EditDelete, EditNode
  <1>3. ASSUME NEW n \in Nodes, UncordonByOthers(n) PROVE Progress(m)'
    <2>1. api[n] \in NodeObject BY <1>t DEF TypeOK
    <2>2. CASE m # n
      BY <1>3, <1>t, <2>2, ProgressUnchanged DEF UncordonByOthers, EditNode, TypeOK
    <2>3. CASE m = n
      <3>1. n \in uncordoned' /\ ~api'[n].cordoned
        BY <1>3, <1>t, <2>1 DEF UncordonByOthers, EditNode, TypeOK, NodeObject
      <3> QED BY <2>3, <3>1 DEF Progress
    <2> QED BY <2>2, <2>3
  <1>4. ASSUME NEW n \in Nodes, NodeRemoved(n) PROVE Progress(m)'
    <2>1. api[n] \in NodeObject BY <1>t DEF TypeOK
    <2>2. api'[m].cordoned = api[m].cordoned
      BY <1>4, <1>t, <2>1 DEF NodeRemoved, EditNode, TypeOK, NodeObject
    <2>3. UNCHANGED <<pc, copy, uncordoned>> BY <1>4 DEF NodeRemoved, EditNode
    <2>4. pods'[m] = pods[m] \/ pods'[m] = NoPods BY <1>4, <1>t DEF NodeRemoved, TypeOK
    <2>5. Pending(NoPods) = {} BY DEF Pending, NoPods
    <2> QED BY <1>t, <2>2, <2>3, <2>4, <2>5 DEF Progress
  <1>5. ASSUME NEW n \in Nodes, ServerLost(n) \/ ServerGone(n) \/ Deliver(n)
        PROVE  Progress(m)'
    BY <1>5, <1>t, ProgressUnchanged DEF ServerLost, ServerGone, Deliver
  <1>6. ASSUME NEW n \in Nodes, NEW p \in Pods,
               Schedule(n, p) \/ GraceExceeded(n, p) \/ PodStops(n, p)
        PROVE  Progress(m)'
    <2>1. UNCHANGED <<api, pc, copy, uncordoned>> /\ (m # n => pods'[m] = pods[m])
      BY <1>6, <1>t DEF Schedule, GraceExceeded, PodStops, PodStep, TypeOK
    <2>2. CASE m # n BY <1>t, <2>1, <2>2, ProgressUnchanged
    <2>3. CASE m = n /\ ~(pc[m] = "delete" /\ api[m].cordoned)
      BY <1>t, <2>1, <2>3 DEF Progress
    <2>4. CASE m = n /\ pc[m] = "delete" /\ api[m].cordoned
      <3>1. Pending(pods[n]) = {} /\ api[n].cordoned BY <1>t, <2>4 DEF Progress
      <3>2. pods[n][p] = "gone" BY <3>1 DEF Pending
      <3> QED BY <1>6, <3>1, <3>2 DEF Schedule, GraceExceeded, PodStops
    <2> QED BY <2>2, <2>3, <2>4
  <1> QED BY <1>1, <1>2, <1>3, <1>4, <1>5, <1>6 DEF Environment

\* Steps of a reconciliation: cordon, drain and deletion follow upon each other.
LEMMA ReconcileProgress ==
  ASSUME KInv, NEW n \in Nodes, Get(n) \/ Reconcile(n), NEW m \in Nodes
  PROVE  Progress(m)'
  <1>t. TypeOK /\ Progress(m) /\ Progress(n) BY DEF KInv
  <1>a. api[n] \in NodeObject BY <1>t DEF TypeOK
  <1>1. CASE m # n
    <2>1. pc'[m] = pc[m] /\ copy'[m] = copy[m]
      BY <1>1, <1>t DEF Get, Reconcile, markUpdate, markFails, Cordon, DrainNode, deleteVM,
                        deleteFails, Continue, Return, TypeOK
    <2>2. api'[m] = api[m] /\ pods'[m] = pods[m] /\ (m \in uncordoned' <=> m \in uncordoned)
      BY <1>1, <1>t DEF Get, Reconcile, markUpdate, markFails, Cordon, DrainNode, deleteVM,
                        deleteFails, Patch, PatchFails, TypeOK
    <2> QED BY <1>t, <2>1, <2>2, ProgressUnchanged
  <1>2. CASE m = n
    <2>1. CASE Get(n) \/ markFails(n) \/ deleteVM(n) \/ deleteFails(n)
      <3>1. pc'[n] \in {"idle", "mark"}
        BY <1>t, <2>1 DEF Get, markFails, deleteVM, deleteFails, Continue, Return, TypeOK
      <3> QED BY <1>2, <3>1, ProgressIdle
    <2>2. CASE markUpdate(n)
      <3>1. \/ Return(n) \/ Continue(n, "cordon", api'[n]) BY <2>2 DEF markUpdate
      <3>2. \/ pc'[n] = "idle"
            \/ pc'[n] = "cordon" /\ copy'[n] = api'[n]
        BY <1>t, <3>1 DEF Return, Continue, TypeOK
      <3> QED BY <1>2, <3>2 DEF Progress
    <2>3. CASE Cordon(n)
      <3>1. CASE Return(n)
        BY <1>2, <1>t, <3>1, ProgressIdle DEF Return, Continue, TypeOK
      <3>2. CASE ~Return(n)
        <4>1. pc[n] = "cordon" /\ pc'[n] = "drain"
          BY <1>t, <2>3, <3>2 DEF Cordon, Continue, TypeOK
        <4>2. n \notin uncordoned' => api'[n].cordoned
          BY <1>t, <1>a, <2>3, <3>2, <4>1 DEF Cordon, Patch, Progress, TypeOK, NodeObject
        <4> QED BY <1>2, <4>1, <4>2 DEF Progress
      <3> QED BY <3>1, <3>2
    <2>4. CASE DrainNode(n)
      <3>1. PICK new \in PodMap, result \in {"drained", "pending", "error"} :
              /\ EnsureDrain(pods[n], FALSE, Fails("eviction"), new, result)
              /\ pods' = [pods EXCEPT ![n] = new]
              /\ IF result = "drained" THEN Continue(n, "delete", copy[n]) ELSE Return(n)
        BY <2>4 DEF DrainNode
      <3>2. CASE result = "drained"
        <4>1. Pending(new) = {} BY <3>1, <3>2 DEF EnsureDrain
        <4>2. pc[n] = "drain" /\ UNCHANGED <<api, uncordoned>> BY <2>4 DEF DrainNode
        <4>3. pods'[n] = new /\ pc'[n] = "delete"
          BY <1>t, <3>1, <3>2 DEF Continue, TypeOK
        <4> QED BY <1>2, <1>t, <4>1, <4>2, <4>3 DEF Progress
      <3>3. CASE result # "drained"
        BY <1>2, <1>t, <3>1, <3>3, ProgressIdle DEF Return, Continue, TypeOK
      <3> QED BY <3>2, <3>3
    <2> QED BY <2>1, <2>2, <2>3, <2>4 DEF Reconcile
  <1> QED BY <1>1, <1>2

\* KInv is inductive.
LEMMA KInvCorrect == Spec => []KInv
  <1>1. Init => KInv
    <2> SUFFICES ASSUME Init PROVE KInv OBVIOUS
    <2>1. \A n \in Nodes : Progress(n) BY DEF Init, Progress
    <2>2. PICK v \in [Nodes -> Versions] : api = [n \in Nodes |-> NewNode(v[n])] BY DEF Init
    <2>3. \A n \in Nodes : NewNode(v[n]) \in NodeObject BY DEF NewNode, NodeObject
    <2>4. NoPods \in PodMap BY DEF NoPods, PodMap, PodStates
    <2> QED BY <2>1, <2>2, <2>3, <2>4 DEF Init, TypeOK, KInv
  <1>2. KInv /\ [Next]_vars => KInv'
    <2> SUFFICES ASSUME KInv, [Next]_vars, NEW m \in Nodes PROVE Progress(m)'
      BY TypeStep DEF KInv
    <2>1. CASE Restart BY <2>1, ProgressIdle DEF Restart
    <2>2. CASE UNCHANGED vars BY <2>2, ProgressUnchanged DEF vars, KInv
    <2> QED BY <2>1, <2>2, EnvironmentProgress, ReconcileProgress DEF Next
  <1> QED BY <1>1, <1>2, PTL DEF Spec

\* Whenever deleteVM deletes a server, its node is drained and cordoned, unless others
\* uncordoned it behind the back of the reconciliation that deletes it, for any number of workers and with crashes and outages at any step, as
\* long as every name lists its own server only.
THEOREM DeletedEmptyCorrect == ASSUME OwnServerOnly PROVE Spec => DeletedEmpty
  <1> DEFINE Safe(n) == /\ n \notin uncordoned => api[n].cordoned
                        /\ api[n].cordoned => Pending(pods[n]) = {}
  <1>1. KInv /\ [Next]_vars =>
          [\A n \in Nodes : vm[n] = "on" /\ vm'[n] = "deleting" => Safe(n)]_vars
    <2> SUFFICES ASSUME KInv, Next, NEW n \in Nodes, vm[n] = "on", vm'[n] = "deleting"
                 PROVE  Safe(n)
      OBVIOUS
    <2>t. TypeOK BY DEF KInv
    <2>1. CASE Environment \/ Restart
      <3>1. vm'[n] # "deleting"
        BY <2>t, <2>1 DEF Environment, Outage, UpgradeServer, EditDelete, UncordonByOthers,
             EditNode, ServerLost, ServerGone, NodeRemoved, Deliver, Schedule, GraceExceeded,
             PodStops, PodStep, Restart, TypeOK
      <3> QED BY <3>1
    <2>2. ASSUME NEW m \in Nodes, Get(m) \/ Reconcile(m)
          PROVE  Safe(n)
      <3>1. deleteVM(m)
        BY <2>2 DEF Get, Reconcile, markUpdate, markFails, Cordon, DrainNode, deleteFails
      <3>2. n \in Listed(m) BY <2>t, <3>1 DEF deleteVM, TypeOK
      <3>3. n = m BY <3>2 DEF Listed, OwnServerOnly
      <3>4. pc[n] = "delete" BY <3>1, <3>3 DEF deleteVM
      <3> QED BY <3>4 DEF KInv, Progress
    <2> QED BY <2>1, <2>2 DEF Next
  <1> QED BY <1>1, KInvCorrect, PTL DEF Spec, DeletedEmpty
===============================================================================
