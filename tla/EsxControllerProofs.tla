------------------------- MODULE EsxControllerProofs -------------------------
(***************************************************************************)
(* Proofs about EsxController, for any number of hosts, nodes and pods.    *)
(***************************************************************************)
EXTENDS EsxControllerInv, TLAPS

\* Changing one field of a node object gives a node object.
LEMMA ObjectType ==
  ASSUME NEW obj \in NodeObject
  PROVE  /\ \A m \in Maintenance : [obj EXCEPT !.maint = m] \in NodeObject
         /\ [obj EXCEPT !.rebootOk = ~@] \in NodeObject
         /\ \A b \in BOOLEAN : /\ [obj EXCEPT !.initiated = b] \in NodeObject
                               /\ [obj EXCEPT !.cordoned = b] \in NodeObject
  BY DEF NodeObject, Maintenance

\* A patch, successful or not, keeps the types of the objects and the copies.
LEMMA PatchType ==
  ASSUME TypeOK, NEW n \in Nodes, NEW obj \in NodeObject, Patch(n, obj) \/ PatchFails(n, obj)
  PROVE  api' \in [Nodes -> NodeObject] /\ copy' \in [Nodes -> NodeObject]
  BY DEF Patch, PatchFails, TypeOK

\* A node without labels is a node object.
LEMMA NewNodeType == NewNode \in NodeObject
  BY DEF NewNode, NodeObject

\* Steps of the environment keep the types.
LEMMA EnvironmentType == TypeOK /\ Environment => TypeOK'
  <1> SUFFICES ASSUME TypeOK, Environment PROVE TypeOK' OBVIOUS
  <1>1. CASE Outage
    <2>1. outage' \in BOOLEAN BY <1>1 DEF Outage
    <2> QED BY <1>1, <2>1 DEF Outage, TypeOK
  <1>2. ASSUME NEW h \in Hosts, SetHost(h) PROVE TypeOK'
    BY <1>2 DEF SetHost, TypeOK
  <1>3. ASSUME NEW n \in Nodes, NEW obj \in NodeObject, EditNode(n, obj) PROVE TypeOK'
    BY <1>3 DEF EditNode, TypeOK
  <1>4. ASSUME NEW n \in Nodes, EditRebootOk(n) \/ UncordonByOthers(n) PROVE TypeOK'
    <2>1. api[n] \in NodeObject BY DEF TypeOK
    <2>2. /\ [api[n] EXCEPT !.rebootOk = ~@] \in NodeObject
          /\ [api[n] EXCEPT !.cordoned = FALSE] \in NodeObject
      BY <2>1, ObjectType
    <2> QED BY <1>3, <1>4, <2>2 DEF EditRebootOk, UncordonByOthers
  <1>5. ASSUME NEW n \in Nodes, Deliver(n) PROVE TypeOK'
    BY <1>5 DEF Deliver, TypeOK
  <1>6. ASSUME NEW n \in Nodes, GuestStops(n) PROVE TypeOK'
    BY <1>6 DEF GuestStops, TypeOK
  <1>7. ASSUME NEW n \in Nodes, NEW p \in Pods, NEW s \in PodStates, PodStep(n, p, s)
        PROVE  TypeOK'
    <2>1. [pods[n] EXCEPT ![p] = s] \in PodMap BY DEF TypeOK, PodMap
    <2> QED BY <1>7, <2>1 DEF PodStep, TypeOK
  <1>8. ASSUME NEW n \in Nodes, NEW p \in Pods,
               Schedule(n, p) \/ GraceExceeded(n, p) \/ PodStops(n, p)
        PROVE  TypeOK'
    BY <1>7, <1>8 DEF Schedule, GraceExceeded, PodStops, PodStates
  <1> QED BY <1>1, <1>2, <1>4, <1>5, <1>6, <1>8 DEF Environment

\* Steps of a round that patch a node keep the types.
LEMMA PatchingType ==
  ASSUME TypeOK,
         \/ Uncordon \/ Unmark \/ Cordon
         \/ \E n \in Nodes : ensureLabel(n) \/ LabelFails(n) \/ Mark(n)
  PROVE  TypeOK'
  <1>1. ASSUME NEW n \in Nodes
        PROVE  /\ api[n] \in NodeObject /\ copy[n] \in NodeObject /\ esx.maint \in Maintenance
               /\ [api[n] EXCEPT !.maint = esx.maint] \in NodeObject
               /\ [copy[n] EXCEPT !.maint = esx.maint] \in NodeObject
               /\ \A b \in BOOLEAN : /\ [api[n] EXCEPT !.initiated = b] \in NodeObject
                                     /\ [copy[n] EXCEPT !.initiated = b] \in NodeObject
                                     /\ [api[n] EXCEPT !.cordoned = b] \in NodeObject
                                     /\ [copy[n] EXCEPT !.cordoned = b] \in NodeObject
    <2>1. api[n] \in NodeObject /\ copy[n] \in NodeObject /\ esx.maint \in Maintenance
      BY DEF TypeOK
    <2> QED BY <2>1, ObjectType
  <1>2. node \in Nodes BY DEF TypeOK
  <1>3. CASE Uncordon
    <2>1. api' \in [Nodes -> NodeObject] /\ copy' \in [Nodes -> NodeObject]
      BY <1>1, <1>2, <1>3, PatchType DEF Uncordon, TypeOK
    <2> QED BY <1>3, <2>1 DEF Uncordon, TypeOK
  <1>4. CASE Unmark
    <2>1. api' \in [Nodes -> NodeObject] /\ copy' \in [Nodes -> NodeObject]
      BY <1>1, <1>2, <1>4, PatchType DEF Unmark, TypeOK
    <2> QED BY <1>4, <2>1 DEF Unmark, TypeOK
  <1>5. CASE Cordon
    <2>1. api' \in [Nodes -> NodeObject] /\ copy' \in [Nodes -> NodeObject]
      BY <1>1, <1>2, <1>5, PatchType DEF Cordon, TypeOK
    <2> QED BY <1>5, <2>1 DEF Cordon, TypeOK
  <1>6. ASSUME NEW n \in Nodes, ensureLabel(n) PROVE TypeOK'
    <2>1. api' \in [Nodes -> NodeObject] /\ copy' \in [Nodes -> NodeObject]
      BY <1>1, <1>6, PatchType DEF ensureLabel
    <2> QED BY <1>6, <2>1 DEF ensureLabel, TypeOK
  <1>7. ASSUME NEW n \in Nodes, LabelFails(n) PROVE TypeOK'
    <2>1. api' \in [Nodes -> NodeObject] /\ copy' \in [Nodes -> NodeObject]
      BY <1>1, <1>7, PatchType DEF LabelFails
    <2> QED BY <1>7, <2>1 DEF LabelFails, TypeOK
  <1>8. ASSUME NEW n \in Nodes, Mark(n) PROVE TypeOK'
    <2>1. api' \in [Nodes -> NodeObject] /\ copy' \in [Nodes -> NodeObject]
      BY <1>1, <1>8, PatchType DEF Mark, TypeOK
    <2> QED BY <1>8, <2>1 DEF Mark, TypeOK
  <1> QED BY <1>3, <1>4, <1>5, <1>6, <1>7, <1>8

\* Every step keeps the types.
LEMMA TypeStep == TypeOK /\ [Next]_vars => TypeOK'
  <1> SUFFICES ASSUME TypeOK, [Next]_vars PROVE TypeOK' OBVIOUS
  <1> USE DEF cluster
  <1>1. CASE Environment BY <1>1, EnvironmentType
  <1>2. CASE RoundStart BY <1>2 DEF RoundStart, TypeOK
  <1>3. CASE RoundEnd \/ Restart
    <2>1. copy' \in [Nodes -> NodeObject] BY <1>3, NewNodeType DEF RoundEnd, Restart, Sleep
    <2> QED BY <1>3, <2>1 DEF RoundEnd, Restart, Sleep, TypeOK
  <1>4. CASE StartNodes \/ ShutdownNodes \/ HostDone
    BY <1>4 DEF StartNodes, ShutdownNodes, HostDone, NodesOn, TypeOK
  <1>5. CASE \/ Uncordon \/ Unmark \/ Cordon
             \/ \E n \in Nodes : ensureLabel(n) \/ LabelFails(n) \/ Mark(n)
    BY <1>5, PatchingType
  <1>6. CASE DrainNode
    BY <1>6 DEF DrainNode, TypeOK
  <1>7. CASE EnsureVMOff
    BY <1>7 DEF EnsureVMOff, TypeOK
  <1>8. ASSUME NEW h \in Hosts, CheckMaintenance(h) PROVE TypeOK'
    <2>1. esx' \in [name: Hosts, maint: Maintenance] BY <1>8 DEF CheckMaintenance, TypeOK
    <2> QED BY <1>8, <2>1 DEF CheckMaintenance, NodesOn, TypeOK
  <1>9. ASSUME NEW h \in Hosts, CheckFails(h) PROVE TypeOK'
    BY <1>9 DEF CheckFails, TypeOK
  <1>10. ASSUME NEW n \in Nodes, ensureVMOn(n) PROVE TypeOK'
    BY <1>10 DEF ensureVMOn, PowerOn, TypeOK
  <1>11. ASSUME NEW n \in Nodes, VMOnFails(n) PROVE TypeOK'
    BY <1>11 DEF VMOnFails, PowerOn, TypeOK
  <1>12. CASE UNCHANGED vars BY <1>12 DEF vars, TypeOK
  <1> QED
    BY <1>1, <1>2, <1>3, <1>4, <1>5, <1>6, <1>7, <1>8, <1>9, <1>10, <1>11, <1>12
    DEF Next, Round

\* The types hold in every state, whatever goes wrong.
THEOREM EsxTypeCorrect == Spec => []TypeOK
  <1>1. Init => TypeOK
    <2> SUFFICES ASSUME Init PROVE TypeOK OBVIOUS
    <2>1. /\ api \in [Nodes -> NodeObject] /\ cache \in [Nodes -> NodeObject]
          /\ copy \in [Nodes -> NodeObject]
      BY NewNodeType DEF Init
    <2>2. pods \in [Nodes -> PodMap] BY DEF Init, NoPods, PodMap, PodStates
    <2>3. outage \in BOOLEAN BY DEF Init
    <2>4. esx \in [name: Hosts, maint: Maintenance] BY DEF Init, Maintenance
    <2> QED BY <2>1, <2>2, <2>3, <2>4 DEF Init, TypeOK, Maintenance
  <1> QED BY <1>1, TypeStep, PTL DEF Spec

\* The invariant without the types.
Rest ==
  /\ CopiesTrue /\ ShuttingDown /\ StartingUp /\ NoLateGuest
  /\ LeftOnHost /\ EsxTaken /\ DownIsMarked /\ DownIsCordoned

\* Steps of the environment keep the invariant.
LEMMA EnvironmentSafe == ASSUME Steady, TypeOK, Rest, Environment PROVE Rest'
  <1>1. CASE Outage \/ (\E h \in Hosts : SetHost(h)) \/ (\E n \in Nodes : Deliver(n))
    <2>1. UNCHANGED <<api, vm, pods, pc, todo, esx, left, node, copy>>
      BY <1>1 DEF Outage, SetHost, Deliver
    <2> QED
      BY <2>1
      DEF Rest, CopiesTrue, InUse, ShuttingDown, StartingUp, NoLateGuest, LeftOnHost,
          EsxTaken, DownIsMarked, DownIsCordoned
  <1>2. ASSUME NEW n \in Nodes, EditRebootOk(n) PROVE Rest'
    <2>1. /\ UNCHANGED <<vm, pods, pc, todo, esx, left, node, copy>>
          /\ \A m \in Nodes : /\ api'[m].initiated = api[m].initiated
                              /\ api'[m].cordoned = api[m].cordoned
      BY <1>2 DEF EditRebootOk, EditNode, TypeOK, NodeObject
    <2>2. node \in Nodes BY DEF TypeOK
    <2> QED
      BY <2>1, <2>2
      DEF Rest, CopiesTrue, InUse, ShuttingDown, StartingUp, NoLateGuest, LeftOnHost,
          EsxTaken, DownIsMarked, DownIsCordoned
  <1>3. ASSUME NEW n \in Nodes, UncordonByOthers(n) \/ GuestStops(n) PROVE FALSE
    BY <1>3 DEF UncordonByOthers, GuestStops, Steady, Rest, NoLateGuest
  <1>4. ASSUME NEW n \in Nodes, NEW p \in Pods,
               Schedule(n, p) \/ GraceExceeded(n, p) \/ PodStops(n, p)
        PROVE  Rest'
    <2>1. /\ UNCHANGED <<api, vm, pc, todo, esx, left, node, copy>>
          /\ pc = "vmOff" => Pending(pods'[node]) = {}
      <3>1. UNCHANGED <<api, vm, pc, todo, esx, left, node, copy>>
        BY <1>4 DEF Schedule, GraceExceeded, PodStops, PodStep
      <3>2. ASSUME pc = "vmOff" PROVE Pending(pods'[node]) = {}
        <4>1. api[node].cordoned /\ \A q \in Pods : pods[node][q] = "gone"
          BY <3>2 DEF Rest, ShuttingDown, Pending
        <4>2. \A q \in Pods : pods'[node][q] = "gone"
          BY <1>4, <4>1 DEF Schedule, GraceExceeded, PodStops, PodStep, TypeOK, PodMap
        <4> QED BY <4>2 DEF Pending
      <3> QED BY <3>1, <3>2
    <2> QED
      BY <2>1
      DEF Rest, CopiesTrue, InUse, ShuttingDown, StartingUp, NoLateGuest, LeftOnHost,
          EsxTaken, DownIsMarked, DownIsCordoned
  <1> QED BY <1>1, <1>2, <1>3, <1>4 DEF Environment

\* Steps of a round that touch neither the objects nor the machines.
LEMMA BookkeepingSafe ==
  ASSUME Steady, TypeOK, Rest,
         \/ RoundStart \/ RoundEnd \/ Restart \/ StartNodes \/ ShutdownNodes \/ HostDone
         \/ \E h \in Hosts : CheckMaintenance(h) \/ CheckFails(h)
  PROVE  Rest'
  <1> USE DEF cluster
  <1>0. UNCHANGED <<api, vm, pods>>
    BY DEF RoundStart, RoundEnd, Restart, StartNodes, ShutdownNodes, HostDone,
           CheckMaintenance, CheckFails
  <1>1. NoLateGuest' /\ DownIsMarked' /\ DownIsCordoned'
    BY <1>0 DEF Rest, NoLateGuest, DownIsMarked, DownIsCordoned
  <1>2. pc' \in {"sleep", "host", "label", "start", "shutdown"}
    BY DEF RoundStart, RoundEnd, Restart, Sleep, StartNodes, ShutdownNodes, HostDone,
           CheckMaintenance, CheckFails
  <1>3. ShuttingDown' /\ StartingUp' BY <1>2 DEF ShuttingDown, StartingUp
  <1>4. EsxTaken'
    BY DEF Rest, EsxTaken, RoundStart, RoundEnd, Restart, Sleep, StartNodes, ShutdownNodes,
           HostDone, CheckMaintenance, CheckFails, TypeOK
  <1>5. LeftOnHost'
    BY DEF Rest, LeftOnHost, RoundStart, RoundEnd, Restart, Sleep, StartNodes, ShutdownNodes,
           HostDone, CheckMaintenance, CheckFails, NodesOn, TypeOK
  <1>6. CopiesTrue'
    <2>1. CASE RoundStart
      <3>1. \A n \in Nodes : /\ copy'[n].initiated = api[n].initiated
                             /\ copy'[n].cordoned = api[n].cordoned
        BY <2>1 DEF RoundStart, Written, Steady
      <3> QED BY <1>0, <3>1 DEF CopiesTrue, InUse
    <2>2. CASE RoundEnd \/ Restart
      BY <2>2 DEF RoundEnd, Restart, Sleep, CopiesTrue, InUse
    <2>3. CASE \/ StartNodes \/ ShutdownNodes \/ HostDone
               \/ \E h \in Hosts : CheckMaintenance(h) \/ CheckFails(h)
            <3>1. UNCHANGED copy
        BY <2>3 DEF StartNodes, ShutdownNodes, HostDone, CheckMaintenance, CheckFails
      <3>2. InUse' \subseteq InUse
        BY <2>3
        DEF InUse, StartNodes, ShutdownNodes, HostDone, CheckMaintenance, CheckFails,
            NodesOn, TypeOK
      <3> QED BY <1>0, <3>1, <3>2 DEF Rest, CopiesTrue
    <2> QED BY <2>1, <2>2, <2>3
  <1> QED BY <1>1, <1>3, <1>4, <1>5, <1>6 DEF Rest

\* Labelling a node keeps the invariant.
LEMMA LabelSafe ==
  ASSUME TypeOK, Rest, NEW n \in Nodes, ensureLabel(n) \/ LabelFails(n)
  PROVE  Rest'
  <1>1. /\ UNCHANGED <<vm, pods, todo, esx, node>>
        /\ pc = "label" /\ pc' \in {"label", "host"}
        /\ left' \subseteq left /\ n \in left
    BY DEF ensureLabel, LabelFails
  <1>2. /\ \A m \in Nodes : /\ api'[m].initiated = api[m].initiated
                            /\ api'[m].cordoned = api[m].cordoned
        /\ \A m \in Nodes \ {n} : copy'[m] = copy[m]
    <2>1. CASE ensureLabel(n)
      <3>1. /\ api' = [api EXCEPT ![n] = [api[n] EXCEPT !.maint = esx.maint]]
            /\ copy' = [copy EXCEPT ![n] = [api[n] EXCEPT !.maint = esx.maint]]
        BY <2>1 DEF ensureLabel, Patch
      <3>2. api[n] \in NodeObject BY DEF TypeOK
      <3>3. /\ [api[n] EXCEPT !.maint = esx.maint].initiated = api[n].initiated
            /\ [api[n] EXCEPT !.maint = esx.maint].cordoned = api[n].cordoned
        BY <3>2 DEF NodeObject
      <3> QED BY <3>1, <3>3 DEF TypeOK
    <2>2. CASE LabelFails(n)
      BY <2>2 DEF LabelFails, PatchFails, TypeOK
    <2> QED BY <2>1, <2>2
  <1>3. \/ copy'[n].initiated = api'[n].initiated /\ copy'[n].cordoned = api'[n].cordoned
        \/ copy'[n].initiated = copy[n].initiated /\ copy'[n].cordoned = copy[n].cordoned
    BY DEF ensureLabel, LabelFails, Patch, PatchFails, TypeOK, NodeObject
  <1>4. InUse' \subseteq InUse BY <1>1 DEF InUse
  <1>5. CopiesTrue' BY <1>2, <1>3, <1>4 DEF Rest, CopiesTrue, InUse
  <1>6. ShuttingDown' /\ StartingUp' BY <1>1 DEF ShuttingDown, StartingUp
  <1>7. NoLateGuest' /\ DownIsMarked' /\ DownIsCordoned'
    BY <1>1, <1>2 DEF Rest, NoLateGuest, DownIsMarked, DownIsCordoned
  <1>8. LeftOnHost' /\ EsxTaken' BY <1>1 DEF Rest, LeftOnHost, EsxTaken
  <1> QED BY <1>5, <1>6, <1>7, <1>8 DEF Rest

\* Starting a machine, uncordoning and unmarking its node keep the invariant.
LEMMA StartSafe ==
  ASSUME TypeOK, Rest, Uncordon \/ Unmark \/ \E n \in Nodes : ensureVMOn(n) \/ VMOnFails(n)
  PROVE  Rest'
  <1>1. ASSUME NEW n \in Nodes, ensureVMOn(n) PROVE Rest'
    <2>1. /\ UNCHANGED <<api, pods, todo, esx, copy>>
          /\ pc = "start" /\ pc' = "uncordon" /\ node' = n
          /\ left' \subseteq left /\ n \in left
      BY <1>1 DEF ensureVMOn
    <2>2. vm'[n] = "on" /\ \A m \in Nodes \ {n} : vm'[m] = vm[m]
      BY <1>1 DEF ensureVMOn, PowerOn, TypeOK, Rest, NoLateGuest
    <2>3. CopiesTrue' BY <2>1 DEF Rest, CopiesTrue, InUse
    <2>4. ShuttingDown' BY <2>1 DEF ShuttingDown
    <2>5. StartingUp' BY <2>1, <2>2 DEF Rest, StartingUp, LeftOnHost
    <2>6. NoLateGuest' /\ DownIsMarked' /\ DownIsCordoned'
      BY <2>1, <2>2 DEF Rest, NoLateGuest, DownIsMarked, DownIsCordoned
    <2>7. LeftOnHost' /\ EsxTaken' BY <2>1 DEF Rest, LeftOnHost, EsxTaken
    <2> QED BY <2>3, <2>4, <2>5, <2>6, <2>7 DEF Rest
  <1>2. CASE Uncordon \/ Unmark
    <2>1. /\ UNCHANGED <<vm, pods, todo, esx, left, node>>
          /\ pc \in {"uncordon", "unmark"} /\ pc' \in {"unmark", "start"}
          /\ node \in Nodes
      BY <1>2 DEF Uncordon, Unmark, TypeOK
    <2>2. vm[node] = "on" /\ HostOf[node] = esx.name BY <2>1 DEF Rest, StartingUp
    <2>3. /\ \A m \in Nodes \ {node} : api'[m] = api[m] /\ copy'[m] = copy[m]
          /\ \/ api'[node] = copy'[node]
             \/ /\ api'[node] = api[node]
                /\ copy'[node].initiated => copy[node].initiated
                /\ copy'[node].cordoned => copy[node].cordoned
      <3>1. CASE Uncordon
        <4>1. CASE UNCHANGED <<api, copy>> BY <4>1
        <4>2. CASE Patch(node, [api[node] EXCEPT !.cordoned = FALSE])
          BY <2>1, <4>2 DEF Patch, TypeOK
        <4>3. CASE PatchFails(node, [copy[node] EXCEPT !.cordoned = FALSE])
          BY <2>1, <4>3 DEF PatchFails, TypeOK, NodeObject
        <4> QED BY <3>1, <4>1, <4>2, <4>3 DEF Uncordon
      <3>2. CASE Unmark
        <4>1. CASE UNCHANGED <<api, copy>> BY <4>1
        <4>2. CASE Patch(node, [api[node] EXCEPT !.initiated = FALSE])
          BY <2>1, <4>2 DEF Patch, TypeOK
        <4>3. CASE PatchFails(node, [copy[node] EXCEPT !.initiated = FALSE])
          BY <2>1, <4>3 DEF PatchFails, TypeOK, NodeObject
        <4> QED BY <3>2, <4>1, <4>2, <4>3 DEF Unmark
      <3> QED BY <1>2, <3>1, <3>2
    <2>4. InUse' = InUse /\ node \in InUse BY <2>1, <2>2 DEF InUse
    <2>5. CopiesTrue' BY <2>1, <2>3, <2>4 DEF Rest, CopiesTrue, InUse
    <2>6. ShuttingDown' /\ StartingUp' BY <2>1, <2>2 DEF ShuttingDown, StartingUp
    <2>7. NoLateGuest' /\ DownIsMarked' /\ DownIsCordoned'
      BY <2>1, <2>2, <2>3 DEF Rest, NoLateGuest, DownIsMarked, DownIsCordoned
    <2>8. LeftOnHost' /\ EsxTaken' BY <2>1 DEF Rest, LeftOnHost, EsxTaken
    <2> QED BY <2>5, <2>6, <2>7, <2>8 DEF Rest
  <1>3. ASSUME NEW n \in Nodes, VMOnFails(n) PROVE Rest'
    <2>1. /\ UNCHANGED <<api, pods, todo, esx, copy, node>>
          /\ pc = "start" /\ pc' = "start" /\ left' \subseteq left
      BY <1>3 DEF VMOnFails
    <2>2. \A m \in Nodes : vm'[m] \in {vm[m], "on"}
      BY <1>3 DEF VMOnFails, PowerOn, TypeOK
    <2>3. CopiesTrue' BY <2>1 DEF Rest, CopiesTrue, InUse
    <2>4. ShuttingDown' /\ StartingUp' BY <2>1 DEF ShuttingDown, StartingUp
    <2>5. NoLateGuest' /\ DownIsMarked' /\ DownIsCordoned'
      BY <2>1, <2>2 DEF Rest, NoLateGuest, DownIsMarked, DownIsCordoned
    <2>6. LeftOnHost' /\ EsxTaken' BY <2>1 DEF Rest, LeftOnHost, EsxTaken
    <2> QED BY <2>3, <2>4, <2>5, <2>6 DEF Rest
  <1> QED BY <1>1, <1>2, <1>3

\* Marking and cordoning a node keep the invariant.
LEMMA MarkSafe ==
  ASSUME TypeOK, Rest, NEW n \in Nodes, Mark(n) \/ (Cordon /\ n = node)
  PROVE  Rest'
  <1>1. /\ UNCHANGED <<vm, pods, todo, esx>>
        /\ pc \in {"shutdown", "cordon"} /\ pc' \in {"shutdown", "cordon", "drain"}
        /\ node' = n /\ left' = left \ {n}
        /\ HostOf[n] = esx.name /\ HostOf[n] \notin todo
    <2>1. CASE Mark(n)
      BY <2>1 DEF Mark, Rest, LeftOnHost, EsxTaken
    <2>2. CASE Cordon /\ n = node
      BY <2>2 DEF Cordon, Rest, ShuttingDown, EsxTaken
    <2> QED BY <2>1, <2>2
  <1>2. /\ copy[n].cordoned => api[n].cordoned
        /\ pc = "shutdown" /\ copy[n].initiated => api[n].initiated
        /\ pc = "cordon" => api[n].initiated
    BY DEF Mark, Cordon, Rest, CopiesTrue, InUse, ShuttingDown
  <1>3. /\ \A m \in Nodes \ {n} : api'[m] = api[m] /\ copy'[m] = copy[m]
        /\ api[n].initiated => api'[n].initiated
        /\ api[n].cordoned => api'[n].cordoned
        /\ pc' \in {"cordon", "drain"} =>
             api'[n].initiated /\ (copy'[n].cordoned => api'[n].cordoned)
        /\ pc' = "drain" => api'[n].cordoned
    <2>1. CASE Mark(n)
      <3>1. CASE copy[n].initiated
        BY <1>2, <2>1, <3>1 DEF Mark
      <3>2. CASE Patch(n, [api[n] EXCEPT !.initiated = TRUE])
        BY <2>1, <3>2 DEF Mark, Patch, TypeOK, NodeObject
      <3>3. CASE PatchFails(n, [copy[n] EXCEPT !.initiated = TRUE]) /\ pc' = "shutdown"
        BY <3>3 DEF PatchFails, TypeOK
      <3> QED BY <2>1, <3>1, <3>2, <3>3 DEF Mark
    <2>2. CASE Cordon /\ n = node
      <3>1. CASE copy[n].cordoned
        BY <1>2, <2>2, <3>1 DEF Cordon
      <3>2. CASE Patch(n, [api[n] EXCEPT !.cordoned = TRUE])
        BY <1>2, <2>2, <3>2 DEF Cordon, Patch, TypeOK, NodeObject
      <3>3. CASE PatchFails(n, [copy[n] EXCEPT !.cordoned = TRUE]) /\ pc' = "shutdown"
        BY <3>3 DEF PatchFails, TypeOK
      <3> QED BY <2>2, <3>1, <3>2, <3>3 DEF Cordon
    <2> QED BY <2>1, <2>2
  <1>4. n \notin InUse' /\ InUse' \subseteq InUse BY <1>1 DEF InUse
  <1>5. CopiesTrue' BY <1>3, <1>4 DEF Rest, CopiesTrue, InUse
  <1>6. ShuttingDown' /\ StartingUp' BY <1>1, <1>3 DEF ShuttingDown, StartingUp
  <1>7. NoLateGuest' /\ DownIsMarked' /\ DownIsCordoned'
    BY <1>1, <1>3 DEF Rest, NoLateGuest, DownIsMarked, DownIsCordoned
  <1>8. LeftOnHost' /\ EsxTaken' BY <1>1 DEF Rest, LeftOnHost, EsxTaken
  <1> QED BY <1>5, <1>6, <1>7, <1>8 DEF Rest

\* Draining a node and switching its machine off keep the invariant.
LEMMA OffSafe ==
  ASSUME Steady, TypeOK, Rest, DrainNode \/ EnsureVMOff
  PROVE  Rest'
  <1>1. /\ UNCHANGED <<api, todo, esx, left, node, copy>>
        /\ pc \in {"drain", "vmOff"} /\ pc' \in {"vmOff", "shutdown"}
        /\ node \in Nodes
    BY DEF DrainNode, EnsureVMOff, TypeOK
  <1>2. /\ HostOf[node] = esx.name /\ node \notin left
        /\ api[node].initiated /\ api[node].cordoned
    BY <1>1 DEF Rest, ShuttingDown
  <1>3. \A n \in Nodes : vm'[n] = vm[n] \/ (n = node /\ vm'[n] = "off")
    BY <1>1 DEF DrainNode, EnsureVMOff, Fails, Steady, TypeOK
  <1>4. pc' = "vmOff" => Pending(pods'[node]) = {}
    <2>1. CASE EnsureVMOff BY <2>1 DEF EnsureVMOff
    <2>2. ASSUME DrainNode, pc' = "vmOff" PROVE Pending(pods'[node]) = {}
      <3>1. PICK new \in PodMap, result \in {"drained", "pending", "error"} :
              /\ EnsureDrain(pods[node], Graceless(copy[node]), Fails("eviction"), new, result)
              /\ pods' = [pods EXCEPT ![node] = new]
              /\ pc' = IF result = "drained" THEN "vmOff" ELSE "shutdown"
        BY <2>2 DEF DrainNode
      <3>2. result = "drained" BY <2>2, <3>1
      <3>3. Pending(new) = {} BY <3>1, <3>2 DEF EnsureDrain
      <3> QED BY <1>1, <3>1, <3>3 DEF TypeOK
    <2> QED BY <2>1, <2>2
  <1>5. CopiesTrue' BY <1>1 DEF Rest, CopiesTrue, InUse
  <1>6. ShuttingDown' /\ StartingUp' BY <1>1, <1>2, <1>4 DEF ShuttingDown, StartingUp
  <1>7. NoLateGuest' /\ DownIsMarked' /\ DownIsCordoned'
    BY <1>1, <1>2, <1>3 DEF Rest, NoLateGuest, DownIsMarked, DownIsCordoned
  <1>8. LeftOnHost' /\ EsxTaken' BY <1>1 DEF Rest, LeftOnHost, EsxTaken
  <1> QED BY <1>5, <1>6, <1>7, <1>8 DEF Rest

\* The invariant is inductive.
LEMMA EInvStep == ASSUME Steady PROVE EInv /\ [Next]_vars => EInv'
  <1> SUFFICES ASSUME EInv, [Next]_vars PROVE EInv' OBVIOUS
  <1>1. TypeOK /\ Rest BY DEF EInv, Rest
  <1>2. TypeOK' BY <1>1, TypeStep
  <1>3. Rest'
    <2>1. CASE Environment BY <1>1, <2>1, EnvironmentSafe
    <2>2. CASE \/ RoundStart \/ RoundEnd \/ Restart \/ StartNodes \/ ShutdownNodes \/ HostDone
               \/ \E h \in Hosts : CheckMaintenance(h) \/ CheckFails(h)
      BY <1>1, <2>2, BookkeepingSafe
    <2>3. CASE \E n \in Nodes : ensureLabel(n) \/ LabelFails(n) BY <1>1, <2>3, LabelSafe
    <2>4. CASE Uncordon \/ Unmark \/ \E n \in Nodes : ensureVMOn(n) \/ VMOnFails(n)
      BY <1>1, <2>4, StartSafe
    <2>5. CASE Cordon \/ \E n \in Nodes : Mark(n)
      <3>1. node \in Nodes BY <1>1 DEF TypeOK
      <3> QED BY <1>1, <2>5, <3>1, MarkSafe
    <2>6. CASE DrainNode \/ EnsureVMOff BY <1>1, <2>6, OffSafe
    <2>7. CASE UNCHANGED vars
      BY <1>1, <2>7
      DEF vars, Rest, CopiesTrue, InUse, ShuttingDown, StartingUp, NoLateGuest, LeftOnHost,
          EsxTaken, DownIsMarked, DownIsCordoned
    <2> QED BY <2>1, <2>2, <2>3, <2>4, <2>5, <2>6, <2>7 DEF Next, Round
  <1> QED BY <1>1, <1>2, <1>3 DEF EInv, Rest

\* The invariant holds in every state of the steady controller.
LEMMA EInvCorrect == ASSUME Steady PROVE Spec => []EInv
  <1>1. Init => EInv
    <2> SUFFICES ASSUME Init PROVE EInv OBVIOUS
    <2>1. /\ api \in [Nodes -> NodeObject] /\ cache \in [Nodes -> NodeObject]
          /\ copy \in [Nodes -> NodeObject]
      BY NewNodeType DEF Init
    <2>2. pods \in [Nodes -> PodMap] BY DEF Init, NoPods, PodMap, PodStates
    <2>3. outage \in BOOLEAN BY DEF Init
    <2>4. esx \in [name: Hosts, maint: Maintenance] BY DEF Init, Maintenance
    <2>5. TypeOK BY <2>1, <2>2, <2>3, <2>4 DEF Init, TypeOK, Maintenance
    <2>6. Rest
      BY DEF Init, Rest, CopiesTrue, InUse, ShuttingDown, StartingUp, NoLateGuest, LeftOnHost,
             EsxTaken, DownIsMarked, DownIsCordoned
    <2> QED BY <2>5, <2>6 DEF EInv, Rest
  <1> QED BY <1>1, EInvStep, PTL DEF Spec

\* In the steady controller every machine that is off is marked, whatever patch,
\* vCenter call or process failed on the way.
THEOREM MarkedCorrect == ASSUME Steady PROVE Spec => []DownIsMarked
  <1>1. EInv => DownIsMarked BY DEF EInv
  <1> QED BY <1>1, EInvCorrect, PTL

\* In the steady controller every machine that is off has its node cordoned.
THEOREM CordonedCorrect == ASSUME Steady PROVE Spec => []DownIsCordoned
  <1>1. EInv => DownIsCordoned BY DEF EInv
  <1> QED BY <1>1, EInvCorrect, PTL

\* The steady controller never switches off a machine under a pod.
THEOREM NoPodKilledCorrect == ASSUME Steady PROVE Spec => NoPodKilled
  <1>1. EInv /\ [Next]_vars =>
          [\A n \in Nodes : vm[n] = "on" /\ vm'[n] = "off" => Pending(pods[n]) = {}]_vars
    <2> SUFFICES ASSUME EInv, [Next]_vars, NEW n \in Nodes, vm[n] = "on", vm'[n] = "off"
                 PROVE  Pending(pods[n]) = {}
      OBVIOUS
    <2>1. EnsureVMOff
      BY DEF Next, Environment, Round, vars, cluster, Outage, SetHost, EditRebootOk,
             UncordonByOthers, EditNode, Deliver, GuestStops, Schedule, GraceExceeded, PodStops,
             PodStep, RoundStart, RoundEnd, Sleep, StartNodes, ShutdownNodes, HostDone, Uncordon,
             Unmark, Cordon, DrainNode, CheckMaintenance, CheckFails, ensureLabel, LabelFails,
             ensureVMOn, VMOnFails, PowerOn, Mark, Restart, EInv, TypeOK
    <2>2. n = node BY <2>1 DEF EnsureVMOff, EInv, TypeOK
    <2> QED BY <2>1, <2>2 DEF EnsureVMOff, EInv, ShuttingDown
  <1> QED BY <1>1, EInvCorrect, PTL DEF Spec, NoPodKilled
=============================================================================
