---------------------------- MODULE WorkflowProofs ----------------------------
(***************************************************************************)
(* Proofs about MaintenanceWorkflow, for any number of nodes and pods, any *)
(* profiles and any plugin chains.                                         *)
(***************************************************************************)
EXTENDS MaintenanceWorkflow, FiniteSetTheorems, WellFoundedInduction, TLAPS

-----------------------------------------------------------------------------
(* Trigger chains *)

\* Triggers edit two fields of the node.
LEMMA EditFields ==
  ASSUME NEW node \in NodeObject, NEW chain, NEW ran
  PROVE  /\ Edit(node, chain, ran) \in NodeObject
         /\ Edit(node, chain, ran).data = node.data
         /\ Edit(node, chain, ran).unschedulable = Unschedulable(node, chain, ran)
         /\ Edit(node, chain, ran).marks = Altered(node, chain, ran)
  <1>1. Unschedulable(node, chain, ran) \in BOOLEAN BY DEF Unschedulable, NodeObject
  <1>2. Altered(node, chain, ran) \in SUBSET Keys BY DEF Altered
  <1> QED BY <1>1, <1>2 DEF Edit, NodeObject

\* Without an uncordon a node that is unschedulable stays so, and a chain that cordons
\* it and runs to its end makes it so.
LEMMA StaysUnschedulable ==
  ASSUME NEW node, NEW chain, NEW ran \in SUBSET DOMAIN chain, ~Has(chain, "uncordon"),
         node.unschedulable \/ (ran = DOMAIN chain /\ Cordons(chain))
  PROVE  Unschedulable(node, chain, ran)
  BY DEF Unschedulable, Has, Cordons, Withdraws

\* Permission is there afterwards only if it was before or a trigger gave it.
LEMMA PermissionGiven ==
  ASSUME NEW node \in NodeObject, NEW chain, NEW ran \in SUBSET DOMAIN chain,
         "ok" \in Altered(node, chain, ran)
  PROVE  \/ \E i \in ran : chain[i].action = "add" /\ chain[i].key = "ok"
         \/ "ok" \in node.marks /\ (ran = DOMAIN chain => ~Alters(chain, "remove", "ok"))
  BY DEF Altered, Alters

\* A neutral chain keeps cordon and permission as they are.
LEMMA NeutralKeeps ==
  ASSUME NEW node \in NodeObject, NEW chain, NEW ran \in SUBSET DOMAIN chain, Neutral(chain)
  PROVE  /\ Unschedulable(node, chain, ran) = node.unschedulable
         /\ "ok" \in Altered(node, chain, ran) => "ok" \in node.marks
  <1>1. {i \in ran : chain[i].action \in {"cordon", "drain", "uncordon"}} = {}
    BY DEF Neutral, Has
  <1>2. Unschedulable(node, chain, ran) = node.unschedulable BY <1>1 DEF Unschedulable
  <1>3. \A i \in ran : ~(chain[i].action = "add" /\ chain[i].key = "ok") BY DEF Neutral, Alters
  <1> QED BY <1>2, <1>3, PermissionGiven

\* What ExecuteChain may come to: the whole chain ran, or it stopped at its first drain.
LEMMA ChainOutcome ==
  ASSUME NEW chain, NEW node \in NodeObject, NEW ps \in PodMap, NEW f,
         NEW r \in ExecuteChain(chain, node, ps, f)
  PROVE  /\ r.node \in NodeObject /\ r.node.data = node.data
         /\ r.pods \in PodMap /\ r.err \in {"none", "retry"}
         /\ Pending(ps) = {} => Pending(r.pods) = {}
         /\ \E ran \in SUBSET DOMAIN chain :
              /\ r.node = Edit(node, chain, ran)
              /\ \/ /\ ran = DOMAIN chain /\ r.err = "none"
                    /\ Has(chain, "drain") => Pending(r.pods) = {}
                 \/ ran = UpToDrain(chain) /\ r.err = "retry" /\ Has(chain, "drain")
  <1>1. PICK o \in DrainOutcomes(chain, ps, f) :
          r = IF o.result = "drained"
                THEN [node |-> Edit(node, chain, DOMAIN chain), pods |-> o.pods, err |-> "none"]
                ELSE [node |-> Edit(node, chain, UpToDrain(chain)), pods |-> o.pods, err |-> "retry"]
    BY DEF ExecuteChain
  <1>2. CASE Has(chain, "drain")
    <2>1. /\ o \in [pods: PodMap, result: {"drained", "pending", "error"}]
          /\ EnsureDrain(ps, FALSE, f, o.pods, o.result)
      BY <1>1, <1>2 DEF DrainOutcomes, Has
    <2>0. o.pods \in PodMap /\ o.result \in {"drained", "pending", "error"} BY <2>1
    <2>2. /\ Pending(ps) = {} => o.pods = ps
          /\ o.result = "drained" => Pending(ps) = {}
      BY <2>0, <2>1 DEF EnsureDrain
    <2>3. UpToDrain(chain) \subseteq DOMAIN chain BY DEF UpToDrain
    <2>4. CASE o.result = "drained"
      <3>1. /\ r.node = Edit(node, chain, DOMAIN chain) /\ r.pods = o.pods /\ r.err = "none"
        BY <1>1, <2>4
      <3> QED BY <2>0, <2>2, <2>4, <3>1, EditFields
    <2>5. CASE o.result # "drained"
      <3>1. /\ r.node = Edit(node, chain, UpToDrain(chain)) /\ r.pods = o.pods /\ r.err = "retry"
        BY <1>1, <2>5
      <3> QED BY <1>2, <2>0, <2>2, <2>3, <3>1, EditFields
    <2> QED BY <2>4, <2>5
  <1>3. CASE ~Has(chain, "drain")
    <2>1. o = [pods |-> ps, result |-> "drained"] BY <1>1, <1>3 DEF DrainOutcomes, Has
    <2>2. /\ r.node = Edit(node, chain, DOMAIN chain) /\ r.pods = ps /\ r.err = "none"
      BY <1>1, <2>1
    <2> QED BY <1>3, <2>2, EditFields
  <1> QED BY <1>2, <1>3

-----------------------------------------------------------------------------
(* Types *)

\* The data of a profile of the label is known once MaintainProfileStates has run; the
\* data of other profiles is dropped.
Known(data) == \A p \in Profiles : data[p] = NoData \/ data[p].current \in States
Prepared(p) ==
  IF ContainsProfile(Label, p)
    THEN mem.data[p].current \in States /\ next[p] \in States
    ELSE mem.data[p] = NoData /\ next[p] = NoLabel

TInv ==
  /\ TypeOK
  /\ pc = "check" => idx <= Len(Label)
  /\ \A n \in Nodes : Known(api[n].data)
  /\ pc \in {"enter", "check"} => \A p \in Profiles : Prepared(p)
  /\ pc = "patch" => Known(mem.data)

\* The label is not empty, and holds configured profiles.
LEMMA LabelFacts ==
  /\ Label \in Seq(Profiles) /\ Len(Label) \in Nat /\ Len(Label) >= 1
  /\ \A i \in 1 .. Len(Label) : Label[i] \in Profiles /\ ContainsProfile(Label, Label[i])
  /\ \A p : ContainsProfile(Label, p) => \E i \in 1 .. Len(Label) : Label[i] = p
  BY WorkflowAssumption DEF ContainsProfile, ProfileNames

LEMMA BlankType == Blank \in NodeObject /\ \A g \in Groups : NewNode(g) \in NodeObject
  <1>1. NoProfiles \in [Profiles -> ProfileData] BY DEF NoProfiles, NoData, ProfileData
  <1>2. \A g \in Groups : NewNode(g) \in NodeObject BY <1>1 DEF NewNode, NodeObject
  <1>3. (CHOOSE g \in Groups : TRUE) \in Groups BY WorkflowAssumption
  <1> QED BY <1>2, <1>3 DEF Blank

\* An idle worker holds nothing.
LEMMA IdleType ==
  ASSUME TInv, IdleWorker, UNCHANGED <<pods, outage>>,
         api' \in [Nodes -> NodeObject], \A n \in Nodes : Known(api'[n].data)
  PROVE  TInv'
  <1>1. idx' = 1 /\ idx' \in 1 .. Len(Label) + 1 BY LabelFacts DEF IdleWorker
  <1>2. next' \in [Profiles -> States \cup {NoLabel}] BY DEF IdleWorker
  <1>3. snap' \in NodeObject /\ mem' \in NodeObject BY BlankType DEF IdleWorker
  <1>4. pc' = "idle" /\ cur' = cur /\ retry' = {} /\ errs' = FALSE BY DEF IdleWorker
  <1>5. TypeOK' BY <1>1, <1>2, <1>3, <1>4 DEF TInv, TypeOK
  <1> QED BY <1>4, <1>5 DEF TInv, Known

\* MaintainProfileStates leaves a known state for every profile of the label.
LEMMA MaintainKnown ==
  ASSUME NEW data \in [Profiles -> ProfileData], Known(data)
  PROVE  LET new == MaintainProfileStates(data, Label)
         IN /\ new \in [Profiles -> ProfileData]
            /\ \A p \in Profiles : /\ ContainsProfile(Label, p) => new[p].current \in States
                                   /\ ~ContainsProfile(Label, p) => new[p] = NoData
            /\ \A p \in Profiles : new[p].current = InMaintenance => data[p].current = InMaintenance
  <1>1. NoData \in ProfileData /\ NewData \in ProfileData
    BY DEF NoData, NewData, ProfileData, States, Operational
  <1>2. NewData.current = Operational /\ NoData.current = NoLabel BY DEF NewData, NoData
  <1>3. Operational \in States /\ Operational # InMaintenance /\ NoLabel # InMaintenance
    BY DEF States, Operational, InMaintenance, NoLabel
  <1> QED BY <1>1, <1>2, <1>3 DEF MaintainProfileStates, Known

LEMMA ReconcileType == ASSUME TInv, NEW n \in Nodes, Reconcile(n) PROVE TInv'
  <1> DEFINE new == MaintainProfileStates(api[n].data, Label)
  <1>1. api[n] \in NodeObject /\ api[n].data \in [Profiles -> ProfileData] /\ Known(api[n].data)
    BY DEF TInv, TypeOK, NodeObject
  <1>2. /\ new \in [Profiles -> ProfileData]
        /\ \A p \in Profiles : /\ ContainsProfile(Label, p) => new[p].current \in States
                               /\ ~ContainsProfile(Label, p) => new[p] = NoData
    BY <1>1, MaintainKnown
  <1>3. /\ mem' = [api[n] EXCEPT !.data = new] /\ pc' = "enter" /\ cur' = n /\ snap' = api[n]
        /\ idx' = 1 /\ next' = [p \in Profiles |-> mem'.data[p].current]
        /\ retry' = {} /\ errs' = FALSE /\ UNCHANGED <<api, pods, outage>>
    BY DEF Reconcile
  <1> HIDE DEF new
  <1>4. mem' \in NodeObject /\ mem'.data = new BY <1>1, <1>2, <1>3 DEF NodeObject
  <1>5. \A p \in Profiles : next'[p] = new[p].current BY <1>3, <1>4
  <1>6. next' \in [Profiles -> States \cup {NoLabel}] BY <1>2, <1>3, <1>4 DEF ProfileData
  <1>7. idx' \in 1 .. Len(Label) + 1 BY <1>3, LabelFacts
  <1>8. TypeOK' BY <1>1, <1>3, <1>4, <1>6, <1>7 DEF TInv, TypeOK
  <1>9. \A p \in Profiles : Prepared(p)' BY <1>2, <1>4, <1>5 DEF Prepared, NoData
  <1> QED BY <1>3, <1>8, <1>9 DEF TInv, Known

\* Where the loop is, and what it does to the node in memory and to its pods: nothing,
\* or it runs a chain of the profile in its state.
LEMMA LoopStep ==
  ASSUME TInv, EnterState \/ ApplyError \/ ApplyProfile
  PROVE  /\ idx \in 1 .. Len(Label) /\ Profile \in Profiles
         /\ ContainsProfile(Label, Profile) /\ State \in States
         /\ pc \in {"enter", "check"} /\ UNCHANGED <<api, outage, cur, snap>>
         /\ \/ mem' = mem /\ pods' = pods
            \/ \E c \in ChainsOf(Profile, State) :
                 \E r \in ExecuteChain(c, mem, pods[cur], Fails("eviction")) :
                   mem' = r.node /\ pods' = [pods EXCEPT ![cur] = r.pods]
  <1>1. idx \in 1 .. Len(Label) /\ pc \in {"enter", "check"}
    <2>1. idx \in 1 .. Len(Label) + 1 /\ Len(Label) \in Nat BY LabelFacts DEF TInv, TypeOK
    <2>2. idx <= Len(Label) BY DEF EnterState, ApplyError, ApplyProfile, TInv
    <2> QED BY <2>1, <2>2 DEF EnterState, ApplyError, ApplyProfile
  <1>2. Profile \in Profiles /\ ContainsProfile(Label, Profile) BY <1>1, LabelFacts DEF Profile
  <1>3. State \in States BY <1>1, <1>2 DEF TInv, Prepared, State
  <1>4. UNCHANGED <<api, outage, cur, snap>>
    BY DEF EnterState, ApplyError, ApplyProfile, NextProfile
  <1>5. pods = [pods EXCEPT ![cur] = pods[cur]] BY DEF TInv, TypeOK
  <1> DEFINE Unmoved == mem' = mem /\ pods' = pods
             Ran(c) == \E r \in ExecuteChain(c, mem, pods[cur], Fails("eviction")) :
                         mem' = r.node /\ pods' = [pods EXCEPT ![cur] = r.pods]
  <1>6. Unmoved \/ \E c \in ChainsOf(Profile, State) : Ran(c)
    <2>1. CASE ApplyError BY <2>1 DEF ApplyError
    <2>2. CASE EnterState
      <3>1. PICK r \in IF mem.data[Profile].previous = State
                         THEN {[node |-> mem, pods |-> pods[cur], err |-> "none"]}
                         ELSE ExecuteChain(Enter[Profile][State], mem, pods[cur], Fails("eviction")) :
              mem' = r.node /\ pods' = [pods EXCEPT ![cur] = r.pods]
        BY <2>2 DEF EnterState
      <3>2. Enter[Profile][State] \in ChainsOf(Profile, State) BY DEF ChainsOf
      <3>3. CASE mem.data[Profile].previous = State BY <1>5, <3>1, <3>3
      <3>4. CASE mem.data[Profile].previous # State BY <3>1, <3>2, <3>4
      <3> QED BY <3>3, <3>4
    <2>3. CASE ApplyProfile
      <3>1. PICK target \in States, err \in {"none", "fail"} :
              \E r \in Outcomes(target, err) :
                mem' = r.node /\ pods' = [pods EXCEPT ![cur] = r.pods]
        BY <2>3 DEF ApplyProfile
      <3>2. CASE target = State BY <1>5, <3>1, <3>2 DEF Outcomes
      <3>3. CASE target # State
        <4>1. PICK c \in TriggersTo(target) : Ran(c) BY <3>1, <3>3 DEF Outcomes
        <4>2. c \in ChainsOf(Profile, State)
          BY <1>2, <1>3, WorkflowAssumption DEF TriggersTo, ChainsOf, TriggersOf
        <4> QED BY <4>1, <4>2
      <3> QED BY <3>2, <3>3
    <2> QED BY <2>1, <2>2, <2>3
  <1> QED BY <1>1, <1>2, <1>3, <1>4, <1>6

\* What the loop does to its own variables.
LEMMA LoopPosition ==
  ASSUME TInv, EnterState \/ ApplyError \/ ApplyProfile
  PROVE  /\ \/ pc' = "check" /\ UNCHANGED <<idx, next, retry, errs>>
            \/ /\ pc' = "enter" /\ idx' = idx + 1 /\ errs' \in BOOLEAN
               /\ retry' = retry \/ retry' = retry \cup {Profile}
         /\ next' = next \/ \E target \in States : next' = [next EXCEPT ![Profile] = target]
         /\ retry' # retry => next' = next
  <1>1. errs \in BOOLEAN BY DEF TInv, TypeOK
  <1>2. CASE EnterState
    <2>1. PICK err : \/ pc' = "check" /\ UNCHANGED <<idx, retry, errs>>
                     \/ NextProfile(err)
      BY <1>2 DEF EnterState
    <2>2. next' = next BY <1>2 DEF EnterState
    <2> QED BY <1>1, <2>1, <2>2 DEF NextProfile
  <1>3. CASE ApplyError BY <1>1, <1>3 DEF ApplyError, NextProfile
  <1>4. CASE ApplyProfile
    <2>t. PICK target \in States : \E err :
            /\ next' = IF err = "none" THEN [next EXCEPT ![Profile] = target] ELSE next
            /\ NextProfile(err)
      BY <1>4 DEF ApplyProfile
    <2>1. PICK err :
            /\ next' = IF err = "none" THEN [next EXCEPT ![Profile] = target] ELSE next
            /\ NextProfile(err)
      BY <2>t
    <2>2. err = "none" => retry' = retry BY <2>1 DEF NextProfile
    <2> QED BY <1>1, <2>1, <2>2 DEF NextProfile
  <1> QED BY <1>2, <1>3, <1>4

\* ChainOutcome for a chain the worker runs.
LEMMA WorkerOutcome ==
  ASSUME TInv, NEW c, NEW r \in ExecuteChain(c, mem, pods[cur], Fails("eviction"))
  PROVE  /\ r.node \in NodeObject /\ r.node.data = mem.data
         /\ r.pods \in PodMap /\ r.err \in {"none", "retry"}
         /\ Pending(pods[cur]) = {} => Pending(r.pods) = {}
         /\ \E ran \in SUBSET DOMAIN c :
              /\ r.node = Edit(mem, c, ran)
              /\ \/ /\ ran = DOMAIN c /\ r.err = "none"
                    /\ Has(c, "drain") => Pending(r.pods) = {}
                 \/ ran = UpToDrain(c) /\ r.err = "retry" /\ Has(c, "drain")
  <1> DEFINE f == Fails("eviction")
  <1>1. mem \in NodeObject /\ pods[cur] \in PodMap BY DEF TInv, TypeOK
  <1>2. r \in ExecuteChain(c, mem, pods[cur], f) OBVIOUS
  <1> HIDE DEF f
  <1> QED BY <1>1, <1>2, ChainOutcome

LEMMA LoopType == ASSUME TInv, EnterState \/ ApplyError \/ ApplyProfile PROVE TInv'
  <1>1. /\ idx \in 1 .. Len(Label) /\ Profile \in Profiles
        /\ ContainsProfile(Label, Profile) /\ pc \in {"enter", "check"}
        /\ UNCHANGED <<api, outage, cur, snap>>
    BY LoopStep
  <1>2. mem \in NodeObject /\ pods[cur] \in PodMap /\ pods \in [Nodes -> PodMap] /\ cur \in Nodes
    BY DEF TInv, TypeOK
  <1>3. mem' \in NodeObject /\ mem'.data = mem.data /\ pods' \in [Nodes -> PodMap]
    <2>1. CASE mem' = mem /\ pods' = pods BY <1>2, <2>1
    <2>2. CASE \E c \in ChainsOf(Profile, State) :
                 \E r \in ExecuteChain(c, mem, pods[cur], Fails("eviction")) :
                   mem' = r.node /\ pods' = [pods EXCEPT ![cur] = r.pods]
      <3>1. PICK c \in ChainsOf(Profile, State) :
              \E r \in ExecuteChain(c, mem, pods[cur], Fails("eviction")) :
                mem' = r.node /\ pods' = [pods EXCEPT ![cur] = r.pods]
        BY <2>2
      <3>2. PICK r \in ExecuteChain(c, mem, pods[cur], Fails("eviction")) :
              mem' = r.node /\ pods' = [pods EXCEPT ![cur] = r.pods]
        BY <3>1
      <3>3. r.node \in NodeObject /\ r.node.data = mem.data /\ r.pods \in PodMap
        BY WorkerOutcome
      <3> QED BY <1>2, <3>2, <3>3
    <2> QED BY <2>1, <2>2, LoopStep
  <1>4. Len(Label) \in Nat BY LabelFacts
  <1>5. /\ pc' \in {"enter", "check"} /\ idx' \in 1 .. Len(Label) + 1
        /\ pc' = "check" => idx' <= Len(Label)
    BY <1>1, <1>4, LoopPosition
  <1>6. errs' \in BOOLEAN /\ retry' \subseteq Profiles
    BY <1>1, LoopPosition DEF TInv, TypeOK
  <1>7. next' \in [Profiles -> States \cup {NoLabel}] BY <1>1, LoopPosition DEF TInv, TypeOK
  <1>8. TypeOK' BY <1>1, <1>3, <1>5, <1>6, <1>7 DEF TInv, TypeOK
  <1>9. ASSUME NEW p \in Profiles PROVE Prepared(p)'
    <2>1. Prepared(p) /\ next \in [Profiles -> States \cup {NoLabel}]
      BY <1>1 DEF TInv, TypeOK
    <2>2. next'[p] = next[p] \/ (p = Profile /\ next'[p] \in States)
      BY <1>1, <2>1, LoopPosition
    <2> QED BY <1>1, <1>3, <2>1, <2>2 DEF Prepared
  <1> QED BY <1>1, <1>5, <1>8, <1>9 DEF TInv, Known

\* What the commit loop makes of the data.
LEMMA CommitFields ==
  ASSUME TInv, LoopDone
  PROVE  /\ Commit \in NodeObject /\ Known(Commit.data)
         /\ Commit.unschedulable = mem.unschedulable /\ Commit.marks = mem.marks
         /\ \A p \in Profiles : Commit.data[p].current = IF p \in retry THEN mem.data[p].current
                                                         ELSE next[p]
  <1> DEFINE data == [p \in Profiles |->
                        IF p \in retry THEN mem.data[p]
                        ELSE [current |-> next[p], previous |-> mem.data[p].current]]
  <1>1. mem \in NodeObject /\ mem.data \in [Profiles -> ProfileData]
    BY DEF TInv, TypeOK, NodeObject
  <1>2. \A p \in Profiles : Prepared(p) /\ next[p] \in States \cup {NoLabel}
    BY DEF TInv, TypeOK, LoopDone
  <1>3. \A p \in Profiles : data[p] \in ProfileData BY <1>1, <1>2 DEF ProfileData
  <1>4. \A p \in Profiles : data[p].current = IF p \in retry THEN mem.data[p].current ELSE next[p]
    OBVIOUS
  <1>5. Known(data)
    <2> SUFFICES ASSUME NEW p \in Profiles PROVE data[p] = NoData \/ data[p].current \in States
      BY DEF Known
    <2>1. CASE ContainsProfile(Label, p) BY <1>2, <1>4, <2>1 DEF Prepared
    <2>2. CASE ~ContainsProfile(Label, p)
      <3>1. mem.data[p] = NoData /\ next[p] = NoLabel BY <1>2, <2>2 DEF Prepared
      <3>2. data[p] = NoData BY <3>1 DEF NoData
      <3> QED BY <3>2
    <2> QED BY <2>1, <2>2
  <1>6. UpdateMaintenanceStateLabel(data, Label) \in States
    BY DEF UpdateMaintenanceStateLabel, States
  <1>7. Commit = [mem EXCEPT !.data = data, !.state = UpdateMaintenanceStateLabel(data, Label)]
    BY DEF Commit
  <1>8. data \in [Profiles -> ProfileData] BY <1>3
  <1> HIDE DEF data
  <1>9. /\ Commit \in NodeObject /\ Commit.data = data
        /\ Commit.unschedulable = mem.unschedulable /\ Commit.marks = mem.marks
    BY <1>1, <1>6, <1>7, <1>8 DEF NodeObject
  <1> QED BY <1>4, <1>5, <1>9

LEMMA CommitType == ASSUME TInv, CommitProfiles PROVE TInv'
  <1>1. /\ LoopDone /\ mem' = Commit /\ pc' = "patch"
        /\ UNCHANGED <<api, pods, outage, cur, snap, idx, next, retry, errs>>
    BY DEF CommitProfiles
  <1>2. Commit \in NodeObject /\ Known(Commit.data) BY <1>1, CommitFields
  <1>3. TypeOK' BY <1>1, <1>2 DEF TInv, TypeOK
  <1> QED BY <1>1, <1>2, <1>3 DEF TInv, Known

\* A merge patch writes a node object.
LEMMA MergeType ==
  ASSUME TInv, NEW obj \in NodeObject
  PROVE  /\ Merge(obj) \in NodeObject
         /\ Merge(obj).data = mem.data \/ Merge(obj).data = obj.data
  <1>1. mem \in NodeObject /\ snap \in NodeObject BY DEF TInv, TypeOK
  <1>2. MergeMarks(obj.marks) \in SUBSET Keys
    BY <1>1, WorkflowAssumption DEF MergeMarks, NodeObject
  <1> QED BY <1>1, <1>2 DEF Merge, NodeObject

LEMMA PatchType == ASSUME TInv, Patch PROVE TInv'
  <1>1. IdleWorker /\ UNCHANGED <<pods, outage>> /\ pc = "patch" BY DEF Patch
  <1>2. api \in [Nodes -> NodeObject] /\ cur \in Nodes /\ Known(mem.data)
    BY <1>1 DEF TInv, TypeOK
  <1>3. /\ Merge(api[cur]) \in NodeObject
        /\ (Merge(api[cur]).data = mem.data \/ Merge(api[cur]).data = api[cur].data)
    BY <1>2, MergeType
  <1>4. api' = api \/ api' = [api EXCEPT ![cur] = Merge(api[cur])] BY DEF Patch
  <1>5. api' \in [Nodes -> NodeObject] BY <1>2, <1>3, <1>4
  <1>6. \A n \in Nodes : Known(api'[n].data)
    <2> SUFFICES ASSUME NEW n \in Nodes PROVE Known(api'[n].data) OBVIOUS
    <2>1. api'[n] = api[n] \/ (n = cur /\ api'[n] = Merge(api[cur])) BY <1>2, <1>4
    <2>2. api'[n].data = api[n].data \/ api'[n].data = mem.data BY <1>3, <2>1
    <2>3. Known(api[n].data) BY DEF TInv
    <2> QED BY <1>2, <2>2, <2>3
  <1> QED BY <1>1, <1>5, <1>6, IdleType

LEMMA EnvironmentType == ASSUME TInv, Environment PROVE TInv'
  <1>1. CASE Outage
    <2>1. outage' \in BOOLEAN BY <1>1 DEF Outage
    <2>2. TypeOK' BY <1>1, <2>1 DEF Outage, Idle, TInv, TypeOK
    <2> QED BY <1>1, <2>2 DEF Outage, Idle, TInv, Prepared, Known
  <1>2. ASSUME NEW n \in Nodes, NEW marks \in SUBSET Keys, SetMarks(n, marks) PROVE TInv'
    <2>1. api[n] \in NodeObject BY DEF TInv, TypeOK
    <2>2. [api[n] EXCEPT !.marks = marks] \in NodeObject BY <2>1 DEF NodeObject
    <2>3. api' = [api EXCEPT ![n] = [api[n] EXCEPT !.marks = marks]] BY <1>2 DEF SetMarks
    <2>4. api' \in [Nodes -> NodeObject] BY <2>2, <2>3 DEF TInv, TypeOK
    <2>5. \A m \in Nodes : api'[m].data = api[m].data BY <2>1, <2>3 DEF TInv, TypeOK, NodeObject
    <2>6. UNCHANGED <<pods, outage, pc, cur, snap, mem, idx, next, retry, errs>>
      BY <1>2 DEF SetMarks, Idle
    <2>7. TypeOK' BY <2>4, <2>6 DEF TInv, TypeOK
    <2> QED BY <2>5, <2>6, <2>7 DEF TInv, Prepared, Known
  <1>3. ASSUME NEW n \in Nodes, Need(n) \/ Approve(n) \/ Maintain(n) PROVE TInv'
    <2>1. api[n].marks \in SUBSET Keys BY DEF TInv, TypeOK, NodeObject
    <2>2. \E marks \in SUBSET Keys : SetMarks(n, marks)
      BY <1>3, <2>1, WorkflowAssumption DEF Need, Approve, Maintain
    <2> QED BY <1>2, <2>2
  <1>4. ASSUME NEW n \in Nodes, NEW p \in Pods,
               Schedule(n, p) \/ GraceExceeded(n, p) \/ PodStops(n, p)
        PROVE  TInv'
    <2>1. PICK s \in PodStates : SetPod(n, p, s)
      BY <1>4 DEF Schedule, GraceExceeded, PodStops, PodStates
    <2>2. [pods[n] EXCEPT ![p] = s] \in PodMap BY DEF TInv, TypeOK, PodMap
    <2>3. /\ pods' = [pods EXCEPT ![n] = [pods[n] EXCEPT ![p] = s]]
          /\ UNCHANGED <<api, outage, pc, cur, snap, mem, idx, next, retry, errs>>
      BY <2>1 DEF SetPod, Idle, env
    <2>4. TypeOK' BY <2>2, <2>3 DEF TInv, TypeOK
    <2> QED BY <2>3, <2>4 DEF TInv, Prepared, Known
  <1> QED BY <1>1, <1>3, <1>4 DEF Environment

LEMMA TypeStep == TInv /\ [Next]_vars => TInv'
  <1> SUFFICES ASSUME TInv, [Next]_vars PROVE TInv' OBVIOUS
  <1>1. CASE Environment BY <1>1, EnvironmentType
  <1>2. CASE EnterState \/ ApplyError \/ ApplyProfile BY <1>2, LoopType
  <1>3. CASE ApplyFailed \/ NothingToPatch \/ Restart
    BY <1>3, IdleType DEF ApplyFailed, NothingToPatch, Restart, TInv, TypeOK
  <1>4. CASE CommitProfiles BY <1>4, CommitType
  <1>5. CASE Patch BY <1>5, PatchType
  <1>6. ASSUME NEW n \in Nodes, Reconcile(n) PROVE TInv' BY <1>6, ReconcileType
  <1>7. CASE UNCHANGED vars BY <1>7 DEF vars, TInv, TypeOK, Prepared, Known
  <1> QED BY <1>1, <1>2, <1>3, <1>4, <1>5, <1>6, <1>7 DEF Next, Worker

LEMMA InitType == Init => TInv
  <1> SUFFICES ASSUME Init PROVE TInv OBVIOUS
  <1>1. PICK g \in [Nodes -> Groups] : api = [n \in Nodes |-> NewNode(g[n])] BY DEF Init
  <1>2. api \in [Nodes -> NodeObject] BY <1>1, BlankType
  <1>3. \A n \in Nodes : Known(api[n].data) BY <1>1 DEF Known, NewNode, NoProfiles
  <1>4. NoPods \in PodMap BY DEF NoPods, PodMap, PodStates
  <1>5. idx \in 1 .. Len(Label) + 1 BY LabelFacts DEF Init
  <1>6. TypeOK BY <1>2, <1>4, <1>5, BlankType DEF Init, TypeOK
  <1> QED BY <1>3, <1>6 DEF TInv, Init

\* Every variable keeps its type, and the loop stays within the profiles of the label,
\* whatever the chains of the configuration are.
THEOREM WorkflowTypeCorrect == Spec => []TypeOK
  <1>1. TInv => TypeOK BY DEF TInv
  <1> QED BY <1>1, InitType, TypeStep, PTL DEF Spec

-----------------------------------------------------------------------------
(* A maintained node is empty *)

\* Permission is only there on a cordoned node without pods.
Safe(n) == "ok" \in api[n].marks => api[n].unschedulable /\ Pending(pods[n]) = {}

\* A node that is in maintenance for profile d is cordoned.
Locked(n, d) == api[n].data[d].current = InMaintenance => api[n].unschedulable

\* Nobody else writes the cordon, the permission and the data.  If the copy in memory has
\* the permission, the node on the API server is cordoned: pods that come before the patch
\* would find nobody to evict them.
Held ==
  /\ snap.unschedulable = api[cur].unschedulable
  /\ "ok" \in snap.marks <=> "ok" \in api[cur].marks
  /\ snap.data = api[cur].data
  /\ "ok" \in mem.marks =>
       mem.unschedulable /\ api[cur].unschedulable /\ Pending(pods[cur]) = {}

\* The profile loop: the state of d is decided when d has had its turn, or asked for a
\* retry.
Looping(d) ==
  /\ mem.data[d].current = InMaintenance => api[cur].unschedulable
  /\ next[d] = InMaintenance => mem.unschedulable
  /\ \A i \in 1 .. Len(Label) : i >= idx /\ Label[i] = d => next[d] = mem.data[d].current
  /\ d \in retry => /\ next[d] = mem.data[d].current
                    /\ \E i \in 1 .. Len(Label) : i < idx /\ Label[i] = d

SInv(d) ==
  /\ TInv
  /\ \A n \in Nodes : Safe(n) /\ Locked(n, d)
  /\ pc # "idle" => Held
  /\ pc \in {"enter", "check"} => Looping(d)
  /\ pc = "patch" /\ mem.data[d].current = InMaintenance => mem.unschedulable

\* A chain gives the permission only if it prepares the node, and takes it back with the
\* cordon: then the copy in memory has the permission only on an empty node.
LEMMA PermissionKept ==
  ASSUME TInv, Held, NEW c, NEW r \in ExecuteChain(c, mem, pods[cur], Fails("eviction")),
         Releases(c), Alters(c, "add", "ok") => Prepares(c) /\ api[cur].unschedulable,
         "ok" \in r.node.marks
  PROVE  r.node.unschedulable /\ api[cur].unschedulable /\ Pending(r.pods) = {}
  <1>0. mem \in NodeObject BY DEF TInv, TypeOK
  <1>1. PICK ran \in SUBSET DOMAIN c :
          /\ r.node = Edit(mem, c, ran)
          /\ \/ /\ ran = DOMAIN c /\ r.err = "none"
                /\ Has(c, "drain") => Pending(r.pods) = {}
             \/ ran = UpToDrain(c) /\ r.err = "retry" /\ Has(c, "drain")
    BY WorkerOutcome
  <1>2. r.node.marks = Altered(mem, c, ran) /\ r.node.unschedulable = Unschedulable(mem, c, ran)
    BY <1>0, <1>1, EditFields
  <1>3. CASE \E i \in ran : c[i].action = "add" /\ c[i].key = "ok"
    <2>1. PICK i \in ran : c[i].action = "add" /\ c[i].key = "ok" BY <1>3
    <2>2. Alters(c, "add", "ok") BY <2>1 DEF Alters
    <2>3. Prepares(c) /\ api[cur].unschedulable BY <2>2
    <2>4. PICK j \in DOMAIN c : j < i /\ c[j].action = "drain" BY <2>1, <2>3 DEF Prepares
    <2>5. ran # UpToDrain(c) BY <2>1, <2>4 DEF UpToDrain
    <2>6. Has(c, "drain") /\ ~Has(c, "uncordon") BY <2>3, <2>4 DEF Has, Prepares
    <2>7. Unschedulable(mem, c, ran) BY <1>1, <2>5, <2>6, StaysUnschedulable DEF Cordons, Withdraws
    <2> QED BY <1>1, <1>2, <2>3, <2>5, <2>6, <2>7
  <1>4. CASE "ok" \in mem.marks /\ (ran = DOMAIN c => ~Alters(c, "remove", "ok"))
    <2>1. mem.unschedulable /\ api[cur].unschedulable /\ Pending(pods[cur]) = {}
      BY <1>4 DEF Held
    <2>2. ~Has(c, "uncordon") BY <1>1, <1>4 DEF Releases
    <2>3. Unschedulable(mem, c, ran) BY <2>1, <2>2, StaysUnschedulable
    <2>4. Pending(r.pods) = {} BY <2>1, WorkerOutcome
    <2> QED BY <1>2, <2>1, <2>3, <2>4
  <1>5. "ok" \in Altered(mem, c, ran) BY <1>2
  <1> QED BY <1>0, <1>3, <1>4, <1>5, PermissionGiven

\* A chain without an uncordon leaves a cordoned node cordoned; one that cordons the node
\* and runs to its end makes it so.
LEMMA CordonKept ==
  ASSUME TInv, NEW c, NEW r \in ExecuteChain(c, mem, pods[cur], Fails("eviction")),
         ~Has(c, "uncordon"), mem.unschedulable \/ (Cordons(c) /\ r.err = "none")
  PROVE  r.node.unschedulable
  <1>0. mem \in NodeObject BY DEF TInv, TypeOK
  <1>1. PICK ran \in SUBSET DOMAIN c :
          /\ r.node = Edit(mem, c, ran)
          /\ \/ ran = DOMAIN c /\ r.err = "none"
             \/ r.err = "retry"
    BY WorkerOutcome
  <1>2. Unschedulable(mem, c, ran) BY <1>1, StaysUnschedulable
  <1> QED BY <1>0, <1>1, <1>2, EditFields

\* Chains of other profiles leave both alone.
LEMMA NeutralOutcome ==
  ASSUME TInv, NEW c, NEW r \in ExecuteChain(c, mem, pods[cur], Fails("eviction")), Neutral(c)
  PROVE  r.node.unschedulable = mem.unschedulable
  <1>0. mem \in NodeObject BY DEF TInv, TypeOK
  <1>1. PICK ran \in SUBSET DOMAIN c : r.node = Edit(mem, c, ran) BY WorkerOutcome
  <1> QED BY <1>0, <1>1, NeutralKeeps, EditFields

\* The position of the loop: whether d is still to come.
LEMMA LoopingStep ==
  ASSUME NEW d \in Profiles, WellConfigured(d), SInv(d),
         EnterState \/ ApplyError \/ ApplyProfile,
         mem'.data = mem.data,
         Profile = d => next'[d] = next[d] \/ retry' = retry,
         Profile # d => next'[d] = next[d]
  PROVE  /\ \A i \in 1 .. Len(Label) : i >= idx' /\ Label[i] = d => next'[d] = mem'.data[d].current
         /\ d \in retry' => /\ next'[d] = mem'.data[d].current
                            /\ \E i \in 1 .. Len(Label) : i < idx' /\ Label[i] = d
  <1>1. /\ idx \in 1 .. Len(Label) /\ Profile \in Profiles /\ pc \in {"enter", "check"} BY LoopStep DEF SInv
  <1>2. Looping(d) BY <1>1 DEF SInv
  <1>3. Label \in Seq(Profiles) /\ Len(Label) \in Nat BY LabelFacts
  <1>4. \A i, j \in 1 .. Len(Label) : Label[i] = Label[j] => i = j BY <1>3 DEF WellConfigured
  <1>5. \/ idx' = idx /\ next' = next /\ retry' = retry
        \/ /\ idx' = idx + 1
           /\ retry' = retry \/ retry' = retry \cup {Profile}
           /\ retry' # retry => next' = next
    BY LoopPosition DEF SInv
  <1>6. CASE idx' = idx /\ next' = next /\ retry' = retry BY <1>2, <1>6 DEF Looping
  <1>7. CASE /\ idx' = idx + 1
             /\ retry' = retry \/ retry' = retry \cup {Profile}
             /\ retry' # retry => next' = next
    <2>1. CASE Profile # d
      <3>1. next'[d] = next[d] /\ (d \in retry' => d \in retry) BY <1>7, <2>1
      <3> QED BY <1>1, <1>2, <1>3, <1>7, <3>1 DEF Looping
    <2>2. CASE Profile = d
      <3>1. Label[idx] = d BY <2>2 DEF Profile
      <3>2. \A i \in 1 .. Len(Label) : Label[i] = d => i = idx BY <1>1, <1>4, <3>1
      <3>3. d \notin retry BY <1>1, <1>2, <1>3, <3>2 DEF Looping
      <3>4. next[d] = mem.data[d].current BY <1>1, <1>2, <3>1 DEF Looping
      <3>5. d \in retry' => next' = next BY <1>7, <3>3
      <3> QED BY <1>1, <1>3, <1>7, <3>1, <3>2, <3>4, <3>5
    <2> QED BY <2>1, <2>2
  <1> QED BY <1>5, <1>6, <1>7

\* What the step of the loop has to show for the invariant.
LEMMA LoopInvariant ==
  ASSUME NEW d \in Profiles, WellConfigured(d), SInv(d),
         EnterState \/ ApplyError \/ ApplyProfile,
         "ok" \in mem'.marks =>
            mem'.unschedulable /\ api[cur].unschedulable /\ Pending(pods'[cur]) = {},
         Pending(pods[cur]) = {} => Pending(pods'[cur]) = {},
         \A n \in Nodes : n # cur => pods'[n] = pods[n],
         mem'.data = mem.data,
         Profile # d => next'[d] = next[d],
         next'[d] = InMaintenance => mem'.unschedulable
  PROVE  SInv(d)'
  <1>1. /\ pc \in {"enter", "check"} /\ UNCHANGED <<api, outage, cur, snap>> BY LoopStep DEF SInv
  <1>2. pc' \in {"enter", "check"} BY LoopPosition DEF SInv
  <1>3. Held /\ Looping(d) /\ cur \in Nodes BY <1>1 DEF SInv, TInv, TypeOK
  <1>4. Held' BY <1>1, <1>3 DEF Held
  <1>5. Profile = d => next'[d] = next[d] \/ retry' = retry BY LoopPosition DEF SInv
  <1>6. Looping(d)' BY <1>1, <1>3, <1>5, LoopingStep DEF Looping
  <1>7. \A n \in Nodes : Safe(n)' /\ Locked(n, d)'
    BY <1>1, <1>3 DEF SInv, Safe, Locked
  <1>8. TInv' BY LoopType DEF SInv
  <1> QED BY <1>2, <1>4, <1>6, <1>7, <1>8 DEF SInv

\* What WellConfigured says of a chain that is run.
LEMMA ChainFacts ==
  ASSUME NEW d \in Profiles, WellConfigured(d), SInv(d), pc \in {"enter", "check"},
         Profile \in Profiles, State \in States, NEW c \in ChainsOf(Profile, State)
  PROVE  /\ Profile # d => Neutral(c)
         /\ Releases(c)
         /\ Alters(c, "add", "ok") =>
              c \notin TriggersOf(Profile, State) /\ Prepares(c) /\ api[cur].unschedulable
  <1>1. CASE Profile # d
    <2>1. Neutral(c) BY <1>1 DEF WellConfigured
    <2> QED BY <1>1, <2>1 DEF Neutral, Releases
  <1>2. CASE Profile = d
    <2>1. Releases(c) BY <1>2 DEF WellConfigured
    <2>2. ASSUME Alters(c, "add", "ok")
          PROVE  c \notin TriggersOf(d, State) /\ Prepares(c) /\ api[cur].unschedulable
      <3>1. c \notin TriggersOf(d, State) BY <1>2, <2>2 DEF WellConfigured
      <3>2. c = Enter[d][State] BY <1>2, <3>1 DEF ChainsOf
      <3>3. State = InMaintenance BY <2>2, <3>2 DEF WellConfigured
      <3>4. mem.data[d].current = InMaintenance BY <1>2, <3>3 DEF State
      <3>5. Looping(d) BY DEF SInv
      <3> QED BY <3>1, <3>2, <3>3, <3>4, <3>5 DEF Looping, WellConfigured
    <2> QED BY <1>2, <2>1, <2>2
  <1> QED BY <1>1, <1>2

\* A chain that is run keeps the part of the invariant that is about the node in memory.
LEMMA ChainKeeps ==
  ASSUME NEW d \in Profiles, WellConfigured(d), SInv(d), pc \in {"enter", "check"},
         Profile \in Profiles, State \in States, NEW c \in ChainsOf(Profile, State),
         NEW r \in ExecuteChain(c, mem, pods[cur], Fails("eviction")),
         mem' = r.node, pods' = [pods EXCEPT ![cur] = r.pods]
  PROVE  /\ "ok" \in mem'.marks =>
              mem'.unschedulable /\ api[cur].unschedulable /\ Pending(pods'[cur]) = {}
         /\ Pending(pods[cur]) = {} => Pending(pods'[cur]) = {}
         /\ \A n \in Nodes : n # cur => pods'[n] = pods[n]
         /\ mem'.data = mem.data
         /\ Profile # d => mem'.unschedulable = mem.unschedulable
  <1>1. TInv /\ Held BY DEF SInv
  <1>2. cur \in Nodes /\ pods \in [Nodes -> PodMap] BY <1>1 DEF TInv, TypeOK
  <1>3. pods'[cur] = r.pods /\ \A n \in Nodes : n # cur => pods'[n] = pods[n] BY <1>2
  <1>4. /\ r.node.data = mem.data
        /\ Pending(pods[cur]) = {} => Pending(r.pods) = {}
    BY <1>1, WorkerOutcome
  <1>5. /\ Profile # d => Neutral(c)
        /\ Releases(c)
        /\ Alters(c, "add", "ok") => Prepares(c) /\ api[cur].unschedulable
    BY ChainFacts
  <1>6. "ok" \in r.node.marks =>
          r.node.unschedulable /\ api[cur].unschedulable /\ Pending(r.pods) = {}
    BY <1>1, <1>5, PermissionKept
  <1>7. Profile # d => r.node.unschedulable = mem.unschedulable
    BY <1>1, <1>5, NeutralOutcome
  <1> QED BY <1>3, <1>4, <1>6, <1>7

\* A step of the loop that changes neither node nor pods.
LEMMA UnmovedStep ==
  ASSUME NEW d \in Profiles, WellConfigured(d), SInv(d),
         EnterState \/ ApplyError \/ ApplyProfile, mem' = mem, pods' = pods, next'[d] = next[d]
  PROVE  SInv(d)'
  <1>1. pc \in {"enter", "check"} BY LoopStep DEF SInv
  <1>2. Held /\ Looping(d) BY <1>1 DEF SInv
  <1> QED BY <1>2, LoopInvariant DEF Held, Looping

LEMMA EnterInvariant ==
  ASSUME NEW d \in Profiles, WellConfigured(d), SInv(d), EnterState PROVE SInv(d)'
  <1>1. /\ idx \in 1 .. Len(Label) /\ Profile \in Profiles /\ State \in States
        /\ pc \in {"enter", "check"}
    BY LoopStep DEF SInv
  <1>2. TInv /\ Looping(d) BY <1>1 DEF SInv
  <1>3. next' = next BY DEF EnterState
  <1>4. pods = [pods EXCEPT ![cur] = pods[cur]] BY <1>2 DEF TInv, TypeOK
  <1>5. PICK r \in IF mem.data[Profile].previous = State
                     THEN {[node |-> mem, pods |-> pods[cur], err |-> "none"]}
                     ELSE ExecuteChain(Enter[Profile][State], mem, pods[cur], Fails("eviction")) :
          mem' = r.node /\ pods' = [pods EXCEPT ![cur] = r.pods]
    BY DEF EnterState
  <1>6. CASE mem.data[Profile].previous = State
    <2>1. mem' = mem /\ pods' = pods BY <1>4, <1>5, <1>6
    <2> QED BY <1>3, <2>1, UnmovedStep
  <1>7. CASE mem.data[Profile].previous # State
    <2> DEFINE c == Enter[Profile][State]
    <2>1. r \in ExecuteChain(c, mem, pods[cur], Fails("eviction")) BY <1>5, <1>7
    <2>2. c \in ChainsOf(Profile, State) BY DEF ChainsOf
    <2>3. next[d] = InMaintenance => mem'.unschedulable
      <3>1. CASE Profile # d
        BY <1>1, <1>2, <1>5, <2>1, <2>2, <3>1, ChainKeeps DEF Looping
      <3>2. CASE Profile = d
        <4> SUFFICES ASSUME next[d] = InMaintenance PROVE mem'.unschedulable OBVIOUS
        <4>1. next[d] = State BY <1>1, <1>2, <3>2 DEF Looping, Profile, State
        <4>2. ~Has(c, "uncordon") BY <3>2, <4>1 DEF WellConfigured, Prepares
        <4>3. mem.unschedulable BY <1>2 DEF Looping
        <4> QED BY <1>2, <1>5, <2>1, <4>2, <4>3, CordonKept
      <3> QED BY <3>1, <3>2
    <2> HIDE DEF c
    <2>4. /\ "ok" \in mem'.marks =>
               mem'.unschedulable /\ api[cur].unschedulable /\ Pending(pods'[cur]) = {}
          /\ Pending(pods[cur]) = {} => Pending(pods'[cur]) = {}
          /\ \A n \in Nodes : n # cur => pods'[n] = pods[n]
          /\ mem'.data = mem.data
      BY <1>1, <1>5, <2>1, <2>2, ChainKeeps
    <2> QED BY <1>3, <2>3, <2>4, LoopInvariant
  <1> QED BY <1>6, <1>7

LEMMA ApplyInvariant ==
  ASSUME NEW d \in Profiles, WellConfigured(d), SInv(d), ApplyProfile PROVE SInv(d)'
  <1>1. /\ idx \in 1 .. Len(Label) /\ Profile \in Profiles /\ State \in States
        /\ pc \in {"enter", "check"}
    BY LoopStep DEF SInv
  <1>2. TInv /\ Looping(d) /\ next \in [Profiles -> States \cup {NoLabel}]
    BY <1>1 DEF SInv, TInv, TypeOK
  <1>3. pods = [pods EXCEPT ![cur] = pods[cur]] BY <1>2 DEF TInv, TypeOK
  <1>4. Profile = d => next[d] = State BY <1>1, <1>2 DEF Looping, Profile, State
  <1>t. PICK target \in States, err \in {"none", "fail"} :
          \E r \in Outcomes(target, err) :
            /\ mem' = r.node /\ pods' = [pods EXCEPT ![cur] = r.pods]
            /\ next' = IF r.err = "none" THEN [next EXCEPT ![Profile] = target] ELSE next
    BY DEF ApplyProfile
  <1>5. PICK r \in Outcomes(target, err) :
          /\ mem' = r.node /\ pods' = [pods EXCEPT ![cur] = r.pods]
          /\ next' = IF r.err = "none" THEN [next EXCEPT ![Profile] = target] ELSE next
    BY <1>t
  <1>6. Profile # d => next'[d] = next[d] BY <1>1, <1>2, <1>5
  <1>7. CASE target = State
    <2>1. mem' = mem /\ pods' = pods BY <1>3, <1>5, <1>7 DEF Outcomes
    <2>2. next'[d] = next[d] BY <1>1, <1>2, <1>4, <1>5, <1>7
    <2> QED BY <2>1, <2>2, UnmovedStep
  <1>8. CASE target # State
    <2>1. PICK c \in TriggersTo(target) :
            r \in ExecuteChain(c, mem, pods[cur], Fails("eviction"))
      BY <1>5, <1>8 DEF Outcomes
    <2>2. PICK i \in DOMAIN Transitions[Profile][State] :
            c = Chains[Profile][State][i] /\ Transitions[Profile][State][i].next = target
      BY <2>1 DEF TriggersTo
    <2>3. c \in TriggersOf(Profile, State)
      BY <1>1, <2>2, WorkflowAssumption DEF TriggersOf
    <2>4. c \in ChainsOf(Profile, State) BY <2>3 DEF ChainsOf
    <2>5. next'[d] = InMaintenance => mem'.unschedulable
      <3>1. CASE Profile # d
        BY <1>1, <1>2, <1>5, <1>6, <2>1, <2>4, <3>1, ChainKeeps DEF Looping
      <3>2. CASE Profile = d
        <4> SUFFICES ASSUME next'[d] = InMaintenance PROVE mem'.unschedulable OBVIOUS
        <4>1. CASE r.err = "none"
          <5>1. target = InMaintenance BY <1>2, <1>5, <3>2, <4>1
          <5>2. Cordons(c) BY <1>1, <1>8, <2>2, <3>2, <5>1 DEF WellConfigured
          <5> QED BY <1>2, <1>5, <2>1, <4>1, <5>2, CordonKept DEF Cordons
        <4>2. CASE r.err # "none"
          <5>1. next[d] = InMaintenance BY <1>5, <4>2
          <5>2. mem.unschedulable BY <1>2, <5>1 DEF Looping
          <5>3. Has(c, "drain") BY <1>2, <2>1, <4>2, WorkerOutcome
          <5>4. ~Has(c, "uncordon") BY <1>1, <2>4, <5>3, ChainFacts DEF Releases
          <5> QED BY <1>2, <1>5, <2>1, <5>2, <5>4, CordonKept
        <4> QED BY <4>1, <4>2
      <3> QED BY <3>1, <3>2
    <2>6. /\ "ok" \in mem'.marks =>
               mem'.unschedulable /\ api[cur].unschedulable /\ Pending(pods'[cur]) = {}
          /\ Pending(pods[cur]) = {} => Pending(pods'[cur]) = {}
          /\ \A n \in Nodes : n # cur => pods'[n] = pods[n]
          /\ mem'.data = mem.data
      BY <1>1, <1>5, <2>1, <2>4, ChainKeeps
    <2> QED BY <1>6, <2>5, <2>6, LoopInvariant
  <1> QED BY <1>7, <1>8

\* A reconciliation that begins has the node as it is.
LEMMA ReconcileInvariant ==
  ASSUME NEW d \in Profiles, SInv(d), NEW n \in Nodes, Reconcile(n) PROVE SInv(d)'
  <1> DEFINE new == MaintainProfileStates(api[n].data, Label)
  <1>1. /\ api[n] \in NodeObject /\ api[n].data \in [Profiles -> ProfileData] /\ Known(api[n].data)
        /\ Safe(n) /\ Locked(n, d)
    BY DEF SInv, TInv, TypeOK, NodeObject
  <1>2. /\ new \in [Profiles -> ProfileData]
        /\ new[d].current = InMaintenance => api[n].data[d].current = InMaintenance
    BY <1>1, MaintainKnown
  <1>3. /\ mem' = [api[n] EXCEPT !.data = new] /\ pc' = "enter" /\ cur' = n /\ snap' = api[n]
        /\ idx' = 1 /\ next' = [p \in Profiles |-> mem'.data[p].current]
        /\ retry' = {} /\ UNCHANGED <<api, pods, outage>>
    BY DEF Reconcile
  <1> HIDE DEF new
  <1>4. /\ mem'.data = new /\ mem'.marks = api[n].marks
        /\ mem'.unschedulable = api[n].unschedulable
    BY <1>1, <1>3 DEF NodeObject
  <1>5. next'[d] = new[d].current BY <1>3, <1>4
  <1>6. Held' BY <1>1, <1>3, <1>4 DEF Held, Safe
  <1>7. Looping(d)' BY <1>1, <1>2, <1>3, <1>4, <1>5 DEF Looping, Locked
  <1>8. TInv' BY ReconcileType DEF SInv
  <1>9. \A m \in Nodes : Safe(m)' /\ Locked(m, d)' BY <1>3 DEF SInv, Safe, Locked
  <1> QED BY <1>3, <1>6, <1>7, <1>8, <1>9 DEF SInv

LEMMA CommitInvariant ==
  ASSUME NEW d \in Profiles, SInv(d), CommitProfiles PROVE SInv(d)'
  <1>1. /\ LoopDone /\ mem' = Commit /\ pc' = "patch" /\ pc = "enter"
        /\ UNCHANGED <<api, pods, outage, cur, snap, idx, next, retry, errs>>
    BY DEF CommitProfiles, LoopDone
  <1>2. TInv /\ Held /\ Looping(d) BY <1>1 DEF SInv
  <1>3. /\ Commit.unschedulable = mem.unschedulable /\ Commit.marks = mem.marks
        /\ Commit.data[d].current = IF d \in retry THEN mem.data[d].current ELSE next[d]
    BY <1>1, <1>2, CommitFields
  <1>4. Held' BY <1>1, <1>2, <1>3 DEF Held
  <1>5. mem'.data[d].current = InMaintenance => mem'.unschedulable
    BY <1>1, <1>2, <1>3 DEF Looping
  <1>6. TInv' BY CommitType DEF SInv
  <1>7. \A m \in Nodes : Safe(m)' /\ Locked(m, d)' BY <1>1 DEF SInv, Safe, Locked
  <1> QED BY <1>1, <1>4, <1>5, <1>6, <1>7 DEF SInv

\* The patch brings cordon, permission and data to the node together.
LEMMA PatchInvariant ==
  ASSUME NEW d \in Profiles, SInv(d), Patch PROVE SInv(d)'
  <1>1. pc = "patch" /\ pc' = "idle" /\ pods' = pods BY DEF Patch, IdleWorker
  <1>2. /\ Held /\ (mem.data[d].current = InMaintenance => mem.unschedulable)
        /\ api \in [Nodes -> NodeObject] /\ cur \in Nodes /\ mem \in NodeObject
    BY <1>1 DEF SInv, TInv, TypeOK
  <1>3. TInv' BY PatchType DEF SInv
  <1>4. /\ Merge(api[cur]).unschedulable = mem.unschedulable
        /\ Merge(api[cur]).data = mem.data
    BY <1>2 DEF Merge, Held
  <1>m. "ok" \in Merge(api[cur]).marks <=> "ok" \in mem.marks
    BY <1>2 DEF Merge, MergeMarks, Held
  <1>5. api' = api \/ api' = [api EXCEPT ![cur] = Merge(api[cur])] BY DEF Patch
  <1>6. ASSUME NEW n \in Nodes PROVE Safe(n)' /\ Locked(n, d)'
    <2>1. Safe(n) /\ Locked(n, d) BY DEF SInv
    <2>2. CASE api'[n] = api[n] BY <1>1, <2>1, <2>2 DEF Safe, Locked
    <2>3. CASE n = cur /\ api'[n] = Merge(api[cur])
      BY <1>1, <1>2, <1>4, <1>m, <2>3 DEF Safe, Locked, Held
    <2> QED BY <1>2, <1>5, <2>2, <2>3
  <1> QED BY <1>1, <1>3, <1>6 DEF SInv

LEMMA EnvironmentInvariant ==
  ASSUME NEW d \in Profiles, SInv(d), Environment PROVE SInv(d)'
  <1>t. TInv' BY EnvironmentType DEF SInv
  <1>1. CASE Outage
    BY <1>1, <1>t DEF Outage, Idle, SInv, Safe, Locked, Held, Looping
  <1>2. ASSUME NEW n \in Nodes, NEW marks, SetMarks(n, marks),
               "ok" \in marks <=> "ok" \in api[n].marks
        PROVE  SInv(d)'
    <2>1. api \in [Nodes -> NodeObject] /\ api[n] \in NodeObject BY DEF SInv, TInv, TypeOK
    <2>2. /\ api' = [api EXCEPT ![n] = [api[n] EXCEPT !.marks = marks]]
          /\ UNCHANGED <<pods, outage, pc, cur, snap, mem, idx, next, retry, errs>>
      BY <1>2 DEF SetMarks, Idle
    <2>3. \A m \in Nodes : /\ api'[m].unschedulable = api[m].unschedulable
                           /\ api'[m].data = api[m].data
                           /\ "ok" \in api'[m].marks <=> "ok" \in api[m].marks
      BY <1>2, <2>1, <2>2 DEF NodeObject
    <2>4. cur \in Nodes BY DEF SInv, TInv, TypeOK
    <2>5. Held => Held' BY <2>2, <2>3, <2>4 DEF Held
    <2>6. Looping(d) => Looping(d)' BY <2>2, <2>3, <2>4 DEF Looping
    <2>7. \A m \in Nodes : Safe(m)' /\ Locked(m, d)' BY <2>2, <2>3 DEF SInv, Safe, Locked
    <2> QED BY <1>t, <2>2, <2>5, <2>6, <2>7 DEF SInv
  <1>3. ASSUME NEW n \in Nodes, Need(n) \/ Approve(n) \/ Maintain(n) PROVE SInv(d)'
    <2>1. PICK marks : SetMarks(n, marks) /\ ("ok" \in marks <=> "ok" \in api[n].marks)
      BY <1>3 DEF Need, Approve, Maintain
    <2> QED BY <1>2, <2>1
  <1>4. ASSUME NEW n \in Nodes, NEW p \in Pods,
               Schedule(n, p) \/ GraceExceeded(n, p) \/ PodStops(n, p)
        PROVE  SInv(d)'
    <2>1. PICK s : /\ SetPod(n, p, s)
                   /\ pods[n][p] = "gone" => ~api[n].unschedulable
      BY <1>4 DEF Schedule, GraceExceeded, PodStops
    <2>2. /\ pods' = [pods EXCEPT ![n] = [pods[n] EXCEPT ![p] = s]]
          /\ UNCHANGED <<api, outage, pc, cur, snap, mem, idx, next, retry, errs>>
      BY <2>1 DEF SetPod, Idle, env
    <2>3. pods \in [Nodes -> PodMap] /\ cur \in Nodes BY DEF SInv, TInv, TypeOK
    <2>4. \A m \in Nodes : api[m].unschedulable /\ Pending(pods[m]) = {} => pods'[m] = pods[m]
      <3> SUFFICES ASSUME NEW m \in Nodes, api[m].unschedulable, Pending(pods[m]) = {}
                   PROVE  pods'[m] = pods[m]
        OBVIOUS
      <3>1. pods[m][p] = "gone" BY DEF Pending
      <3> QED BY <2>1, <2>2, <2>3, <3>1
    <2>5. Held => Held' BY <2>2, <2>3, <2>4 DEF Held
    <2>6. Looping(d) => Looping(d)' BY <2>2 DEF Looping
    <2>7. \A m \in Nodes : Safe(m)' /\ Locked(m, d)' BY <2>2, <2>4 DEF SInv, Safe, Locked
    <2> QED BY <1>t, <2>2, <2>5, <2>6, <2>7 DEF SInv
  <1> QED BY <1>1, <1>3, <1>4 DEF Environment

LEMMA SInvStep ==
  ASSUME NEW d \in Profiles, WellConfigured(d)
  PROVE  SInv(d) /\ [Next]_vars => SInv(d)'
  <1> SUFFICES ASSUME SInv(d), [Next]_vars PROVE SInv(d)' OBVIOUS
  <1>1. CASE Environment BY <1>1, EnvironmentInvariant
  <1>2. CASE EnterState BY <1>2, EnterInvariant
  <1>3. CASE ApplyError BY <1>3, UnmovedStep DEF ApplyError
  <1>4. CASE ApplyProfile BY <1>4, ApplyInvariant
  <1>5. CASE ApplyFailed \/ NothingToPatch \/ Restart
    <2>1. pc' = "idle" /\ UNCHANGED <<api, pods>>
      BY <1>5 DEF ApplyFailed, NothingToPatch, Restart, IdleWorker
    <2>2. TInv' BY TypeStep DEF SInv
    <2> QED BY <2>1, <2>2 DEF SInv, Safe, Locked
  <1>6. CASE CommitProfiles BY <1>6, CommitInvariant
  <1>7. CASE Patch BY <1>7, PatchInvariant
  <1>8. ASSUME NEW n \in Nodes, Reconcile(n) PROVE SInv(d)' BY <1>8, ReconcileInvariant
  <1>9. CASE UNCHANGED vars
    <2>1. TInv' BY TypeStep DEF SInv
    <2> QED BY <1>9, <2>1 DEF vars, SInv, Safe, Locked, Held, Looping
  <1> QED BY <1>1, <1>2, <1>3, <1>4, <1>5, <1>6, <1>7, <1>8, <1>9 DEF Next, Worker

LEMMA SInvInit == ASSUME NEW d \in Profiles, Init PROVE SInv(d)
  <1>1. PICK g \in [Nodes -> Groups] : api = [n \in Nodes |-> NewNode(g[n])] BY DEF Init
  <1>2. \A n \in Nodes : api[n].marks = {} /\ api[n].data = NoProfiles BY <1>1 DEF NewNode
  <1>3. NoProfiles[d].current # InMaintenance
    BY DEF NoProfiles, NoData, NoLabel, InMaintenance
  <1>4. \A n \in Nodes : Safe(n) /\ Locked(n, d) BY <1>2, <1>3 DEF Safe, Locked
  <1>5. TInv BY InitType
  <1> QED BY <1>4, <1>5 DEF SInv, Init

\* In a workflow that cordons nodes on the way into maintenance, drains them before it
\* gives the permission and takes the permission back before it uncordons them, no node is
\* maintained that could hold a pod that should have been evicted, for any number of nodes,
\* pods and other profiles, whatever fails and whenever the controller restarts.
THEOREM MaintainedEmptyCorrect ==
  ASSUME NEW d \in Profiles, WellConfigured(d) PROVE Spec => MaintainedEmpty
  <1>1. Init => SInv(d) BY SInvInit
  <1>2. SInv(d) /\ [Next]_vars =>
          [\A n \in Nodes : Maintain(n) => api[n].unschedulable /\ Pending(pods[n]) = {}]_vars
    BY DEF SInv, Safe, Maintain
  <1> QED BY <1>1, <1>2, SInvStep, PTL DEF Spec, MaintainedEmpty

-----------------------------------------------------------------------------
(* The group stays in service *)

\* A cordoned node is in maintenance for profile d, and counts as such for the others.
Counted(n, d) ==
  api[n].unschedulable => api[n].data[d].current = InMaintenance /\ api[n].state = InMaintenance

Cordoned(g) == {n \in Nodes : api[n].unschedulable /\ api[n].group = g}

\* The worker has found a place in the group for a node it cordons in memory.  The place
\* stays free until the patch: only the worker writes the labels that are counted.
Granted ==
  /\ snap.state = api[cur].state
  /\ mem.unschedulable /\ ~api[cur].unschedulable => maxMaintenance(cur, api)

GInv(d) ==
  /\ SInv(d)
  /\ \A n \in Nodes : Counted(n, d)
  /\ \A g \in Groups : Cardinality(Cordoned(g)) <= MaxNodes
  /\ pc # "idle" => Granted
  /\ pc \in {"enter", "check"} /\ mem.unschedulable => next[d] = InMaintenance
  /\ pc = "patch" /\ mem.unschedulable =>
       mem.data[d].current = InMaintenance /\ mem.state = InMaintenance

\* A finite set of positions has a last one.
LEMMA LastExists ==
  ASSUME NEW ts \in SUBSET Nat, IsFiniteSet(ts), ts # {} PROVE \E i \in ts : IsLast(ts, i)
  <1> DEFINE Above(i) == {j \in ts : j > i}
             Tails == {Above(i) : i \in ts}
             Subsets == FiniteSubsetsOf(ts)
             Smaller == StrictSubsetOrdering(ts)
  <1>1. \A i \in ts : Above(i) \in Subsets /\ Above(i) \in Tails
    BY FS_Subset DEF FiniteSubsetsOf
  <1>2. IsWellFoundedOn(Smaller, Subsets) BY FS_StrictSubsetOrderingWellFounded
  <1>3. Tails \subseteq Subsets /\ Tails # {} BY <1>1
  <1> HIDE DEF Tails, Subsets, Smaller
  <1>4. PICK x \in Tails : \A y \in Tails : <<y, x>> \notin Smaller BY <1>2, <1>3, WFMin
  <1>5. PICK i \in ts : x = Above(i) BY <1>4 DEF Tails
  <1>6. ASSUME NEW j \in ts, j > i PROVE FALSE
    <2>0. i \in Nat /\ j \in Nat /\ \A k \in ts : k \in Nat OBVIOUS
    <2>1. j \in Above(i) /\ j \notin Above(j) BY <1>6, <2>0
    <2>3. \A k \in ts : k > j => k > i BY <1>6, <2>0
    <2>4. Above(j) \subseteq Above(i) BY <2>3
    <2>2. <<Above(j), Above(i)>> \in Smaller
      BY <2>1, <2>4 DEF Smaller, StrictSubsetOrdering
    <2> QED BY <1>1, <1>4, <1>5, <2>2
  <1> QED BY <1>6 DEF IsLast

\* A chain that neither cordons nor drains cordons no node; with an uncordon, none is left
\* cordoned.
LEMMA CordonOrigin ==
  ASSUME NEW node, NEW chain \in Seq(Triggers), ~Withdraws(chain),
         NEW ran \in SUBSET DOMAIN chain, Unschedulable(node, chain, ran)
  PROVE  node.unschedulable /\ (ran = DOMAIN chain => ~Has(chain, "uncordon"))
  <1> DEFINE ts == {i \in ran : chain[i].action \in {"cordon", "drain", "uncordon"}}
  <1>1. DOMAIN chain = 1 .. Len(chain) /\ Len(chain) \in Nat OBVIOUS
  <1>2. \A i \in ts : chain[i].action = "uncordon" BY DEF Withdraws, Has
  <1>3. CASE ts = {}
    <2>1. node.unschedulable BY <1>3 DEF Unschedulable
    <2>2. ran = DOMAIN chain => ~Has(chain, "uncordon") BY <1>3 DEF Has
    <2> QED BY <2>1, <2>2
  <1>4. CASE ts # {}
    <2>1. ts \in SUBSET Nat /\ ts \in SUBSET (1 .. Len(chain)) BY <1>1
    <2>3. \A i \in ts : IsLast(ts, i) => chain[i].action # "uncordon" BY <1>4 DEF Unschedulable
    <2> HIDE DEF ts
    <2>i. IsFiniteSet(1 .. Len(chain)) BY <1>1, FS_Interval
    <2>2. IsFiniteSet(ts) BY <2>1, <2>i, FS_Subset
    <2>4. PICK i \in ts : IsLast(ts, i) BY <1>4, <2>1, <2>2, LastExists
    <2> QED BY <1>2, <2>3, <2>4
  <1> QED BY <1>3, <1>4

LEMMA CordonOutcome ==
  ASSUME TInv, NEW c \in Seq(Triggers), ~Withdraws(c),
         NEW r \in ExecuteChain(c, mem, pods[cur], Fails("eviction")), r.node.unschedulable
  PROVE  mem.unschedulable /\ ~Has(c, "uncordon")
  <1>0. mem \in NodeObject BY DEF TInv, TypeOK
  <1>1. ~Has(c, "drain") BY DEF Withdraws
  <1>2. PICK ran \in SUBSET DOMAIN c : r.node = Edit(mem, c, ran) /\ ran = DOMAIN c
    BY <1>1, WorkerOutcome
  <1>3. Unschedulable(mem, c, ran) BY <1>0, <1>2, EditFields
  <1> QED BY <1>2, <1>3, CordonOrigin

\* What a step of the loop has to show: a node is cordoned only for a maintenance that is
\* decided, and only if it was already or its group has a place.
LEMMA LoopGroup ==
  ASSUME NEW d \in Profiles, Disciplined(d), GInv(d), EnterState \/ ApplyError \/ ApplyProfile,
         mem'.unschedulable =>
           /\ next'[d] = InMaintenance
           /\ mem.unschedulable \/ api[cur].unschedulable \/ maxMaintenance(cur, api)
  PROVE  GInv(d)'
  <1>0. TInv BY DEF GInv, SInv
  <1>1. pc \in {"enter", "check"} /\ UNCHANGED <<api, cur, snap>> BY <1>0, LoopStep
  <1>2. pc' \in {"enter", "check"} BY <1>0, LoopPosition
  <1>3. SInv(d)' BY SInvStep DEF GInv, Disciplined, Next, Worker
  <1>4. Granted' BY <1>1 DEF GInv, Granted
  <1>5. \A n \in Nodes : Counted(n, d)' BY <1>1 DEF GInv, Counted
  <1>6. \A g \in Groups : (Cardinality(Cordoned(g)) <= MaxNodes)' BY <1>1 DEF GInv, Cordoned
  <1> QED BY <1>2, <1>3, <1>4, <1>5, <1>6 DEF GInv

\* The Enter chain of maintenance finds the node cordoned, the others do not cordon it.
LEMMA EnterGroup ==
  ASSUME NEW d \in Profiles, Disciplined(d), GInv(d), EnterState PROVE GInv(d)'
  <1>0. SInv(d) /\ TInv /\ WellConfigured(d) BY DEF GInv, SInv, Disciplined
  <1>1. /\ idx \in 1 .. Len(Label) /\ Profile \in Profiles /\ State \in States
        /\ pc \in {"enter", "check"}
    BY <1>0, LoopStep
  <1>2. Looping(d) /\ (mem.unschedulable => next[d] = InMaintenance) BY <1>0, <1>1 DEF GInv, SInv
  <1>3. next' = next BY DEF EnterState
  <1>4. PICK r \in IF mem.data[Profile].previous = State
                     THEN {[node |-> mem, pods |-> pods[cur], err |-> "none"]}
                     ELSE ExecuteChain(Enter[Profile][State], mem, pods[cur], Fails("eviction")) :
          mem' = r.node
    BY DEF EnterState
  <1>5. CASE mem.data[Profile].previous = State BY <1>2, <1>3, <1>4, <1>5, LoopGroup
  <1>6. CASE mem.data[Profile].previous # State
    <2> DEFINE c == Enter[Profile][State]
    <2>1. r \in ExecuteChain(c, mem, pods[cur], Fails("eviction")) BY <1>4, <1>6
    <2>2. c \in ChainsOf(Profile, State) BY DEF ChainsOf
    <2>3. c \in Seq(Triggers) BY <1>1, WorkflowAssumption
    <2>4. CASE Profile = d /\ State = InMaintenance
      <3>1. next[d] = State BY <1>1, <1>2, <2>4 DEF Looping, Profile, State
      <3>2. api[cur].unschedulable BY <1>2, <2>4 DEF Looping, State
      <3> QED BY <1>3, <2>4, <3>1, <3>2, LoopGroup
    <2>5. CASE Profile # d
      <3>1. Neutral(c) BY <1>1, <2>2, <2>5 DEF Disciplined, WellConfigured
      <3> HIDE DEF c
      <3>2. r.node.unschedulable = mem.unschedulable BY <1>0, <2>1, <3>1, NeutralOutcome
      <3> QED BY <1>2, <1>3, <1>4, <3>2, LoopGroup
    <2>6. CASE Profile = d /\ State # InMaintenance
      <3>1. ~Withdraws(c) BY <1>1, <2>6 DEF Disciplined
      <3> HIDE DEF c
      <3>2. r.node.unschedulable => mem.unschedulable BY <1>0, <2>1, <2>3, <3>1, CordonOutcome
      <3> QED BY <1>2, <1>3, <1>4, <3>2, LoopGroup
    <2> QED BY <2>4, <2>5, <2>6
  <1> QED BY <1>5, <1>6

\* A change of state that the checks let pass into maintenance has found a place.
LEMMA PlaceFound ==
  ASSUME NEW d \in Profiles, Disciplined(d), Profile = d, State \in States \ {InMaintenance},
         NEW err, NEW any,
         transitionDefault(State, Transitions[d][State],
           [i \in DOMAIN Transitions[d][State] |->
              ExecuteChecks(Checks[d][State][i], cur, mem, d, api, pods)],
           any, [err |-> err, next |-> InMaintenance])
  PROVE  maxMaintenance(cur, api)
  <1> DEFINE ts == Transitions[d][State]
             chain == [i \in DOMAIN ts |->
                         ExecuteChecks(Checks[d][State][i], cur, mem, d, api, pods)]
             res == [i \in DOMAIN ts |-> Execute(ts[i], chain[i], any)]
  <1>1. PICK i \in DOMAIN ts : res[i] = "pass" /\ ts[i].next = InMaintenance
    BY DEF transitionDefault
  <1>2. chain[i] = "pass" BY <1>1 DEF Execute
  <1>3. ExecuteChecks(Checks[d][State][i], cur, mem, d, api, pods) = "pass" BY <1>1, <1>2
  <1>4. Checks[d][State][i].max BY <1>1 DEF Disciplined
  <1> QED BY <1>3, <1>4 DEF ExecuteChecks

LEMMA ApplyGroup ==
  ASSUME NEW d \in Profiles, Disciplined(d), GInv(d), ApplyProfile PROVE GInv(d)'
  <1>0. SInv(d) /\ TInv /\ WellConfigured(d) BY DEF GInv, SInv, Disciplined
  <1>1. /\ idx \in 1 .. Len(Label) /\ Profile \in Profiles /\ State \in States
        /\ pc \in {"enter", "check"}
    BY <1>0, LoopStep
  <1>2. /\ Looping(d) /\ (mem.unschedulable => next[d] = InMaintenance)
        /\ next \in [Profiles -> States \cup {NoLabel}]
    BY <1>0, <1>1 DEF GInv, SInv, TInv, TypeOK
  <1>3. Profile = d => next[d] = State BY <1>1, <1>2 DEF Looping, Profile, State
  <1>t. PICK target \in States, err \in {"none", "fail"} :
          /\ transitionDefault(State, Transitions[Profile][State],
               [i \in DOMAIN Transitions[Profile][State] |->
                  ExecuteChecks(Checks[Profile][State][i], cur, mem, Profile, api, pods)],
               anyInMaintenance(mem.data, Label), [err |-> err, next |-> target])
          /\ \E r \in Outcomes(target, err) :
               /\ mem' = r.node
               /\ next' = IF r.err = "none" THEN [next EXCEPT ![Profile] = target] ELSE next
    BY DEF ApplyProfile
  <1>4. PICK r \in Outcomes(target, err) :
          /\ mem' = r.node
          /\ next' = IF r.err = "none" THEN [next EXCEPT ![Profile] = target] ELSE next
    BY <1>t
  <1>5. Profile # d => next'[d] = next[d] BY <1>1, <1>2, <1>4
  <1>6. CASE target = State
    <2>1. mem' = mem BY <1>4, <1>6 DEF Outcomes
    <2>2. next'[d] = next[d] BY <1>1, <1>2, <1>3, <1>4, <1>6
    <2> QED BY <1>2, <2>1, <2>2, LoopGroup
  <1>7. CASE target # State
    <2>1. PICK c \in TriggersTo(target) :
            r \in ExecuteChain(c, mem, pods[cur], Fails("eviction"))
      BY <1>4, <1>7 DEF Outcomes
    <2>2. PICK i \in DOMAIN Transitions[Profile][State] :
            c = Chains[Profile][State][i] /\ Transitions[Profile][State][i].next = target
      BY <2>1 DEF TriggersTo
    <2>3. c \in TriggersOf(Profile, State) /\ c \in Seq(Triggers)
      BY <1>1, <2>2, WorkflowAssumption DEF TriggersOf
    <2>4. CASE Profile # d
      <3>1. Neutral(c) BY <1>1, <2>3, <2>4 DEF Disciplined, WellConfigured, ChainsOf
      <3>2. r.node.unschedulable = mem.unschedulable BY <1>0, <2>1, <3>1, NeutralOutcome
      <3> QED BY <1>2, <1>4, <1>5, <2>4, <3>2, LoopGroup
    <2>5. CASE Profile = d /\ target = InMaintenance
      <3>1. ~Has(c, "drain") BY <1>1, <1>7, <2>2, <2>5 DEF Disciplined
      <3>2. r.err = "none" BY <1>0, <2>1, <3>1, WorkerOutcome
      <3>3. next'[d] = InMaintenance BY <1>1, <1>2, <1>4, <2>5, <3>2
      <3>4. maxMaintenance(cur, api) BY <1>1, <1>7, <1>t, <2>5, PlaceFound
      <3> QED BY <3>3, <3>4, LoopGroup
    <2>6. CASE Profile = d /\ target # InMaintenance
      <3>1. ~Withdraws(c) /\ (State = InMaintenance => Has(c, "uncordon"))
        BY <1>1, <2>2, <2>6 DEF Disciplined
      <3>2. ~r.node.unschedulable
        <4> SUFFICES ASSUME r.node.unschedulable PROVE FALSE OBVIOUS
        <4>1. mem.unschedulable /\ ~Has(c, "uncordon") BY <1>0, <2>1, <2>3, <3>1, CordonOutcome
        <4>2. State = InMaintenance BY <1>2, <1>3, <2>6, <4>1
        <4> QED BY <3>1, <4>1, <4>2
      <3> QED BY <1>4, <3>2, LoopGroup
    <2> QED BY <2>4, <2>5, <2>6
  <1> QED BY <1>6, <1>7

LEMMA ReconcileGroup ==
  ASSUME NEW d \in Profiles, Disciplined(d), GInv(d), NEW n \in Nodes, Reconcile(n)
  PROVE  GInv(d)'
  <1> DEFINE new == MaintainProfileStates(api[n].data, Label)
  <1>1. SInv(d)' BY SInvStep DEF GInv, Disciplined, Next
  <1>2. api[n] \in NodeObject /\ api[n].data \in [Profiles -> ProfileData] /\ Counted(n, d)
    BY DEF GInv, SInv, TInv, TypeOK, NodeObject
  <1>3. /\ mem' = [api[n] EXCEPT !.data = new] /\ pc' = "enter" /\ cur' = n /\ snap' = api[n]
        /\ next' = [p \in Profiles |-> mem'.data[p].current] /\ UNCHANGED api
    BY DEF Reconcile
  <1>4. ContainsProfile(Label, d) BY DEF Disciplined, getProfiles
  <1>5. api[n].data[d].current = InMaintenance => new[d].current = InMaintenance
    BY <1>4 DEF MaintainProfileStates, NoData, NoLabel, InMaintenance
  <1> HIDE DEF new
  <1>6. mem'.data = new /\ mem'.unschedulable = api[n].unschedulable
    BY <1>2, <1>3 DEF NodeObject
  <1>7. next'[d] = new[d].current BY <1>3, <1>6
  <1>8. Granted' BY <1>3, <1>6 DEF Granted
  <1>9. \A m \in Nodes : Counted(m, d)' BY <1>3 DEF GInv, Counted
  <1>10. \A g \in Groups : (Cardinality(Cordoned(g)) <= MaxNodes)' BY <1>3 DEF GInv, Cordoned
  <1> QED BY <1>1, <1>2, <1>3, <1>5, <1>6, <1>7, <1>8, <1>9, <1>10 DEF GInv, Counted

LEMMA CommitGroup ==
  ASSUME NEW d \in Profiles, Disciplined(d), GInv(d), CommitProfiles PROVE GInv(d)'
  <1>1. /\ LoopDone /\ mem' = Commit /\ pc' = "patch" /\ pc = "enter"
        /\ UNCHANGED <<api, cur, snap>>
    BY DEF CommitProfiles, LoopDone
  <1>2. SInv(d)' BY SInvStep DEF GInv, Disciplined, Next, Worker
  <1>3. TInv /\ Looping(d) /\ Granted /\ (mem.unschedulable => next[d] = InMaintenance)
    BY <1>1 DEF GInv, SInv
  <1>4. /\ Commit.unschedulable = mem.unschedulable
        /\ Commit.data[d].current = IF d \in retry THEN mem.data[d].current ELSE next[d]
    BY <1>1, <1>3, CommitFields
  <1>5. mem.unschedulable => Commit.data[d].current = InMaintenance BY <1>3, <1>4 DEF Looping
  <1>6. Commit.state = UpdateMaintenanceStateLabel(Commit.data, Label)
    BY <1>3 DEF Commit, TInv, TypeOK, NodeObject
  <1>7. mem.unschedulable => Commit.state = InMaintenance
    BY <1>5, <1>6 DEF UpdateMaintenanceStateLabel, Disciplined
  <1>8. Granted' BY <1>1, <1>3, <1>4 DEF Granted
  <1>9. \A m \in Nodes : Counted(m, d)' BY <1>1 DEF GInv, Counted
  <1>10. \A g \in Groups : (Cardinality(Cordoned(g)) <= MaxNodes)' BY <1>1 DEF GInv, Cordoned
  <1> QED BY <1>1, <1>2, <1>4, <1>5, <1>7, <1>8, <1>9, <1>10 DEF GInv

\* What the patch brings to the node.
LEMMA PatchFields ==
  ASSUME NEW d \in Profiles, GInv(d), Patch
  PROVE  /\ cur \in Nodes
         /\ \A n \in Nodes :
              \/ api'[n] = api[n]
              \/ /\ n = cur /\ api'[n].unschedulable = mem.unschedulable
                 /\ api'[n].data = mem.data /\ api'[n].state = mem.state
                 /\ api'[n].group = api[n].group
  <1>1. pc = "patch" BY DEF Patch
  <1>2. Held /\ Granted /\ api \in [Nodes -> NodeObject] /\ cur \in Nodes
    BY <1>1 DEF GInv, SInv, TInv, TypeOK
  <1>3. /\ Merge(api[cur]).unschedulable = mem.unschedulable
        /\ Merge(api[cur]).data = mem.data
        /\ Merge(api[cur]).state = mem.state
        /\ Merge(api[cur]).group = api[cur].group
    BY <1>2 DEF Merge, Held, Granted
  <1>4. api' = api \/ api' = [api EXCEPT ![cur] = Merge(api[cur])] BY DEF Patch
  <1> QED BY <1>2, <1>3, <1>4

\* The node that is cordoned takes the place that was found for it: the nodes of its group
\* that are out of service are among those that were counted.
LEMMA PatchPlace ==
  ASSUME NEW d \in Profiles, GInv(d), Patch, NEW g \in Groups
  PROVE  \/ Cordoned(g)' = Cordoned(g)
         \/ cur \in Cordoned(g) /\ Cordoned(g)' = Cordoned(g) \ {cur}
         \/ /\ cur \in Nodes /\ cur \notin Cordoned(g) /\ Cardinality(Cordoned(g)) < MaxNodes
            /\ Cordoned(g)' = Cordoned(g) \cup {cur}
  <1>1. /\ cur \in Nodes
        /\ \A n \in Nodes :
             \/ api'[n] = api[n]
             \/ /\ n = cur /\ api'[n].unschedulable = mem.unschedulable
                /\ api'[n].group = api[n].group
    BY PatchFields
  <1>2. \A n \in Nodes : n # cur => (n \in Cordoned(g)' <=> n \in Cordoned(g))
    BY <1>1 DEF Cordoned
  <1>3. Cordoned(g) \subseteq Nodes /\ Cordoned(g)' \subseteq Nodes BY DEF Cordoned
  <1>4. CASE cur \in Cordoned(g) \/ cur \notin Cordoned(g)' BY <1>2, <1>3, <1>4
  <1>5. CASE cur \notin Cordoned(g) /\ cur \in Cordoned(g)'
    <2>1. mem.unschedulable /\ ~api[cur].unschedulable /\ api[cur].group = g
      BY <1>1, <1>5 DEF Cordoned
    <2>2. Granted BY DEF GInv, Patch
    <2>3. Cardinality(Maintained(cur, api)) < MaxNodes BY <2>1, <2>2 DEF Granted, maxMaintenance
    <2>4. Cordoned(g) \subseteq Maintained(cur, api)
      BY <2>1 DEF Cordoned, Maintained, GInv, Counted
    <2>5. IsFiniteSet(Nodes) /\ MaxNodes \in Nat BY WorkflowAssumption
    <2>6. Maintained(cur, api) \subseteq Nodes BY DEF Maintained
    <2>7. IsFiniteSet(Maintained(cur, api)) BY <2>5, <2>6, FS_Subset
    <2>8. IsFiniteSet(Cordoned(g)) /\ Cardinality(Cordoned(g)) <= Cardinality(Maintained(cur, api))
      BY <2>4, <2>7, FS_Subset
    <2>9. Cardinality(Cordoned(g)) \in Nat /\ Cardinality(Maintained(cur, api)) \in Nat
      BY <2>7, <2>8, FS_CardinalityType
    <2>10. Cardinality(Cordoned(g)) < MaxNodes BY <2>3, <2>5, <2>8, <2>9
    <2> QED BY <1>1, <1>2, <1>3, <1>5, <2>10
  <1> QED BY <1>4, <1>5

LEMMA PatchGroup ==
  ASSUME NEW d \in Profiles, Disciplined(d), GInv(d), Patch PROVE GInv(d)'
  <1>1. pc = "patch" /\ pc' = "idle" BY DEF Patch, IdleWorker
  <1>2. SInv(d)' BY SInvStep DEF GInv, Disciplined, Next, Worker
  <1>3. ASSUME NEW n \in Nodes PROVE Counted(n, d)'
    <2>1. mem.unschedulable => mem.data[d].current = InMaintenance /\ mem.state = InMaintenance
      BY <1>1 DEF GInv
    <2>2. CASE api'[n] = api[n] BY <2>2 DEF GInv, Counted
    <2>3. CASE /\ api'[n].unschedulable = mem.unschedulable
               /\ api'[n].data = mem.data /\ api'[n].state = mem.state
      BY <2>1, <2>3 DEF Counted
    <2> QED BY <2>2, <2>3, PatchFields
  <1>4. ASSUME NEW g \in Groups PROVE (Cardinality(Cordoned(g)) <= MaxNodes)'
    <2> DEFINE S == Cordoned(g)
    <2>1. IsFiniteSet(Nodes) /\ MaxNodes \in Nat BY WorkflowAssumption
    <2>2. S \subseteq Nodes BY DEF Cordoned
    <2>3. IsFiniteSet(S) BY <2>1, <2>2, FS_Subset
    <2>4. Cardinality(S) \in Nat /\ Cardinality(S) <= MaxNodes
      BY <2>3, FS_CardinalityType DEF GInv
    <2>5. CASE S' = S BY <2>4, <2>5
    <2>6. CASE cur \in S /\ S' = S \ {cur}
      <3>1. Cardinality(S \ {cur}) = Cardinality(S) - 1 BY <2>3, <2>6, FS_RemoveElement
      <3> QED BY <2>1, <2>4, <2>6, <3>1
    <2>7. CASE cur \notin S /\ Cardinality(S) < MaxNodes /\ S' = S \cup {cur}
      <3>1. Cardinality(S \cup {cur}) = Cardinality(S) + 1 BY <2>3, <2>7, FS_AddElement
      <3> QED BY <2>1, <2>4, <2>7, <3>1
    <2> QED BY <2>5, <2>6, <2>7, PatchPlace
  <1> QED BY <1>1, <1>2, <1>3, <1>4 DEF GInv

\* Nobody but the worker writes what the group depends on.
LEMMA EnvironmentFields ==
  ASSUME TInv, Environment
  PROVE  /\ UNCHANGED <<pc, cur, snap, mem, next>>
         /\ \A m \in Nodes : /\ api'[m].unschedulable = api[m].unschedulable
                             /\ api'[m].data = api[m].data /\ api'[m].state = api[m].state
                             /\ api'[m].group = api[m].group
  <1>1. api \in [Nodes -> NodeObject] BY DEF TInv, TypeOK
  <1>2. /\ UNCHANGED <<pc, cur, snap, mem, next>>
        /\ \/ api' = api
           \/ \E n \in Nodes : \E marks : api' = [api EXCEPT ![n] = [api[n] EXCEPT !.marks = marks]]
    BY DEF Environment, Outage, Need, Approve, Maintain, SetMarks, Schedule, GraceExceeded,
           PodStops, SetPod, Idle, env
  <1> QED BY <1>1, <1>2 DEF NodeObject

LEMMA EnvironmentGroup ==
  ASSUME NEW d \in Profiles, Disciplined(d), GInv(d), Environment PROVE GInv(d)'
  <1>1. SInv(d)' BY SInvStep DEF GInv, Disciplined, Next
  <1>2. TInv /\ cur \in Nodes BY DEF GInv, SInv, TInv, TypeOK
  <1>3. UNCHANGED <<pc, cur, snap, mem, next>> BY <1>2, EnvironmentFields
  <1>4. \A m \in Nodes : /\ api'[m].unschedulable = api[m].unschedulable
                         /\ api'[m].data = api[m].data /\ api'[m].state = api[m].state
                         /\ api'[m].group = api[m].group
    BY <1>2, EnvironmentFields
  <1>5. \A n \in Nodes : Counted(n, d)' BY <1>4 DEF GInv, Counted
  <1>6. ASSUME NEW g \in Groups PROVE (Cardinality(Cordoned(g)) <= MaxNodes)'
    <2>1. Cordoned(g)' = Cordoned(g) BY <1>4 DEF Cordoned
    <2> QED BY <2>1 DEF GInv
  <1>7. Maintained(cur, api)' = Maintained(cur, api) BY <1>2, <1>3, <1>4 DEF Maintained
  <1>8. Granted => Granted' BY <1>2, <1>3, <1>4, <1>7 DEF Granted, maxMaintenance
  <1> QED BY <1>1, <1>3, <1>5, <1>6, <1>8 DEF GInv

LEMMA GInvStep ==
  ASSUME NEW d \in Profiles, Disciplined(d)
  PROVE  GInv(d) /\ [Next]_vars => GInv(d)'
  <1> SUFFICES ASSUME GInv(d), [Next]_vars PROVE GInv(d)' OBVIOUS
  <1>1. CASE Environment BY <1>1, EnvironmentGroup
  <1>2. CASE EnterState BY <1>2, EnterGroup
  <1>3. CASE ApplyError
    <2>1. pc = "check" /\ UNCHANGED <<mem, next>> BY <1>3 DEF ApplyError
    <2>2. mem.unschedulable => next[d] = InMaintenance BY <2>1 DEF GInv
    <2> QED BY <1>3, <2>1, <2>2, LoopGroup
  <1>4. CASE ApplyProfile BY <1>4, ApplyGroup
  <1>5. CASE ApplyFailed \/ NothingToPatch \/ Restart
    <2>1. pc' = "idle" /\ UNCHANGED api
      BY <1>5 DEF ApplyFailed, NothingToPatch, Restart, IdleWorker
    <2>2. SInv(d)' BY SInvStep DEF GInv, Disciplined
    <2> QED BY <2>1, <2>2 DEF GInv, Counted, Cordoned
  <1>6. CASE CommitProfiles BY <1>6, CommitGroup
  <1>7. CASE Patch BY <1>7, PatchGroup
  <1>8. ASSUME NEW n \in Nodes, Reconcile(n) PROVE GInv(d)' BY <1>8, ReconcileGroup
  <1>9. CASE UNCHANGED vars
    <2>1. SInv(d)' BY SInvStep DEF GInv, Disciplined
    <2> QED BY <1>9, <2>1 DEF vars, GInv, Counted, Cordoned, Granted
  <1> QED BY <1>1, <1>2, <1>3, <1>4, <1>5, <1>6, <1>7, <1>8, <1>9 DEF Next, Worker

LEMMA GInvInit == ASSUME NEW d \in Profiles, Init PROVE GInv(d)
  <1>1. PICK g \in [Nodes -> Groups] : api = [n \in Nodes |-> NewNode(g[n])] BY DEF Init
  <1>2. \A n \in Nodes : ~api[n].unschedulable BY <1>1 DEF NewNode
  <1>3. \A n \in Nodes : Counted(n, d) BY <1>2 DEF Counted
  <1>4. ASSUME NEW h \in Groups PROVE Cardinality(Cordoned(h)) <= MaxNodes
    <2>1. Cordoned(h) = {} BY <1>2 DEF Cordoned
    <2> QED BY <2>1, FS_EmptySet, WorkflowAssumption
  <1>5. SInv(d) BY SInvInit
  <1> QED BY <1>3, <1>4, <1>5 DEF GInv, Init

\* Who has permission is cordoned: the cordoned nodes are the ones out of service.
LEMMA AbsentCordoned ==
  ASSUME NEW d \in Profiles, GInv(d), NEW g PROVE Absent(g) = Cordoned(g)
  <1>1. \A n \in Nodes : Safe(n) BY DEF GInv, SInv
  <1> QED BY <1>1 DEF Absent, OutOfService, Cordoned, Safe

\* The places of group g, taken by its nodes that are out of service.
Places(g) == INSTANCE MaintenanceSlots WITH busy <- Absent(g)

\* Only a patch takes nodes out of service or brings them back, one at a time.
LEMMA PlacesStep ==
  ASSUME NEW d \in Profiles, GInv(d), GInv(d)', [Next]_vars, NEW g \in Groups
  PROVE  [Places(g)!SlotsNext]_(Absent(g))
  <1>0. \A n \in Nodes : Safe(n)' BY DEF GInv, SInv
  <1>a. Absent(g)' = Cordoned(g)' BY <1>0 DEF Absent, OutOfService, Cordoned, Safe
  <1>1. Absent(g) = Cordoned(g) /\ Absent(g)' = Cordoned(g)' BY <1>a, AbsentCordoned
  <1>2. CASE Patch
    <2>1. CASE Cordoned(g)' = Cordoned(g) BY <1>1, <2>1
    <2>2. CASE cur \in Cordoned(g) /\ Cordoned(g)' = Cordoned(g) \ {cur}
      <3>1. cur \in Nodes BY <2>2 DEF Cordoned
      <3>2. Places(g)!Release(cur) BY <1>1, <2>2 DEF Places!Release
      <3> QED BY <3>1, <3>2 DEF Places!SlotsNext
    <2>3. CASE /\ cur \in Nodes /\ cur \notin Cordoned(g) /\ Cardinality(Cordoned(g)) < MaxNodes
               /\ Cordoned(g)' = Cordoned(g) \cup {cur}
      <3>1. Places(g)!Cardinality(Absent(g)) = Cardinality(Absent(g))
        BY DEF Cardinality, Places!Cardinality
      <3>2. Places(g)!Acquire(cur) BY <1>1, <2>3, <3>1 DEF Places!Acquire
      <3> QED BY <2>3, <3>2 DEF Places!SlotsNext
    <2> QED BY <1>2, <2>1, <2>2, <2>3, PatchPlace
  <1>3. CASE Environment
    <2>1. TInv BY DEF GInv, SInv
    <2>2. Cordoned(g)' = Cordoned(g) BY <1>3, <2>1, EnvironmentFields DEF Cordoned
    <2> QED BY <1>1, <2>2
  <1>4. CASE api' = api
    <2>1. Cordoned(g)' = Cordoned(g) BY <1>4 DEF Cordoned
    <2> QED BY <1>1, <2>1
  <1>5. Patch \/ Environment \/ api' = api
    BY DEF Next, Worker, vars, EnterState, NextProfile, ApplyError, ApplyProfile, ApplyFailed,
           NothingToPatch, CommitProfiles, Restart, Reconcile
  <1> QED BY <1>2, <1>3, <1>4, <1>5

\* In a workflow whose ways into maintenance all ask maxMaintenance and whose ways out
\* all uncordon the node, no group ever has more than MaxNodes nodes that are cordoned or
\* handed to the update agent, for any number of nodes, groups, pods and other profiles,
\* whatever fails between the check and the patch and whenever the controller restarts.
THEOREM GroupInServiceCorrect ==
  ASSUME NEW d \in Profiles, Disciplined(d) PROVE Spec => []GroupInService
  <1>1. Init => GInv(d) BY GInvInit
  <1>2. GInv(d) => GroupInService BY AbsentCordoned DEF GInv, GroupInService
  <1> QED BY <1>1, <1>2, GInvStep, PTL DEF Spec

\* Initially all nodes are in service.
LEMMA PlacesInit == ASSUME Init, NEW g \in Groups PROVE Places(g)!SlotsInit
  <1>1. PICK h \in [Nodes -> Groups] : api = [n \in Nodes |-> NewNode(h[n])] BY DEF Init
  <1>2. Absent(g) = {} BY <1>1 DEF Absent, OutOfService, NewNode
  <1> QED BY <1>2 DEF Places!SlotsInit

\* Such a workflow implements MaintenanceSlots for each of its groups: a node is cordoned
\* on the API server only while its group has a place left, and nodes go out of service
\* and come back one at a time, with the steps of a reconciliation, retries of the drain
\* and restarts in between.
THEOREM GroupImplementsSlots ==
  ASSUME NEW d \in Profiles, Disciplined(d), NEW CONSTANT g \in Groups
  PROVE  Spec => Places(g)!SlotsSpec
  <1>1. Init => GInv(d) BY GInvInit
  <1>2. Init => Places(g)!SlotsInit BY PlacesInit
  <1>3. GInv(d) /\ GInv(d)' /\ [Next]_vars => [Places(g)!SlotsNext]_(Absent(g)) BY PlacesStep
  <1> QED BY <1>1, <1>2, <1>3, GInvStep, PTL DEF Spec, Places!SlotsSpec
=============================================================================
