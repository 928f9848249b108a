---------------------------- MODULE StaggerProofs ----------------------------
(***************************************************************************)
(* Proofs about Stagger, for any number of nodes and leases and any        *)
(* duration.                                                               *)
(***************************************************************************)
EXTENDS Stagger, FiniteSetTheorems, TLAPS

\* What staggering needs: a reconciliation begins with a cache that has caught up,
\* and the duration is a number of full seconds.
Punctual == "lag" \notin Faults /\ LeaseDuration = Duration

\* The lease durations are integers, and there is a first lease.
LEMMA Numbers == Duration \in Nat /\ Duration > 0 /\ 0 \in Leases /\ Leases \subseteq Nat
  BY StaggerAssumption DEF Leases

\* The fields of what the history and the leases hold.
LEMMA FieldTypes ==
  ASSUME TypeOK
  PROVE  /\ \A j \in DOMAIN grabs : /\ grabs[j].node \in Nodes /\ grabs[j].lease \in Leases
                                    /\ grabs[j].time \in Nat
         /\ \A i \in Leases : lease[i].renew \in Int /\ cache[i].renew \in Int
  <1>1. \A j \in DOMAIN grabs : grabs[j] \in Grab BY DEF TypeOK
  <1>2. \A i \in Leases : lease[i] \in Lease /\ cache[i] \in Lease BY DEF TypeOK
  <1> QED BY <1>1, <1>2 DEF Grab, Lease

\* Every step keeps the types.
LEMMA TypeStep == TypeOK /\ [Next]_vars => TypeOK'
  <1> SUFFICES ASSUME TypeOK, [Next]_vars PROVE TypeOK' OBVIOUS
  <1> USE DEF TypeOK
  <1>1. CASE Tick BY <1>1 DEF Tick
  <1>2. ASSUME NEW i \in Leases, Deliver(i) PROVE TypeOK' BY <1>2 DEF Deliver
  <1>3. ASSUME NEW n \in Nodes, Reconcile(n) PROVE TypeOK' BY <1>3 DEF Reconcile
  <1>4. CASE ReconcileEnd \/ NoTransition \/ CreateFails \/ GrabFails
    BY <1>4 DEF ReconcileEnd, NoTransition, CreateFails, GrabFails, GoOn
  <1>5. CASE Check BY <1>5, Numbers DEF Check, GoOn
  <1>6. CASE CheckHeld
    <2>1. index' \in Leases BY <1>6, StaggerAssumption DEF CheckHeld, Leases
    <2> QED BY <1>6, <2>1 DEF CheckHeld, GoOn
  <1>7. CASE CheckFree BY <1>7 DEF CheckFree, GoOn
  <1>8. CASE getOrCreateLease
    <2>1. Renewed(now - 2 * Duration) \in Lease BY Numbers DEF Renewed, Lease
    <2> QED BY <1>8, <2>1 DEF getOrCreateLease, GoOn
  <1>9. CASE grabLease
    <2>1. Renewed(now) \in Lease BY DEF Renewed, Lease
    <2>2. grabIndex \in Leases BY <1>9 DEF grabLease
    <2>3. [node |-> cur, lease |-> grabIndex, time |-> now] \in Grab
      BY <2>2 DEF Grab
    <2>4. grabs' \in Seq(Grab) BY <1>9, <2>3 DEF grabLease
    <2> QED BY <1>9, <2>1, <2>4 DEF grabLease, GoOn
  <1>10. CASE Restart BY <1>10 DEF Restart
  <1>11. CASE UNCHANGED vars BY <1>11 DEF vars
  <1> QED BY <1>1, <1>2, <1>3, <1>4, <1>5, <1>6, <1>7, <1>8, <1>9, <1>10, <1>11
          DEF Next, Worker

\* Every variable keeps its type, whatever fails.
THEOREM StaggerTypeCorrect == Spec => []TypeOK
  <1>1. Init => TypeOK BY Numbers DEF Init, TypeOK, None, Lease
  <1> QED BY <1>1, TypeStep, PTL DEF Spec

-----------------------------------------------------------------------------
(* The invariant *)

\* Grabs lie in the past and are known to the API server.
Recorded ==
  \A j \in DOMAIN grabs :
    /\ grabs[j].time <= now
    /\ lease[grabs[j].lease].exists
    /\ grabs[j].time <= lease[grabs[j].lease].renew

\* The worker sees the grabs of other nodes.
Seen ==
  pc # "idle" =>
    \A j \in DOMAIN grabs :
      grabs[j].node # cur /\ cache[grabs[j].lease].exists
        => grabs[j].time <= cache[grabs[j].lease].renew

\* The lease that OnTransition will grab was not grabbed lately by another node.
Clear ==
  /\ pc = "check" => grabIndex = noGrab
  /\ pc = "checked" /\ grabIndex # noGrab =>
       \A j \in DOMAIN grabs :
         grabs[j].node # cur /\ grabs[j].lease = grabIndex => now - grabs[j].time > Duration

SInv == TypeOK /\ Recorded /\ Seen /\ Clear /\ Staggered

\* The clock, and steps that change nothing.
LEMMA QuietStep ==
  ASSUME SInv, TypeOK', UNCHANGED <<lease, cache, pc, cur, grabIndex, grabs>>,
         now' \in {now, now + 1}
  PROVE  SInv'
  <1>t. TypeOK BY DEF SInv
  <1>n. now \in Nat BY <1>t DEF TypeOK
  <1>1. Recorded' BY <1>t, <1>n, FieldTypes DEF SInv, Recorded
  <1>2. Seen' BY DEF SInv, Seen
  <1>3. Clear' BY <1>t, <1>n, FieldTypes, Numbers DEF SInv, Clear
  <1>4. Staggered' BY DEF SInv, Staggered
  <1> QED BY <1>1, <1>2, <1>3, <1>4 DEF SInv

\* A lease that passes the check is clear.
LEMMA FreeStep ==
  ASSUME Punctual, SInv, TypeOK', CheckFree PROVE SInv'
  <1>1. Recorded' /\ Seen' /\ Staggered'
    BY DEF SInv, CheckFree, GoOn, Recorded, Seen, Staggered
  <1>2. Clear'
    <2> SUFFICES ASSUME NEW j \in DOMAIN grabs, grabs[j].node # cur, grabs[j].lease = index
                 PROVE  now - grabs[j].time > Duration
      BY DEF Clear, CheckFree, GoOn
    <2>1. grabs[j].time <= cache[index].renew BY DEF SInv, Seen, CheckFree
    <2>2. now - cache[index].renew > Duration BY DEF Punctual, CheckFree
    <2>3. grabs[j].time \in Nat /\ now \in Nat /\ cache[index].renew \in Int
      BY FieldTypes DEF SInv, TypeOK
    <2> QED BY <2>1, <2>2, <2>3, Numbers
  <1> QED BY <1>1, <1>2 DEF SInv

\* A lease is only created if nobody ever grabbed it.
LEMMA CreateStep ==
  ASSUME SInv, TypeOK', getOrCreateLease PROVE SInv'
  <1>1. \A j \in DOMAIN grabs : grabs[j].lease # index
    BY DEF SInv, Recorded, getOrCreateLease
  <1>2. Recorded'
    <2>1. \A j \in DOMAIN grabs : lease'[grabs[j].lease] = lease[grabs[j].lease]
      BY <1>1, FieldTypes DEF SInv, TypeOK, getOrCreateLease
    <2>2. grabs' = grabs /\ now' = now BY DEF getOrCreateLease, GoOn
    <2> QED BY <2>1, <2>2 DEF SInv, Recorded
  <1>3. Seen' /\ Staggered'
    BY DEF SInv, Seen, Staggered, getOrCreateLease, GoOn
  <1>4. Clear' BY <1>1 DEF Clear, getOrCreateLease, GoOn
  <1> QED BY <1>2, <1>3, <1>4 DEF SInv

\* A grab of a clear lease is far enough from the others.
LEMMA GrabStep ==
  ASSUME SInv, TypeOK', grabLease PROVE SInv'
  <1> DEFINE g == [node |-> cur, lease |-> grabIndex, time |-> now]
  <1>1. grabIndex \in Leases BY DEF SInv, TypeOK, grabLease
  <1>2. lease'[grabIndex] = Renewed(now) BY <1>1 DEF SInv, TypeOK, grabLease
  <1>3. \A i \in Leases \ {grabIndex} : lease'[i] = lease[i] BY DEF SInv, TypeOK, grabLease
  <1>4. \A j \in DOMAIN grabs : /\ grabs[j].lease \in Leases /\ grabs[j].time \in Nat
                                /\ lease[grabs[j].lease].renew \in Int
    BY FieldTypes DEF SInv
  <1>5. now \in Nat BY DEF SInv, TypeOK
  <1>6. grabs' = grabs \/ grabs' = Append(grabs, g) BY DEF grabLease
  <1>7. \A j \in DOMAIN grabs' :
          \/ j \in DOMAIN grabs /\ grabs'[j] = grabs[j]
          \/ j = Len(grabs) + 1 /\ grabs'[j] = g
    <2>1. grabs \in Seq(Grab) BY DEF SInv, TypeOK
    <2>2. CASE grabs' = grabs BY <2>2
    <2>3. CASE grabs' = Append(grabs, g)
      <3>1. DOMAIN grabs' = 1 .. Len(grabs) + 1 /\ DOMAIN grabs = 1 .. Len(grabs)
            /\ Len(grabs) \in Nat
        BY <2>1, <2>3
      <3>2. grabs'[Len(grabs) + 1] = g /\ \A j \in 1 .. Len(grabs) : grabs'[j] = grabs[j]
        BY <2>1, <2>3
      <3> QED BY <3>1, <3>2
    <2> QED BY <1>6, <2>2, <2>3
  <1>8. pc' = "profile" /\ cur' = cur /\ cache' = cache BY DEF grabLease, GoOn
  <1>9. Recorded'
    <2>1. now' = now BY DEF grabLease, GoOn
    <2>2. ASSUME NEW j \in DOMAIN grabs'
          PROVE  /\ grabs'[j].time <= now /\ lease'[grabs'[j].lease].exists
                 /\ grabs'[j].time <= lease'[grabs'[j].lease].renew
      <3>1. CASE grabs'[j] = g BY <1>2, <1>5, <3>1 DEF Renewed
      <3>2. CASE j \in DOMAIN grabs /\ grabs'[j] = grabs[j]
        BY <1>1, <1>2, <1>3, <1>4, <1>5, <3>2 DEF SInv, Recorded, Renewed
      <3> QED BY <1>7, <3>1, <3>2
    <2> QED BY <2>1, <2>2 DEF Recorded
  <1>10. Seen' BY <1>7, <1>8 DEF SInv, Seen, grabLease
  <1>11. Clear' BY <1>8 DEF Clear
  <1>12. Staggered'
    <2> SUFFICES ASSUME NEW j \in DOMAIN grabs', NEW k \in DOMAIN grabs', j < k,
                        grabs'[j].node # grabs'[k].node,
                        grabs'[k].time - grabs'[j].time <= Duration
                 PROVE  grabs'[j].lease # grabs'[k].lease
      BY DEF Staggered
    <2>1. j \in DOMAIN grabs /\ grabs'[j] = grabs[j] BY <1>6, <1>7 DEF SInv, TypeOK
    <2>2. CASE k \in DOMAIN grabs /\ grabs'[k] = grabs[k]
      BY <2>1, <2>2 DEF SInv, Staggered
    <2>3. CASE grabs'[k] = g
      <3>1. grabs[j].node # cur /\ now - grabs[j].time <= Duration BY <2>1, <2>3
      <3>2. ~(now - grabs[j].time > Duration) BY <1>4, <1>5, <2>1, <3>1, Numbers
      <3> QED BY <2>1, <2>3, <3>1, <3>2 DEF SInv, Clear, grabLease
    <2> QED BY <1>7, <2>2, <2>3
  <1> QED BY <1>9, <1>10, <1>11, <1>12 DEF SInv

\* The invariant is kept by every step.
LEMMA SInvStep == ASSUME Punctual PROVE SInv /\ [Next]_vars => SInv'
  <1> SUFFICES ASSUME SInv, [Next]_vars PROVE SInv' OBVIOUS
  <1>t. TypeOK' BY TypeStep DEF SInv
  <1>1. CASE Tick BY <1>1, <1>t, QuietStep DEF Tick
  <1>2. CASE \/ ReconcileEnd \/ NoTransition \/ CreateFails \/ GrabFails
             \/ Check \/ CheckHeld
    <2>1. UNCHANGED <<lease, cache, cur, grabs>> /\ now' = now /\ pc # "idle"
      BY <1>2 DEF ReconcileEnd, NoTransition, CreateFails, GrabFails, Check, CheckHeld, GoOn
    <2>2. Recorded' /\ Staggered' BY <2>1 DEF SInv, Recorded, Staggered
    <2>3. Seen' BY <2>1 DEF SInv, Seen
    <2>4. Clear'
      BY <1>2 DEF ReconcileEnd, NoTransition, CreateFails, GrabFails, Check, CheckHeld, GoOn,
                  SInv, Clear, noGrab
    <2> QED BY <1>t, <2>2, <2>3, <2>4 DEF SInv
  <1>3. ASSUME NEW i \in Leases, Deliver(i) PROVE SInv'
    <2>1. Recorded' /\ Clear' /\ Staggered'
      BY <1>3 DEF Deliver, SInv, Recorded, Clear, Staggered
    <2>2. Seen' BY <1>3 DEF Deliver, SInv, TypeOK, Seen, Recorded
    <2> QED BY <1>t, <2>1, <2>2 DEF SInv
  <1>4. ASSUME NEW n \in Nodes, Reconcile(n) PROVE SInv'
    <2>1. Recorded' /\ Clear' /\ Staggered'
      BY <1>4 DEF Reconcile, SInv, Recorded, Clear, Staggered
    <2>2. Seen' BY <1>4 DEF Reconcile, Punctual, SInv, Seen, Recorded
    <2> QED BY <1>t, <2>1, <2>2 DEF SInv
  <1>5. CASE Restart
    <2>1. Recorded' /\ Seen' /\ Clear' /\ Staggered'
      BY <1>5 DEF Restart, SInv, Recorded, Seen, Clear, Staggered
    <2> QED BY <1>t, <2>1 DEF SInv
  <1>6. CASE UNCHANGED vars BY <1>6, <1>t, QuietStep DEF vars
  <1> QED BY <1>1, <1>2, <1>3, <1>4, <1>5, <1>6, <1>t, FreeStep, CreateStep, GrabStep
          DEF Next, Worker

\* Nodes that pass within the duration hold different leases, for any number of
\* nodes and leases, with rejected writes, lost replies and restarts at any step, if
\* reconciliations begin with a cache that has caught up and the duration is one of
\* full seconds.
THEOREM StaggeredCorrect == ASSUME Punctual PROVE Spec => []Staggered
  <1>1. Init => SInv
    <2>1. Init => TypeOK BY Numbers DEF Init, TypeOK, None, Lease
    <2> QED BY <2>1 DEF Init, SInv, Recorded, Seen, Clear, Staggered
  <1>2. SInv => Staggered BY DEF SInv
  <1> QED BY <1>1, <1>2, SInvStep, PTL DEF Spec

\* The nodes that passed from t on for as long as the duration.
PassedWithin(t) ==
  {grabs[k].node : k \in {j \in DOMAIN grabs : grabs[j].time \in t .. t + Duration}}

\* There are as many leases as Parallel says.
LEMMA LeaseCount == IsFiniteSet(Leases) /\ Cardinality(Leases) = Parallel
  <1>1. Parallel \in Nat /\ Parallel > 0 BY StaggerAssumption
  <1>2. IsFiniteSet(0 .. Parallel - 1) /\ Cardinality(0 .. Parallel - 1) = Parallel
    BY <1>1, FS_Interval
  <1> QED BY <1>2 DEF Leases

\* Each of those nodes holds a lease of its own.
LEMMA OwnLease ==
  ASSUME TypeOK, Staggered, NEW t \in Nat
  PROVE  \E f \in [PassedWithin(t) -> Leases] : IsInjective(f)
  <1> DEFINE Within == {j \in DOMAIN grabs : grabs[j].time \in t .. t + Duration}
             Of(n) == CHOOSE k \in Within : grabs[k].node = n
             f == [n \in PassedWithin(t) |-> grabs[Of(n)].lease]
  <1>1. \A n \in PassedWithin(t) : Of(n) \in Within /\ grabs[Of(n)].node = n
    BY DEF PassedWithin
  <1>2. \A k \in Within : /\ k \in DOMAIN grabs /\ k \in Nat /\ grabs[k] \in Grab
                          /\ grabs[k].time >= t /\ grabs[k].time <= t + Duration
    BY StaggerAssumption DEF TypeOK
  <1>3. \A k \in Within : grabs[k].lease \in Leases /\ grabs[k].time \in Nat BY <1>2 DEF Grab
  <1> HIDE DEF Within
  <1>4. ASSUME NEW j \in Within, NEW k \in Within, grabs[j].node # grabs[k].node
        PROVE  grabs[j].lease # grabs[k].lease
    <2>1. /\ grabs[k].time - grabs[j].time <= Duration
          /\ grabs[j].time - grabs[k].time <= Duration
      BY <1>2, <1>3, StaggerAssumption
    <2>2. j < k \/ k < j BY <1>2, <1>4
    <2> QED BY <1>2, <1>4, <2>1, <2>2 DEF Staggered
  <1> HIDE DEF Of
  <1>5. f \in [PassedWithin(t) -> Leases] BY <1>1, <1>3
  <1>6. \A m, n \in PassedWithin(t) : m # n => f[m] # f[n] BY <1>1, <1>4
  <1>7. IsInjective(f) BY <1>5, <1>6 DEF IsInjective
  <1> QED BY <1>5, <1>7

\* No more than Parallel nodes pass within a duration.
AtMostParallel ==
  \A t \in Nat : IsFiniteSet(PassedWithin(t)) /\ Cardinality(PassedWithin(t)) <= Parallel

\* What the check is for: in no stretch of time of the configured duration do more than
\* Parallel nodes pass it, however many nodes there are (Stagger.Check,
\* Stagger.OnTransition).
THEOREM ParallelCorrect == ASSUME Punctual PROVE Spec => []AtMostParallel
  <1>1. TypeOK /\ Staggered => AtMostParallel
    <2> SUFFICES ASSUME TypeOK, Staggered, NEW t \in Nat
                 PROVE  IsFiniteSet(PassedWithin(t)) /\ Cardinality(PassedWithin(t)) <= Parallel
      BY DEF AtMostParallel
    <2>1. PICK f \in Injection(PassedWithin(t), Leases) : TRUE BY OwnLease DEF Injection
    <2>2. /\ IsFiniteSet(PassedWithin(t))
          /\ Cardinality(PassedWithin(t)) <= Cardinality(Leases)
      BY <2>1, LeaseCount, FS_Injection
    <2> QED BY <2>2, LeaseCount
  <1> QED BY <1>1, StaggerTypeCorrect, StaggeredCorrect, PTL
==============================================================================
