------------------------------ MODULE Stagger ------------------------------
(***************************************************************************)
(* The stagger check: a node passes if one of Parallel leases was not      *)
(* renewed for a while, and renews it when it makes the transition.        *)
(*                                                                         *)
(* The worker of the node controller reconciles one node at a time.  In a  *)
(* reconciliation the chains of a profile are checked one after the other, *)
(* then OnTransition is called for the first one that passed, and so on    *)
(* for the next profile.  Leases are read from an informer cache.  Time is *)
(* counted in units of which a second has several.                         *)
(*                                                                         *)
(* What may go wrong in a run is the constant Faults:                      *)
(*   "api"     the API server rejects a write                              *)
(*   "lost"    the reply to a write is lost                                *)
(*   "crash"   the controller restarts                                     *)
(*   "lag"     the cache of leases is behind when a reconciliation begins  *)
(***************************************************************************)
EXTENDS Integers, Sequences

CONSTANTS
  Nodes,
  Parallel,   \* the number of leases
  Duration,   \* the configured duration
  Second,     \* the units in a second
  MaxTime,    \* bound: the clock stops here
  MaxGrabs,   \* bound on the history
  Faults

ASSUME StaggerAssumption ==
  /\ Parallel \in Nat \ {0} /\ Duration \in Nat \ {0} /\ Second \in Nat \ {0}
  /\ MaxTime \in Nat /\ MaxGrabs \in Nat

VARIABLES
  now,         \* the clock
  lease,       \* the RenewTime of each lease on the API server
  cache,       \* the same in the informer cache
  pc,          \* where the worker is
  cur,         \* the node it reconciles
  index,       \* the lease Check looks at
  grabIndex,   \* the lease OnTransition will grab
  grabs        \* history: who grabbed which lease when

vars == <<now, lease, cache, pc, cur, index, grabIndex, grabs>>

Leases == 0 .. Parallel - 1
noGrab == -1

\* A RenewTime, or none if the lease does not exist.
None == [exists |-> FALSE, renew |-> 0]
Renewed(t) == [exists |-> TRUE, renew |-> t]
Lease == [exists: BOOLEAN, renew: Int]

Grab == [node: Nodes, lease: Leases, time: Nat]

\* LeaseDurationSeconds holds full seconds.
LeaseDuration == (Duration \div Second) * Second

-----------------------------------------------------------------------------
(* The environment *)

Tick == now < MaxTime /\ now' = now + 1
        /\ UNCHANGED <<lease, cache, pc, cur, index, grabIndex, grabs>>

Deliver(i) ==
  /\ cache[i] # lease[i]
  /\ cache' = [cache EXCEPT ![i] = lease[i]]
  /\ UNCHANGED <<now, lease, pc, cur, index, grabIndex, grabs>>

-----------------------------------------------------------------------------
(* The worker *)

GoOn(step) == pc' = step /\ UNCHANGED <<now, cache, cur>>

Reconcile(n) ==
  /\ pc = "idle"
  /\ "lag" \in Faults \/ cache = lease
  /\ pc' = "profile"
  /\ cur' = n
  /\ UNCHANGED <<now, lease, cache, index, grabIndex, grabs>>

ReconcileEnd ==
  /\ pc = "profile"
  /\ GoOn("idle")
  /\ UNCHANGED <<lease, index, grabIndex, grabs>>

\* A chain with the stagger check is evaluated, the first of a profile or another one.
Check ==
  /\ pc \in {"profile", "checked"}
  /\ GoOn("check")
  /\ index' = 0
  /\ grabIndex' = noGrab
  /\ UNCHANGED <<lease, grabs>>

\* Mutant: Check looks for one lease too many.
CheckHeldTooFar ==
  /\ pc = "check"
  /\ cache[index].exists /\ now - cache[index].renew <= LeaseDuration
  /\ index' = index + 1
  /\ GoOn(IF index = Parallel THEN "checked" ELSE "check")
  /\ UNCHANGED <<lease, grabIndex, grabs>>

\* The lease was renewed lately.  Without another one to look at, the check fails.
CheckHeld ==
  /\ pc = "check"
  /\ cache[index].exists /\ now - cache[index].renew <= LeaseDuration
  /\ IF index + 1 < Parallel THEN index' = index + 1 /\ GoOn("check")
                             ELSE GoOn("checked") /\ UNCHANGED index
  /\ UNCHANGED <<lease, grabIndex, grabs>>

\* The check passes.
CheckFree ==
  /\ pc = "check"
  /\ cache[index].exists /\ now - cache[index].renew > LeaseDuration
  /\ GoOn("checked")
  /\ grabIndex' = index
  /\ UNCHANGED <<lease, index, grabs>>

\* The lease is not in the cache: it is created in the past, and free.
getOrCreateLease ==
  /\ pc = "check"
  /\ ~cache[index].exists /\ ~lease[index].exists
  /\ lease' = [lease EXCEPT ![index] = Renewed(now - 2 * Duration)]
  /\ \/ GoOn("checked") /\ grabIndex' = index
     \/ "lost" \in Faults /\ GoOn("profile") /\ UNCHANGED grabIndex
  /\ UNCHANGED <<index, grabs>>

\* It exists although it is not in the cache, or the API server refuses.
CreateFails ==
  /\ pc = "check"
  /\ ~cache[index].exists
  /\ lease[index].exists \/ "api" \in Faults
  /\ GoOn("profile")
  /\ UNCHANGED <<lease, index, grabIndex, grabs>>

\* No chain of the profile passed.
NoTransition ==
  /\ pc = "checked"
  /\ GoOn("profile")
  /\ UNCHANGED <<lease, index, grabIndex, grabs>>

\* Mutant: the RenewTime of a grabbed lease stays.
GrabKeepsTime ==
  /\ pc = "checked" /\ grabIndex # noGrab
  /\ cache[grabIndex].exists
  /\ Len(grabs) < MaxGrabs
  /\ grabs' = Append(grabs, [node |-> cur, lease |-> grabIndex, time |-> now])
  /\ GoOn("profile")
  /\ UNCHANGED <<lease, index, grabIndex>>

\* OnTransition: the lease is read again and grabbed.  The node also makes the
\* transition when there is nothing to grab, which changes nothing here.
grabLease ==
  /\ pc = "checked" /\ grabIndex # noGrab
  /\ cache[grabIndex].exists
  /\ Len(grabs) < MaxGrabs
  /\ lease' = [lease EXCEPT ![grabIndex] = Renewed(now)]
  /\ \/ grabs' = Append(grabs, [node |-> cur, lease |-> grabIndex, time |-> now])
     \/ "lost" \in Faults /\ UNCHANGED grabs
  /\ GoOn("profile")
  /\ UNCHANGED <<index, grabIndex>>

\* A lease that was just created may not be in the cache yet.
GrabFails ==
  /\ pc = "checked" /\ grabIndex # noGrab
  /\ ~cache[grabIndex].exists \/ "api" \in Faults
  /\ GoOn("profile")
  /\ UNCHANGED <<lease, index, grabIndex, grabs>>

Restart ==
  /\ "crash" \in Faults
  /\ pc' = "idle"
  /\ cache' = lease
  /\ UNCHANGED <<now, lease, cur, index, grabIndex, grabs>>

-----------------------------------------------------------------------------
(* The specification *)

Init ==
  /\ now = 0
  /\ lease = [i \in Leases |-> None]
  /\ cache = lease
  /\ pc = "idle"
  /\ cur \in Nodes
  /\ index = 0
  /\ grabIndex = noGrab
  /\ grabs = <<>>

Worker ==
  \/ ReconcileEnd \/ Check \/ CheckHeld \/ CheckFree \/ getOrCreateLease \/ CreateFails
  \/ NoTransition \/ grabLease \/ GrabFails

Next ==
  \/ Tick \/ Worker \/ Restart
  \/ \E i \in Leases : Deliver(i)
  \/ \E n \in Nodes : Reconcile(n)

Spec == Init /\ [][Next]_vars

-----------------------------------------------------------------------------
(* Properties *)

\* Every variable has its type.
TypeOK ==
  /\ now \in Nat
  /\ lease \in [Leases -> Lease]
  /\ cache \in [Leases -> Lease]
  /\ pc \in {"idle", "profile", "check", "checked"}
  /\ cur \in Nodes
  /\ index \in Leases
  /\ grabIndex \in Leases \cup {noGrab}
  /\ grabs \in Seq(Grab)

\* "Checks that a certain duration has passed since a previous node passed": two
\* nodes that pass within the duration have grabbed different leases, so at most
\* Parallel nodes do (Check, OnTransition).
Staggered ==
  \A j, k \in DOMAIN grabs :
    j < k /\ grabs[j].node # grabs[k].node /\ grabs[k].time - grabs[j].time <= Duration
      => grabs[j].lease # grabs[k].lease
=============================================================================
