-------------------------- MODULE ProfileLifecycle --------------------------
(***************************************************************************)
(* What the controller promises for the profiles of a node, whatever the   *)
(* number of steps, retries and restarts a reconciliation takes:           *)
(*   - a profile is attached in the operational state and moves along the  *)
(*     configured transitions only, one per update;                        *)
(*   - it leaves a state only after the Enter chain of that state ran to   *)
(*     its end;                                                            *)
(*   - no profile goes into maintenance while another profile of the node  *)
(*     is there and stays attached.                                        *)
(***************************************************************************)
EXTENDS ProfileState

CONSTANT Nodes

VARIABLES
  state,     \* the persisted state of each profile of each node
  entered    \* the profiles whose state has had its Enter chain run

LifecycleInit ==
  /\ state = [n \in Nodes |-> [p \in Profiles |-> NoLabel]]
  /\ entered = [n \in Nodes |-> {}]

\* There is a configured transition of p from s to t.
Leads(p, s, t) ==
  \E i \in DOMAIN Transitions[p][s] : Transitions[p][s][i].next = t

\* The Enter chain of the state p is in ends without an error.
RunEnter(n, p) ==
  /\ state[n][p] # NoLabel
  /\ entered' = [entered EXCEPT ![n] = @ \cup {p}]
  /\ UNCHANGED state

\* How one update may change profile p from s to t.
MayMove(n, p, s, t) ==
  \/ t = NoLabel
  \/ s = NoLabel /\ (t = Operational \/ Leads(p, Operational, t))
  \/ p \in entered[n] /\ Leads(p, s, t)

\* A profile of the node is in maintenance, and will still be attached.
Occupied(n, new) ==
  \E p \in Profiles : state[n][p] = InMaintenance /\ new[p] # NoLabel

\* One write of the profile states of a node.
Update(n, new) ==
  /\ \A p \in Profiles : new[p] # state[n][p] => MayMove(n, p, state[n][p], new[p])
  /\ Occupied(n, new) =>
       \A p \in Profiles : new[p] = InMaintenance => state[n][p] = InMaintenance
  /\ state' = [state EXCEPT ![n] = new]
  /\ entered' = [entered EXCEPT ![n] =
                   {p \in Profiles : \/ new[p] = state[n][p] /\ p \in @
                                     \/ state[n][p] = NoLabel /\ new[p] = Operational}]

LifecycleNext ==
  \E n \in Nodes :
    \/ \E p \in Profiles : RunEnter(n, p)
    \/ \E new \in [Profiles -> States \cup {NoLabel}] : Update(n, new)

LifecycleSpec == LifecycleInit /\ [][LifecycleNext]_<<state, entered>>
=============================================================================
