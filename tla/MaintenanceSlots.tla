-------------------------- MODULE MaintenanceSlots --------------------------
(***************************************************************************)
(* What maxMaintenance promises a cluster: at most MaxNodes nodes are in   *)
(* maintenance; a node goes into maintenance only while a slot is free and *)
(* may leave at any time.                                                  *)
(***************************************************************************)
EXTENDS Naturals, FiniteSets

CONSTANTS Nodes, MaxNodes

VARIABLE busy   \* the nodes in maintenance

SlotsInit == busy = {}

Acquire(n) ==
  /\ n \notin busy
  /\ Cardinality(busy) < MaxNodes
  /\ busy' = busy \cup {n}

Release(n) == n \in busy /\ busy' = busy \ {n}

SlotsNext == \E n \in Nodes : Acquire(n) \/ Release(n)

SlotsSpec == SlotsInit /\ [][SlotsNext]_busy
=============================================================================
