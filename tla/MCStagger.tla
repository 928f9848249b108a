----------------------------- MODULE MCStagger -----------------------------
(***************************************************************************)
(* Symmetry of Stagger for TLC: nodes are interchangeable, leases are not. *)
(***************************************************************************)
EXTENDS Stagger, TLC

Symmetry == Permutations(Nodes)
=============================================================================
