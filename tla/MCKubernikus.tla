---------------------------- MODULE MCKubernikus ----------------------------
(***************************************************************************)
(* Values of the constants of Kubernikus for TLC.                          *)
(***************************************************************************)
EXTENDS Kubernikus, TLC

\* No name of a node is part of the name of another one.
ExactMatches == [n \in Nodes |-> {n}]
=============================================================================
