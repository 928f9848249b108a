-------------------------- MODULE MCEsxController --------------------------
(***************************************************************************)
(* Values of the constants of EsxController for TLC.                       *)
(***************************************************************************)
EXTENDS EsxControllerInv

CONSTANT h1

\* All nodes run on one host.
OneHost == [n \in Nodes |-> h1]
=============================================================================
