-------------------------- MODULE MCNodeController --------------------------
(***************************************************************************)
(* Values of the constants of NodeController for TLC.  The default profile *)
(* is empty, as it is when the configuration does not name it.             *)
(***************************************************************************)
EXTENDS NodeControllerInv, TLC

To(s) == [next |-> s, limited |-> FALSE]
ToLimited(s) == [next |-> s, limited |-> TRUE]

\* loadProfiles: the default profile does nothing unless it is configured.
Empty == [s \in States |-> <<>>]

LifeCycle(op, req, main) ==
  (Operational :> op) @@ (Required :> req) @@ (InMaintenance :> main)

\* One node with two interacting profiles.  c has two ways out of operational
\* (the first also leads back to itself in required), b needs one step into
\* maintenance; "x" is a name without configuration.
TwoProfiles ==
  "default" :> Empty
  @@ "b" :> LifeCycle(<<To(InMaintenance)>>, <<>>, <<To(Operational)>>)
  @@ "c" :> LifeCycle(<<To(InMaintenance), To(Required)>>,
                      <<To(Required), To(InMaintenance)>>, <<To(Operational)>>)
TwoProfilesLabels == {<<>>, <<"c">>, <<"c", "b">>, <<"x", "b", "b">>}

\* A cluster with one profile whose way into maintenance is limited.
OneProfile ==
  "default" :> Empty
  @@ "a" :> LifeCycle(<<To(Required)>>, <<ToLimited(InMaintenance)>>, <<To(Operational)>>)
OneProfileLabels == {<<"a">>, <<>>}

\* No configured profile but the default one.
Unconfigured == "default" :> Empty

Symmetry == Permutations(Nodes)
=============================================================================
