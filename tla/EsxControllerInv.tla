-------------------------- MODULE EsxControllerInv --------------------------
(***************************************************************************)
(* The inductive invariant behind the safety properties of EsxController.  *)
(***************************************************************************)
EXTENDS EsxController

\* The faults without which a copy the round still uses is not behind, in what
\* the controller writes, and a machine is either on or off.
Steady == Faults \cap {"lag", "lateOff", "uncordon"} = {}

\* The nodes whose copies the round has still to use.
InUse ==
  {n \in Nodes :
     \/ HostOf[n] \in todo
     \/ pc \in {"label", "start", "uncordon", "unmark"} /\ HostOf[n] = esx.name
     \/ pc \in {"shutdown", "cordon", "drain", "vmOff"} /\ n \in left}

\* A mark or a cordon that a copy shows is there.
CopiesTrue ==
  \A n \in InUse : /\ copy[n].initiated => api[n].initiated
                   /\ copy[n].cordoned => api[n].cordoned

\* The node at hand is marked before it is cordoned, cordoned before it is
\* drained, and empty before it is switched off; its copy shows a cordon only
\* if there is one.
ShuttingDown ==
  /\ pc \in {"cordon", "drain", "vmOff"} =>
       /\ HostOf[node] = esx.name /\ node \notin left
       /\ api[node].initiated /\ (copy[node].cordoned => api[node].cordoned)
  /\ pc \in {"drain", "vmOff"} => api[node].cordoned
  /\ pc = "vmOff" => Pending(pods[node]) = {}

\* The node at hand is uncordoned and unmarked only once its machine is on.
StartingUp == pc \in {"uncordon", "unmark"} => vm[node] = "on" /\ HostOf[node] = esx.name

\* The nodes of a loop are nodes of the host.
LeftOnHost == \A n \in left : pc # "host" => HostOf[n] = esx.name

\* A host is looked at once.
EsxTaken == pc \notin {"sleep", "host"} => esx.name \notin todo

NoLateGuest == \A n \in Nodes : vm[n] \in {"on", "off"}

EInv ==
  /\ TypeOK /\ CopiesTrue /\ ShuttingDown /\ StartingUp /\ NoLateGuest
  /\ LeftOnHost /\ EsxTaken /\ DownIsMarked /\ DownIsCordoned
=============================================================================
