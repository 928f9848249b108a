---------------------------- MODULE ProfileState ----------------------------
(***************************************************************************)
(* The profile state machines of package state.  A node carries a list of  *)
(* profile names in a label and, for every configured profile in that      *)
(* list, the current and the previous state of the profile in an           *)
(* annotation.  This module holds the functions of state.go and            *)
(* node_handler.go that compute on those values; plugins are abstracted to *)
(* what their chains may answer.                                           *)
(***************************************************************************)
EXTENDS Naturals, Sequences

CONSTANTS
  Names,        \* every name a profile label may hold
  Profiles,     \* the names that are configured (availableProfiles)
  Default,      \* constants.DefaultProfileName
  Transitions   \* [profile -> [state -> sequence of transitions]]

Operational == "operational"
Required == "maintenance-required"
InMaintenance == "in-maintenance"
States == {Operational, Required, InMaintenance}

\* The value of a label or of a map entry that is not there.
NoLabel == "none"

\* A configured transition: its target, and whether maxMaintenance is one of
\* the conjuncts of its check chain.
Transition == [next: States, limited: BOOLEAN]

ASSUME ConfigAssumption ==
  /\ Profiles \subseteq Names
  /\ Default \in Profiles
  /\ Transitions \in [Profiles -> [States -> Seq(Transition)]]

\* ProfileData without its timestamp; NoData stands for a missing map entry.
ProfileData == [current: States \cup {NoLabel}, previous: States \cup {NoLabel}]
NoData == [current |-> NoLabel, previous |-> NoLabel]
NewData == [current |-> Operational, previous |-> Operational]
NoProfiles == [p \in Profiles |-> NoData]

-----------------------------------------------------------------------------
(* Which profiles a node has *)

\* strings.Split(profilesStr, "--"), an empty label meaning the default profile.
ProfileNames(label) == IF label = <<>> THEN <<Default>> ELSE label

ContainsProfile(label, p) ==
  \E i \in DOMAIN ProfileNames(label) : ProfileNames(label)[i] = p

\* The configured profiles of the label; names without configuration are skipped.
getProfiles(label) == {p \in Profiles : ContainsProfile(label, p)}

\* Mutant: a profile that is attached again finds its old state.
MaintainKeepsDetached(data, label) ==
  [p \in Profiles |-> IF p \in getProfiles(label) /\ data[p] = NoData THEN NewData ELSE data[p]]

\* Drops the data of profiles that left the label, initialises the new ones.
MaintainProfileStates(data, label) ==
  [p \in Profiles |-> IF ~ContainsProfile(label, p) THEN NoData
                      ELSE IF data[p] = NoData THEN NewData ELSE data[p]]

anyInMaintenance(data, label) ==
  \E p \in getProfiles(label) : data[p].current = InMaintenance

\* Mutant: required outranks in-maintenance.
LabelRequiredFirst(data, label) ==
  LET shown == {data[p].current : p \in getProfiles(label)}
  IN IF Required \in shown THEN Required
     ELSE IF InMaintenance \in shown THEN InMaintenance ELSE Operational

\* The value of the maintenance-state label: the most crucial profile state.
UpdateMaintenanceStateLabel(data, label) ==
  LET shown == {data[p].current : p \in getProfiles(label)}
  IN IF InMaintenance \in shown THEN InMaintenance
     ELSE IF Required \in shown THEN Required ELSE Operational

-----------------------------------------------------------------------------
(* One profile: Enter, Notify, Transition, Trigger *)

\* What the check chains of transitions ts may answer.  A chain that contains
\* maxMaintenance does not pass while the cluster is full.
CheckChain(ts, full) ==
  {c \in [DOMAIN ts -> {"pass", "fail", "error"}] :
     \A i \in DOMAIN ts : full /\ ts[i].limited => c[i] # "pass"}

\* Transition.Execute: a passed chain does not count when it would bring a
\* second profile of the node into maintenance.
Execute(t, chain, inMaintenance) ==
  IF chain = "pass" /\ t.next = InMaintenance /\ inMaintenance THEN "fail" ELSE chain

\* transitionDefault: every chain is executed and any error fails the whole
\* state; otherwise the first transition that passed decides.  Its plugins'
\* OnTransition hooks may still fail.  r is the error and the next state.
transitionDefault(current, ts, chain, inMaintenance, r) ==
  LET res == [i \in DOMAIN ts |-> Execute(ts[i], chain[i], inMaintenance)]
  IN \/ /\ \E i \in DOMAIN ts : res[i] = "error"
        /\ r = [err |-> "fail", next |-> current]
     \/ /\ \A i \in DOMAIN ts : res[i] = "fail"
        /\ r = [err |-> "none", next |-> current]
     \/ /\ \A i \in DOMAIN ts : res[i] # "error"
        /\ \E i \in DOMAIN ts :
             /\ res[i] = "pass"
             /\ \A j \in 1..(i - 1) : res[j] # "pass"
             /\ \/ r = [err |-> "none", next |-> ts[i].next]
                \/ r = [err |-> "fail", next |-> current]

\* The answer of Apply: whether the Enter chain ran to its end, whether a
\* notification was recorded, the kind of error, and the next state.
ApplyResult ==
  [entered: BOOLEAN, notified: BOOLEAN, err: {"none", "retry", "fail"}, next: States]

\* state.Apply for a profile with data pd and the transitions ts of its
\* current state; o is one of the answers it may give.
Apply(pd, ts, inMaintenance, full, o) ==
  LET pending == pd.previous # pd.current
  IN \/ \* Enter asks for a retry or fails
        /\ pending /\ ~o.entered /\ ~o.notified
        /\ o.err # "none" /\ o.next = pd.current
     \/ \* a notification plugin fails
        /\ o.entered = pending
        /\ o.err = "fail" /\ o.next = pd.current
     \/ \E c \in CheckChain(ts, full) :
          \E r \in [err: {"none", "fail"}, next: States] :
            /\ o.entered = pending
            /\ transitionDefault(pd.current, ts, c, inMaintenance, r)
            /\ \/ \* failed checks, or no transition
                  /\ r.err = "fail" \/ r.next = pd.current
                  /\ o.err = r.err /\ o.next = pd.current
               \/ \* the trigger chain of the transition
                  /\ r.err = "none" /\ r.next # pd.current
                  /\ \/ o.err = "none" /\ o.next = r.next
                     \/ o.err # "none" /\ o.next = pd.current
=============================================================================
