--------------------------- MODULE MCNotifications ---------------------------
(***************************************************************************)
(* NotificationSchedules for TLC: the profiles are interchangeable.        *)
(***************************************************************************)
EXTENDS NotificationSchedules, TLC

Symmetry == Permutations(Profiles)
==============================================================================
