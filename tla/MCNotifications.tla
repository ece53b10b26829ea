-------------------------- MODULE MCNotifications --------------------------
(* Small instances of Notifications for TLC. *)
EXTENDS Notifications, TLC

MCLastUnit == [p \in Products |-> 1]

MCSymmetry == Permutations(Deliveries)
=============================================================================
