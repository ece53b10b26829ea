----------------------------- MODULE MCPayment -----------------------------
(* Small instances of Payment for TLC. *)
EXTENDS Payment, TLC

MCLastUnit == [p \in Products |-> 1]

MCSymmetry == Permutations(Orders) \cup Permutations(GatewayOrders)
                \cup Permutations(Callers) \cup Permutations(Cancellers)
=============================================================================
