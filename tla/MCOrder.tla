------------------------------ MODULE MCOrder ------------------------------
(* Small instances of Order for TLC. *)
EXTENDS Order, TLC

\* Two units of each product: one order may take both, or two orders one each.
MCStock == [p \in Products |-> 2]

\* One unit of each product: two orders compete for it.
MCLastUnit == [p \in Products |-> 1]

MCSymmetry ==
  Permutations(Orders) \cup Permutations(Clients) \cup Permutations(Workers)
    \cup Permutations(Admins)
=============================================================================
