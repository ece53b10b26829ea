----------------------------- MODULE MCIdentity -----------------------------
(* A small instance of Identity for TLC. *)
EXTENDS Identity, TLC

MCSymmetry == Permutations(Users)
=============================================================================
