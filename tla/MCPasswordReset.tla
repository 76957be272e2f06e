-------------------------- MODULE MCPasswordReset --------------------------
(* Instances of PasswordReset for TLC. *)
EXTENDS PasswordReset, TLC

Symmetry == Permutations(Asks) \cup Permutations(Resets)
=============================================================================
