------------------------- MODULE MCEventMembership -------------------------
(* Instances of EventMembership for TLC. *)
EXTENDS EventMembership, TLC

Symmetry == Permutations(Requests) \cup Permutations(Users)
=============================================================================
