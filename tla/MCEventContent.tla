--------------------------- MODULE MCEventContent ---------------------------
(* Instances of EventContent for TLC. *)
EXTENDS EventContent, TLC

CONSTANTS e1, u1, u2

OneEvent  == (u1 :> {e1}) @@ (u2 :> {})
LowerCase == [n \in Names |-> "abuse"]

Symmetry == Permutations(Requests) \cup Permutations(Slugs) \cup Permutations(TagIds)
=============================================================================
