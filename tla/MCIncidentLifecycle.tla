------------------------ MODULE MCIncidentLifecycle ------------------------
(* Instances of IncidentLifecycle for TLC. *)
EXTENDS IncidentLifecycle, TLC

Symmetry == Permutations(Requests) \cup Permutations(Incidents) \cup Permutations(People)
=============================================================================
