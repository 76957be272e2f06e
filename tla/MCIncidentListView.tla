------------------------- MODULE MCIncidentListView --------------------------
(* Instances of IncidentListView for TLC. *)
EXTENDS IncidentListView, TLC

Symmetry == Permutations(Events)
=============================================================================
