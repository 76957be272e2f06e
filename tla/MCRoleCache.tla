----------------------------- MODULE MCRoleCache -----------------------------
(* Instances of RoleCache for TLC. *)
EXTENDS RoleCache, TLC

\* A role at the event itself, and one inherited from its organization.
Responder   == [role |-> "responder", scope |-> "event", id |-> "conf"]
OrgAdmin    == [role |-> "org_admin", scope |-> "organization", id |-> "acme"]

MCGrants == {Responder, OrgAdmin}
MCAsks   == {{"responder"}}

Symmetry == Permutations(Checks) \cup Permutations(Changes) \cup Permutations(Instances)
=============================================================================
