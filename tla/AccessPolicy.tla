---------------------------- MODULE AccessPolicy ----------------------------
(***************************************************************************)
(* The decisions of UnifiedRBACService as functions of a user's UserRole   *)
(* rows: services/unified-rbac.service.ts.  A row is a record with a role  *)
(* name, a scope (system, organization or event) and the id of that scope. *)
(***************************************************************************)

SystemId == "SYSTEM"

\* hasRole: a role among names, in the given scope and for the given id.
HasRole(rows, names, scope, id) ==
    \E row \in rows : row.role \in names /\ row.scope = scope /\ row.id = id

\* isSystemAdmin insists on the id "SYSTEM".
IsSystemAdmin(rows) == HasRole(rows, {"system_admin"}, "system", SystemId)

\* hasEventRole: a system administrator whatever the id of the row, a direct role
\* at the event, or the administrator of the organization that owns the event.
HasEventRole(rows, event, org, names) ==
    \/ \E row \in rows : row.role = "system_admin" /\ row.scope = "system"
    \/ HasRole(rows, names, "event", event)
    \/ HasRole(rows, {"org_admin"}, "organization", org)
=============================================================================
