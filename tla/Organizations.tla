---------------------------- MODULE Organizations ----------------------------
(***************************************************************************)
(* One organization: its members, its invite link and its events, as       *)
(* services/organization.service.ts and createEvent of                     *)
(* controllers/organization.controller.ts change them.                     *)
(*                                                                         *)
(* A request here is one that has passed the role check of its handler.  A *)
(* step is one awaited database call with the code that follows it; the    *)
(* audit row a handler writes last is part of its last step, which may     *)
(* therefore answer with a failure after the change was made.              *)
(***************************************************************************)
EXTENDS Naturals, FiniteSets

CONSTANTS Requests,   \* HTTP requests, each runs once
          Users,
          SysAdmins,  \* users every role check lets through
          LinkRole,   \* the role the invite link grants
          MaxLimit,   \* bound on the maxUses of the link
          None        \* no value

\* The member routes pass on whatever role the body names, and grantRole takes every
\* UnifiedRole: "event_admin" stands for the roles that are not an organization's.
OrgRoles == {"org_admin", "org_viewer"}
Roles    == OrgRoles \cup {"event_admin"}

Kinds == {"add", "update", "remove", "use", "delete", "event"}
Call  == [kind : Kinds, user : Users, role : Roles]

ASSUME OrganizationsAssumptions ==
    /\ IsFiniteSet(Requests)
    /\ SysAdmins \subseteq Users
    /\ LinkRole \in OrgRoles
    /\ MaxLimit \in Nat
    /\ None \notin Call

VARIABLES org,      \* the Organization row exists
          roles,    \* UserRole rows of the organization, per user
          link,     \* the OrganizationInviteLink row
          events,   \* Event rows by the request that created them
          staffed,  \* the events whose creator became their administrator
          pc,       \* what each request awaits, or how it ended
          arg,      \* kind, user and role of a request
          left,     \* the roles it read and has not revoked yet
          took,     \* requests one of whose revocations returned true
          tangled,  \* history: users whose requests overlapped, or had a call fail unseen
          late      \* history: events created while a deletion had counted none

rowVars     == <<org, roles, link, events, staffed>>
requestVars == <<pc, arg, left, took>>
vars == <<rowVars, requestVars, tangled, late>>

Link == [status   : {"absent", "stored", "gone"},
         disabled : BOOLEAN,
         expired  : BOOLEAN,
         maxUses  : 0 .. MaxLimit,   \* 0 stands for null: unlimited
         useCount : Nat]

Running == {"read", "check", "readLink", "revoke", "grant", "countUse",
            "countEvents", "delete", "create", "staff"}
Ended   == {"done", "refused", "failed", "lost"}

TypeOK ==
    /\ org \in BOOLEAN
    /\ roles \in [Users -> SUBSET Roles]
    /\ link \in Link
    /\ events \in [Requests -> {"none", "owned", "orphan"}]
    /\ staffed \subseteq Requests
    /\ pc \in [Requests -> {"new"} \cup Running \cup Ended]
    /\ arg \in [Requests -> Call \cup {None}]
    /\ \A r \in Requests : pc[r] # "new" => arg[r] # None
    /\ left \in [Requests -> SUBSET Roles]
    /\ took \subseteq Requests
    /\ tangled \subseteq Users
    /\ late \subseteq Requests

\* The members an organization has been given, each with one role; no link yet.
Init ==
    /\ org = TRUE
    /\ roles \in [Users -> {{}} \cup {{role} : role \in OrgRoles}]
    /\ link = [status |-> "absent", disabled |-> FALSE, expired |-> FALSE,
               maxUses |-> 0, useCount |-> 0]
    /\ events = [r \in Requests |-> "none"]
    /\ staffed = {}
    /\ pc = [r \in Requests |-> "new"]
    /\ arg = [r \in Requests |-> None]
    /\ left = [r \in Requests |-> {}]
    /\ took = {}
    /\ tangled = {}
    /\ late = {}

-----------------------------------------------------------------------------
Goto(r, next) == pc' = [pc EXCEPT ![r] = next]

IsKind(r, kind) == arg[r].kind = kind

\* The first call each handler awaits.
FirstStep == [kind \in Kinds |->
    CASE kind = "add"    -> "check"
      [] kind = "use"    -> "readLink"
      [] kind = "delete" -> "countEvents"
      [] kind = "event"  -> "create"
      [] OTHER           -> "read"]

\* Only add and update are given a role, and deleting or creating no user:
\* any one value stands for what a handler does not use.
Calls == {call \in Call :
             /\ call.kind \notin {"add", "update"} => call.role = "org_admin"
             /\ call.kind \in {"delete", "event"} => call.user = CHOOSE u \in Users : TRUE}

Start(r, call) ==
    /\ pc[r] = "new"
    /\ arg' = [arg EXCEPT ![r] = call]
    /\ Goto(r, FirstStep[call.kind])
    /\ UNCHANGED <<rowVars, left, took, tangled, late>>

-----------------------------------------------------------------------------
(* Members.                                                                *)

\* hasOrgRole with its default names: rows of any other role do not count.
IsMember(u) == u \in SysAdmins \/ roles[u] \cap OrgRoles # {}

\* Mutant of CheckMember: only the role that is asked for counts.
CheckMemberSameRole(r) ==
    LET u == arg[r].user IN
    /\ pc[r] = "check"
    /\ \/ /\ Goto(r, IF u \in SysAdmins \/ arg[r].role \in roles[u] THEN "refused" ELSE "grant")
          /\ UNCHANGED tangled
       \/ /\ Goto(r, "grant")
          /\ tangled' = tangled \cup {u}
    /\ UNCHANGED <<rowVars, arg, left, took, late>>

\* addMember and useInviteLink refuse a member; a lookup that fails answers false.
CheckMember(r) ==
    LET u == arg[r].user IN
    /\ pc[r] = "check"
    /\ \/ /\ Goto(r, IF IsMember(u) THEN "refused" ELSE "grant")
          /\ UNCHANGED tangled
       \/ /\ Goto(r, "grant")
          /\ tangled' = tangled \cup {u}
    /\ UNCHANGED <<rowVars, arg, left, took, late>>

\* updateMemberRole and removeMember read the rows they will revoke, of any role.
ReadRoles(r) ==
    LET mine == roles[arg[r].user] IN
    /\ pc[r] = "read"
    /\ Goto(r, IF mine = {} THEN "refused"
               ELSE IF IsKind(r, "update") /\ arg[r].role \in mine THEN "done"
               ELSE "revoke")
    /\ left' = [left EXCEPT ![r] = mine]
    /\ UNCHANGED <<rowVars, arg, took, tangled, late>>

\* Where a handler goes when nothing is left to revoke.
AfterRevokes(r, taken) ==
    IF IsKind(r, "update") THEN {"grant"}
    ELSE IF r \in taken THEN {"done", "failed"}
    ELSE {"refused"}

\* revokeRole deletes the row and returns true, or fails and returns false.
RevokeRole(r, x) ==
    LET u == arg[r].user IN
    /\ pc[r] = "revoke" /\ x \in left[r]
    /\ left' = [left EXCEPT ![r] = @ \ {x}]
    /\ \/ /\ roles' = [roles EXCEPT ![u] = @ \ {x}]
          /\ took' = took \cup {r}
          /\ UNCHANGED tangled
       \/ /\ tangled' = tangled \cup {u}
          /\ UNCHANGED <<roles, took>>
    /\ IF left[r] = {x} THEN \E next \in AfterRevokes(r, took') : Goto(r, next)
                        ELSE UNCHANGED pc
    /\ UNCHANGED <<org, link, events, staffed, arg, late>>

\* The role a request grants: an invite grants its own.
Granted(r) == IF IsKind(r, "use") THEN LinkRole ELSE arg[r].role

\* Requests other than r that act on its user with what they read before.
Rivals(r) == {s \in Requests \ {r} :
                 pc[s] \in {"revoke", "grant"} /\ arg[s].user = arg[r].user}

\* Mutant of GrantRole: the false of a failed grant is not looked at.
GrantRoleUnseen(r) ==
    LET u == arg[r].user IN
    /\ pc[r] = "grant"
    /\ \/ /\ roles' = [roles EXCEPT ![u] = @ \cup {Granted(r)}]
          /\ tangled' = IF Rivals(r) = {} THEN tangled ELSE tangled \cup {u}
          /\ \E next \in {"done", "failed"} : Goto(r, IF IsKind(r, "use") THEN "countUse" ELSE next)
       \/ /\ Goto(r, IF IsKind(r, "use") THEN "countUse" ELSE "done")
          /\ UNCHANGED <<roles, tangled>>
    /\ UNCHANGED <<org, link, events, staffed, arg, left, took, late>>

\* grantRole upserts the row, or returns false, which useInviteLink ignores.
GrantRole(r) ==
    LET u == arg[r].user IN
    /\ pc[r] = "grant"
    /\ \/ /\ roles' = [roles EXCEPT ![u] = @ \cup {Granted(r)}]
          /\ tangled' = IF Rivals(r) = {} THEN tangled ELSE tangled \cup {u}
          /\ \E next \in {"done", "failed"} : Goto(r, IF IsKind(r, "use") THEN "countUse" ELSE next)
       \/ /\ Goto(r, IF IsKind(r, "use") THEN "countUse" ELSE "refused")
          /\ UNCHANGED <<roles, tangled>>
    /\ UNCHANGED <<org, link, events, staffed, arg, left, took, late>>

-----------------------------------------------------------------------------
(* The invite link.                                                        *)

Open ==
    /\ link.status = "stored" /\ ~link.disabled /\ ~link.expired
    /\ link.maxUses # 0 => link.useCount < link.maxUses

\* Mutant of ReadLink: a disabled link is let through.
ReadLinkDisabled(r) ==
    /\ pc[r] = "readLink"
    /\ Goto(r, IF /\ link.status = "stored" /\ ~link.expired
                  /\ link.maxUses # 0 => link.useCount < link.maxUses
               THEN "check" ELSE "refused")
    /\ UNCHANGED <<rowVars, arg, left, took, tangled, late>>

\* useInviteLink reads the row and makes its four tests.
ReadLink(r) ==
    /\ pc[r] = "readLink"
    /\ Goto(r, IF Open THEN "check" ELSE "refused")
    /\ UNCHANGED <<rowVars, arg, left, took, tangled, late>>

\* The only write inside the transaction: it throws when the row is gone.
CountUse(r) ==
    /\ pc[r] = "countUse"
    /\ IF link.status = "stored"
       THEN link' = [link EXCEPT !.useCount = @ + 1] /\ Goto(r, "done")
       ELSE Goto(r, "failed") /\ UNCHANGED link
    /\ UNCHANGED <<org, roles, events, staffed, arg, left, took, tangled, late>>

\* createInviteLink: the foreign key needs the organization's row.
CreateInviteLink(limit) ==
    /\ org /\ link.status = "absent"
    /\ link' = [link EXCEPT !.status = "stored", !.maxUses = limit]
    /\ UNCHANGED <<org, roles, events, staffed, requestVars, tangled, late>>

\* updateInviteLink writes the disabled flag, and the clock reaches expiresAt.
SetDisabled(flag) ==
    /\ link.status = "stored" /\ link.disabled # flag
    /\ link' = [link EXCEPT !.disabled = flag]
    /\ UNCHANGED <<org, roles, events, staffed, requestVars, tangled, late>>

Expire ==
    /\ link.status = "stored" /\ ~link.expired
    /\ link' = [link EXCEPT !.expired = TRUE]
    /\ UNCHANGED <<org, roles, events, staffed, requestVars, tangled, late>>

-----------------------------------------------------------------------------
(* Events, and the deletion of the organization.                           *)

Owned == {e \in Requests : events[e] = "owned"}

\* Mutant of CountEvents: one event is not counted as some.
CountEventsTwo(r) ==
    /\ pc[r] = "countEvents"
    /\ Goto(r, IF Cardinality(Owned) > 1 THEN "refused" ELSE "delete")
    /\ UNCHANGED <<rowVars, arg, left, took, tangled, late>>

\* deleteOrganization is refused while the organization has events.
CountEvents(r) ==
    /\ pc[r] = "countEvents"
    /\ Goto(r, IF Cardinality(Owned) > 0 THEN "refused" ELSE "delete")
    /\ UNCHANGED <<rowVars, arg, left, took, tangled, late>>

\* The foreign keys take the link along and set organizationId of events to null;
\* no foreign key ties the members' UserRole rows.
DeleteOrganization(r) ==
    /\ pc[r] = "delete"
    /\ IF org
       THEN /\ org' = FALSE
            /\ link' = [link EXCEPT !.status = IF @ = "stored" THEN "gone" ELSE @]
            /\ events' = [e \in Requests |-> IF events[e] = "owned" THEN "orphan" ELSE events[e]]
            /\ Goto(r, "done") \/ Goto(r, "failed")
       ELSE Goto(r, "failed") /\ UNCHANGED <<org, link, events>>
    /\ UNCHANGED <<roles, staffed, arg, left, took, tangled, late>>

\* createEvent: the foreign key refuses a row for an organization that is gone.
CreateEvent(r) ==
    /\ pc[r] = "create"
    /\ IF org
       THEN /\ events' = [events EXCEPT ![r] = "owned"]
            /\ late' = IF \E s \in Requests : pc[s] = "delete" THEN late \cup {r} ELSE late
            /\ Goto(r, "staff")
       ELSE Goto(r, "failed") /\ UNCHANGED <<events, late>>
    /\ UNCHANGED <<org, roles, link, staffed, arg, left, took, tangled>>

\* The creator is granted event_admin; false is ignored, then the audit row may fail.
StaffEvent(r) ==
    /\ pc[r] = "staff"
    /\ staffed' = staffed \cup {r} \/ UNCHANGED staffed
    /\ Goto(r, "done") \/ Goto(r, "failed")
    /\ UNCHANGED <<org, roles, link, events, arg, left, took, tangled, late>>

\* An awaited call rejects where the handler's catch, not the role service's, sees it.
Reject(r) ==
    /\ pc[r] \in {"read", "readLink", "countUse", "countEvents", "delete", "create"}
    /\ Goto(r, "failed")
    /\ UNCHANGED <<rowVars, arg, left, took, tangled, late>>

\* The server process dies.
Crash ==
    /\ \E r \in Requests : pc[r] \in Running
    /\ pc' = [r \in Requests |-> IF pc[r] \in Running THEN "lost" ELSE pc[r]]
    /\ UNCHANGED <<rowVars, arg, left, took, tangled, late>>

-----------------------------------------------------------------------------
Work(r) ==
    \/ CheckMember(r)
    \/ ReadRoles(r)
    \/ \E x \in Roles : RevokeRole(r, x)
    \/ GrantRole(r)
    \/ ReadLink(r)
    \/ CountUse(r)
    \/ CountEvents(r)
    \/ DeleteOrganization(r)
    \/ CreateEvent(r)
    \/ StaffEvent(r)
    \/ Reject(r)

Next ==
    \/ \E r \in Requests : Work(r) \/ \E call \in Calls : Start(r, call)
    \/ \E limit \in 0 .. MaxLimit : CreateInviteLink(limit)
    \/ \E flag \in BOOLEAN : SetDisabled(flag)
    \/ Expire
    \/ Crash

Spec == Init /\ [][Next]_vars

-----------------------------------------------------------------------------
(* Properties.                                                             *)

(* A member holds one of the two organization roles.  Both at once take two *)
(* requests for the same user that overlapped, or a lookup or revocation    *)
(* whose failure the role service turned into false and the handler went    *)
(* past.                                                                    *)
OneOrgRoleUnlessTangled ==
    \A u \in Users : u \in tangled \/ Cardinality(roles[u] \cap OrgRoles) <= 1

(* Between revoking the old role and granting the new one a member has      *)
(* none.  An update to an organization role that was answered with success  *)
(* is never what left its user no member: another request took rows of that *)
(* user, and it was a removal, an update that has not succeeded, or one to  *)
(* a role that is not an organization's.                                    *)
UpdatedStaysMember ==
    \A r \in Requests :
        /\ pc[r] = "done" /\ IsKind(r, "update")
        /\ arg[r].role \in OrgRoles /\ roles[arg[r].user] \cap OrgRoles = {}
        => \E s \in took \ {r} :
                /\ arg[s].user = arg[r].user
                /\ \/ IsKind(s, "remove") \/ pc[s] # "done"
                   \/ arg[s].role \notin OrgRoles

(* An event of the organization outlives it, without an organization, only  *)
(* when it was created between the count of a deletion and the deletion.    *)
OrphanedOnlyByRace ==
    \A e \in Requests : events[e] = "orphan" => e \in late

PhaseOf(r) ==
    IF arg[r] = None THEN <<"idle">>
    ELSE IF ~IsKind(r, "use") \/ pc[r] = "readLink" THEN <<"idle">>
    ELSE IF pc[r] \in {"check", "grant", "countUse"} THEN <<"admitted", "link">>
    ELSE IF pc[r] = "done" THEN <<"spent", "link">>
    ELSE <<"closed">>

Contract == INSTANCE InviteContract WITH
    Invites <- {"link"},
    open    <- IF Open THEN {"link"} ELSE {},
    phase   <- [r \in Requests |-> PhaseOf(r)],
    uses    <- [i \in {"link"} |-> link.useCount]

(* The link of an organization keeps the contract the links of events keep, *)
(* whatever members, events and the deletion of the organization do: a      *)
(* request is admitted only while the link is open, succeeds only by        *)
(* spending one use, and no use is counted otherwise.                       *)
ImplementsContract == Contract!ContractSpec

(* A claim of the code's comments that the code does not keep.             *)

(* Adding a member checks "if user already has any organization role": so   *)
(* one row per member, but for overlaps and failures that went unseen.      *)
OneRowUnlessTangled ==
    \A u \in Users : u \in tangled \/ Cardinality(roles[u]) <= 1
=============================================================================
