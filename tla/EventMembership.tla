--------------------------- MODULE EventMembership ---------------------------
(***************************************************************************)
(* Who belongs to an event, and as what: removeEventUser, updateEventUser  *)
(* and assignUserRole of services/event.service.ts and leaveEvent of       *)
(* services/user.service.ts, over the UserRole rows of one event.          *)
(*                                                                         *)
(* The handlers read the rows of the user, for a removal then the rows of  *)
(* all administrators, and go on to revoke one row per awaited call from   *)
(* what they read first.  A step is one such call; requests interleave.    *)
(***************************************************************************)
EXTENDS Naturals, FiniteSets

CONSTANTS Requests,   \* HTTP requests, each runs once
          Users,
          Roles,      \* the role names of UserRole rows at the event
          None        \* no value

Admin == "event_admin"

ASSUME MembershipAssumptions ==
    /\ IsFiniteSet(Users)
    /\ Admin \in Roles
    /\ None \notin [kind : {"remove", "leave", "update", "assign"}, user : Users, role : Roles]

VARIABLES roles,   \* the UserRole rows of the event, per user
          pc,      \* what each request awaits, or how it ended
          arg,     \* kind, user and (for update and assign) new role of a request
          left,    \* the roles it read and has not revoked yet
          lost     \* history: users whose admin row another request took since it read

vars == <<roles, pc, arg, left, lost>>

Kinds   == {"remove", "leave", "update", "assign"}
Call    == [kind : Kinds, user : Users, role : Roles]
Running == {"read", "count", "revoke", "grant"}
Ended   == {"done", "refused", "failed", "lost"}

TypeOK ==
    /\ roles \in [Users -> SUBSET Roles]
    /\ pc \in [Requests -> {"new"} \cup Running \cup Ended]
    /\ arg \in [Requests -> Call \cup {None}]
    /\ \A r \in Requests : pc[r] # "new" => arg[r] # None
    /\ left \in [Requests -> SUBSET Roles]
    /\ lost \in [Requests -> SUBSET Users]

Admins == {u \in Users : Admin \in roles[u]}

\* An event starts with the members it has been given; one of them administers it.
Init ==
    /\ roles \in [Users -> SUBSET Roles]
    /\ Admins # {}
    /\ pc = [r \in Requests |-> "new"]
    /\ arg = [r \in Requests |-> None]
    /\ left = [r \in Requests |-> {}]
    /\ lost = [r \in Requests |-> {}]

-----------------------------------------------------------------------------
Goto(r, next) == pc' = [pc EXCEPT ![r] = next]

IsKind(r, kinds) == arg[r].kind \in kinds

\* A removal and a leave are given no role; any one stands for that.
Calls == {call \in Call : call.kind \in {"remove", "leave"} => call.role = Admin}

\* The route has validated its input; assignUserRole grants without reading roles.
Start(r, call) ==
    /\ pc[r] = "new"
    /\ arg' = [arg EXCEPT ![r] = call]
    /\ Goto(r, IF call.kind = "assign" THEN "grant" ELSE "read")
    /\ UNCHANGED <<roles, left, lost>>

\* Where a handler goes once it has no role left to revoke.
AfterRevokes(r) == IF IsKind(r, {"update"}) THEN "grant" ELSE "done"

\* Mutant of AfterRead: leaveEvent does not ask for the other administrators.
AfterReadLeaveUnasked(r, mine) ==
    IF mine = {} THEN IF IsKind(r, {"leave"}) THEN "refused" ELSE AfterRevokes(r)
    ELSE IF IsKind(r, {"remove"}) /\ Admin \in mine THEN "count"
    ELSE "revoke"

\* Where a handler goes with the rows it has read.
AfterRead(r, mine) ==
    IF mine = {} THEN IF IsKind(r, {"leave"}) THEN "refused" ELSE AfterRevokes(r)
    ELSE IF IsKind(r, {"remove", "leave"}) /\ Admin \in mine THEN "count"
    ELSE "revoke"

\* getUserRoles(userId, 'event', eventId).
ReadRoles(r) ==
    LET mine == roles[arg[r].user] IN
    /\ pc[r] = "read"
    /\ Goto(r, AfterRead(r, mine))
    /\ left' = [left EXCEPT ![r] = mine]
    /\ UNCHANGED <<roles, arg, lost>>

\* Mutant of CountAdmins: off by one.
CountAdminsNone(r) ==
    /\ pc[r] = "count"
    /\ Goto(r, IF Cardinality(Admins) = 0 THEN "refused" ELSE "revoke")
    /\ UNCHANGED <<roles, arg, left, lost>>

\* The rows of all administrators are fetched and counted: refused at exactly one.
CountAdmins(r) ==
    /\ pc[r] = "count"
    /\ Goto(r, IF Cardinality(Admins) = 1 THEN "refused" ELSE "revoke")
    /\ UNCHANGED <<roles, arg, left, lost>>

\* What a revocation by r of u's role x means to the other requests.
Takes(r, u, x) ==
    lost' = IF x = Admin /\ Admin \in roles[u]
            THEN [s \in Requests |-> IF s # r /\ pc[s] \in {"count", "revoke"}
                                       THEN lost[s] \cup {u} ELSE lost[s]]
            ELSE lost

\* Mutant of RevokeRole: after a failed revocation the handler starts over.
RevokeRoleStartOver(r, x) ==
    LET u == arg[r].user IN
    /\ pc[r] = "revoke" /\ x \in left[r]
    /\ \/ /\ left' = [left EXCEPT ![r] = @ \ {x}]
          /\ Goto(r, IF left[r] = {x} THEN AfterRevokes(r) ELSE "revoke")
          /\ roles' = [roles EXCEPT ![u] = @ \ {x}]
          /\ Takes(r, u, x)
       \/ Goto(r, "read") /\ UNCHANGED <<roles, lost, left>>
    /\ UNCHANGED arg

\* revokeRole deletes the row, or fails and returns false, which the handlers ignore.
RevokeRole(r, x) ==
    LET u == arg[r].user IN
    /\ pc[r] = "revoke" /\ x \in left[r]
    /\ left' = [left EXCEPT ![r] = @ \ {x}]
    /\ Goto(r, IF left[r] = {x} THEN AfterRevokes(r) ELSE "revoke")
    /\ \/ /\ roles' = [roles EXCEPT ![u] = @ \ {x}]
          /\ Takes(r, u, x)
       \/ UNCHANGED <<roles, lost>>
    /\ UNCHANGED arg

\* grantRole upserts the row, or returns false; only assignUserRole looks at that.
GrantRole(r) ==
    /\ pc[r] = "grant"
    /\ \/ /\ roles' = [roles EXCEPT ![arg[r].user] = @ \cup {arg[r].role}]
          /\ Goto(r, "done")
       \/ /\ Goto(r, IF IsKind(r, {"assign"}) THEN "refused" ELSE "done")
          /\ UNCHANGED roles
    /\ UNCHANGED <<arg, left, lost>>

\* An awaited call rejects (revokeRole and grantRole catch theirs).
Reject(r) ==
    /\ pc[r] \in {"read", "count"}
    /\ Goto(r, "failed")
    /\ UNCHANGED <<roles, arg, left, lost>>

\* The server process dies.
Crash ==
    /\ \E r \in Requests : pc[r] \in Running
    /\ pc' = [r \in Requests |-> IF pc[r] \in Running THEN "lost" ELSE pc[r]]
    /\ UNCHANGED <<roles, arg, left, lost>>

-----------------------------------------------------------------------------
Work(r) ==
    \/ ReadRoles(r)
    \/ CountAdmins(r)
    \/ \E x \in Roles : RevokeRole(r, x)
    \/ GrantRole(r)
    \/ Reject(r)

Next ==
    \/ \E r \in Requests : Work(r) \/ \E call \in Calls : Start(r, call)
    \/ Crash

Spec == Init /\ [][Next]_vars

\* Every awaited database call settles, so a running request always goes on.
LiveSpec == Spec /\ \A r \in Requests : WF_vars(Work(r))

-----------------------------------------------------------------------------
(* Properties.                                                             *)

(* A removal or a leave that is about to take its user's admin row leaves   *)
(* another administrator behind, unless a rival request has taken an admin  *)
(* row since this one read the roles.                                       *)
ClearedToRevoke ==
    \A r \in Requests :
        pc[r] = "revoke" /\ IsKind(r, {"remove", "leave"}) /\ Admin \in left[r]
            => Admins \ {arg[r].user} # {} \/ lost[r] # {}

\* The requests that revoke in this step.
Revoking == {r \in Requests : left'[r] # left[r] /\ pc[r] = "revoke"}

(* An event loses its last administrator in only two ways: updateEventUser, *)
(* which makes no check, or a removal that another revocation overtook      *)
(* between its reads and its write.  One removal at a time never does it.   *)
LastAdminGoesByRaceOrUpdate ==
    [][Admins # {} /\ Admins' = {} =>
          \E r \in Revoking : IsKind(r, {"update"}) \/ lost[r] # {}]_vars

(* A request that has started comes to an end: the loop over the roles it   *)
(* read makes progress even when a revocation fails.                        *)
EveryRequestEnds ==
    \A r \in Requests : pc[r] \in Running ~> pc[r] \in Ended

(* A claim of the code's messages that it does not keep.                    *)

(* "Cannot remove the only admin from this event": no removal or leave      *)
(* takes away the last administrator.                                       *)
KeepsAnAdmin ==
    [][Admins # {} /\ Admins' = {} => \E r \in Revoking : IsKind(r, {"update"})]_vars
=============================================================================
