------------------------ MODULE OrganizationsProofs ------------------------
(***************************************************************************)
(* Proofs about Organizations: types, who holds which role, what outlives  *)
(* a deletion, and that the link keeps the contract of an invite link.     *)
(* Everything rests on PathInv: which handlers can await which call.       *)
(***************************************************************************)
EXTENDS Organizations, FiniteSetTheorems, TLAPS

\* The calls a handler awaits, by the kind of its request; whoever revoked has
\* started.
PathInv ==
    \A r \in Requests :
        /\ pc[r] = "readLink" => IsKind(r, "use")
        /\ pc[r] = "countUse" => IsKind(r, "use")
        /\ pc[r] = "check" => IsKind(r, "use") \/ IsKind(r, "add")
        /\ pc[r] \in {"read", "revoke"} => IsKind(r, "update") \/ IsKind(r, "remove")
        /\ pc[r] = "grant" => IsKind(r, "use") \/ IsKind(r, "add") \/ IsKind(r, "update")
        /\ pc[r] \in {"countEvents", "delete"} => IsKind(r, "delete")
        /\ pc[r] \in {"create", "staff"} => IsKind(r, "event")
        /\ r \in took => pc[r] # "new" /\ (IsKind(r, "update") \/ IsKind(r, "remove"))

-----------------------------------------------------------------------------
(* Types.                                                                  *)

LEMMA InitType == Init => TypeOK
  BY OrganizationsAssumptions DEF Init, TypeOK, Link, Roles

LEMMA StartType ==
    ASSUME TypeOK, NEW r \in Requests, NEW call \in Calls, Start(r, call)
    PROVE  TypeOK'
<1>1. call \in Call /\ call # None /\ call.kind \in Kinds
  BY OrganizationsAssumptions DEF Calls, Call
<1>2. FirstStep[call.kind] \in Running
  BY <1>1 DEF FirstStep, Kinds, Running
<1>3. pc' \in [Requests -> {"new"} \cup Running \cup Ended]
  BY <1>2 DEF Start, Goto, TypeOK
<1>4. arg' \in [Requests -> Call \cup {None}] /\ \A s \in Requests : pc'[s] # "new" => arg'[s] # None
  BY <1>1 DEF Start, Goto, TypeOK
<1> QED
  BY <1>3, <1>4 DEF Start, TypeOK, rowVars

\* A request that has started has a user and a role.
LEMMA ArgType ==
    ASSUME TypeOK, NEW r \in Requests, pc[r] # "new"
    PROVE  /\ arg[r] \in Call
           /\ arg[r].user \in Users /\ arg[r].role \in Roles /\ arg[r].kind \in Kinds
  BY DEF TypeOK, Call

\* A step that only moves requests keeps the types.
LEMMA PcType ==
    ASSUME TypeOK, UNCHANGED <<rowVars, arg, left, took, late>>, tangled' \subseteq Users,
           NEW r \in Requests, pc[r] # "new",
           NEW next \in Running \cup Ended, pc' = [pc EXCEPT ![r] = next]
    PROVE  TypeOK'
<1>1. pc' \in [Requests -> {"new"} \cup Running \cup Ended]
  BY DEF TypeOK
<1>2. \A s \in Requests : pc'[s] # "new" => arg'[s] # None
  BY DEF TypeOK
<1> QED
  BY <1>1, <1>2 DEF TypeOK, rowVars

LEMMA CheckType == ASSUME TypeOK, NEW r \in Requests, CheckMember(r) PROVE TypeOK'
<1>1. arg[r].user \in Users /\ pc[r] # "new"
  BY ArgType DEF CheckMember
<1>2. tangled' \subseteq Users
  BY <1>1 DEF CheckMember, TypeOK
<1>3. PICK next \in {"refused", "grant"} : pc' = [pc EXCEPT ![r] = next]
  BY DEF CheckMember, Goto
<1>4. next \in Running \cup Ended
  BY DEF Running, Ended
<1> QED
  BY <1>1, <1>2, <1>3, <1>4, PcType DEF CheckMember

LEMMA ReadType == ASSUME TypeOK, NEW r \in Requests, ReadRoles(r) PROVE TypeOK'
<1>1. arg[r].user \in Users
  BY ArgType DEF ReadRoles
<1>2. pc' \in [Requests -> {"new"} \cup Running \cup Ended]
  BY DEF ReadRoles, Goto, TypeOK, Running, Ended
<1>3. left' \in [Requests -> SUBSET Roles]
  BY <1>1 DEF ReadRoles, TypeOK
<1>4. \A s \in Requests : pc'[s] # "new" => arg'[s] # None
  BY DEF ReadRoles, Goto, TypeOK
<1> QED
  BY <1>2, <1>3, <1>4 DEF ReadRoles, TypeOK, rowVars

LEMMA RevokeType ==
    ASSUME TypeOK, NEW r \in Requests, NEW x \in Roles, RevokeRole(r, x)
    PROVE  TypeOK'
<1>1. arg[r].user \in Users
  BY ArgType DEF RevokeRole
<1>2. roles' \in [Users -> SUBSET Roles] /\ tangled' \subseteq Users /\ took' \subseteq Requests
  BY <1>1 DEF RevokeRole, TypeOK
<1>3. left' \in [Requests -> SUBSET Roles]
  BY DEF RevokeRole, TypeOK
<1>4. pc' \in [Requests -> {"new"} \cup Running \cup Ended]
  BY DEF RevokeRole, Goto, AfterRevokes, TypeOK, Running, Ended
<1>5. \A s \in Requests : pc'[s] # "new" => arg'[s] # None
  BY DEF RevokeRole, Goto, TypeOK
<1> QED
  BY <1>2, <1>3, <1>4, <1>5 DEF RevokeRole, TypeOK

LEMMA GrantType == ASSUME TypeOK, NEW r \in Requests, GrantRole(r) PROVE TypeOK'
<1>1. arg[r].user \in Users /\ Granted(r) \in Roles
  BY ArgType, OrganizationsAssumptions DEF GrantRole, Granted, Roles
<1>2. roles' \in [Users -> SUBSET Roles]
  BY <1>1 DEF GrantRole, TypeOK
<1>3. tangled' \subseteq Users
  BY <1>1 DEF GrantRole, TypeOK
<1>4. pc' \in [Requests -> {"new"} \cup Running \cup Ended]
  BY DEF GrantRole, Goto, TypeOK, Running, Ended
<1>5. \A s \in Requests : pc'[s] # "new" => arg'[s] # None
  BY DEF GrantRole, Goto, TypeOK
<1> QED
  BY <1>2, <1>3, <1>4, <1>5 DEF GrantRole, TypeOK

\* A step that writes the link, and moves no request or one that has started.
LEMMA LinkType ==
    ASSUME TypeOK, link' \in Link, UNCHANGED <<org, roles, events, staffed, arg, left, took, tangled, late>>,
           \/ pc' = pc
           \/ \E r \in Requests, next \in Running \cup Ended :
                 pc[r] # "new" /\ pc' = [pc EXCEPT ![r] = next]
    PROVE  TypeOK'
<1>1. pc' \in [Requests -> {"new"} \cup Running \cup Ended]
  BY DEF TypeOK
<1>2. \A s \in Requests : pc'[s] # "new" => arg'[s] # None
  BY DEF TypeOK
<1> QED
  BY <1>1, <1>2 DEF TypeOK

LEMMA CountUseType == ASSUME TypeOK, NEW r \in Requests, CountUse(r) PROVE TypeOK'
<1>1. link \in Link /\ link.useCount \in Nat
  BY DEF TypeOK, Link
<1>2. link' \in Link
  BY <1>1 DEF CountUse, Link
<1>3. PICK next \in {"done", "failed"} : pc' = [pc EXCEPT ![r] = next]
  BY DEF CountUse, Goto
<1>4. next \in Running \cup Ended /\ pc[r] # "new"
  BY DEF Ended, CountUse
<1> QED
  BY <1>2, <1>3, <1>4, LinkType DEF CountUse

LEMMA AdminLinkType ==
    ASSUME TypeOK,
           \/ \E limit \in 0 .. MaxLimit : CreateInviteLink(limit)
           \/ \E flag \in BOOLEAN : SetDisabled(flag)
           \/ Expire
    PROVE  TypeOK'
<1>1. link \in Link
  BY DEF TypeOK
<1>2. link' \in Link
  BY <1>1 DEF CreateInviteLink, SetDisabled, Expire, Link
<1> QED
  BY <1>2, LinkType DEF CreateInviteLink, SetDisabled, Expire, requestVars

LEMMA EventType ==
    ASSUME TypeOK, NEW r \in Requests, DeleteOrganization(r) \/ CreateEvent(r) \/ StaffEvent(r)
    PROVE  TypeOK'
<1>1. org' \in BOOLEAN /\ staffed' \subseteq Requests /\ late' \subseteq Requests
  BY DEF DeleteOrganization, CreateEvent, StaffEvent, TypeOK
<1>2. events' \in [Requests -> {"none", "owned", "orphan"}]
  BY DEF DeleteOrganization, CreateEvent, StaffEvent, TypeOK
<1>3. link \in Link
  BY DEF TypeOK
<1>4. link' \in Link
  <2>1. CASE DeleteOrganization(r)
    BY <1>3, <2>1 DEF DeleteOrganization, Link
  <2>2. CASE CreateEvent(r) \/ StaffEvent(r)
    BY <1>3, <2>2 DEF CreateEvent, StaffEvent
  <2> QED
    BY <2>1, <2>2
<1>5. pc' \in [Requests -> {"new"} \cup Running \cup Ended]
  BY DEF DeleteOrganization, CreateEvent, StaffEvent, Goto, TypeOK, Running, Ended
<1>6. \A s \in Requests : pc'[s] # "new" => arg'[s] # None
  BY DEF DeleteOrganization, CreateEvent, StaffEvent, Goto, TypeOK
<1> QED
  BY <1>1, <1>2, <1>4, <1>5, <1>6 DEF DeleteOrganization, CreateEvent, StaffEvent, TypeOK

LEMMA TestType ==
    ASSUME TypeOK, NEW r \in Requests, ReadLink(r) \/ CountEvents(r) \/ Reject(r)
    PROVE  TypeOK'
<1>1. PICK next \in {"check", "refused", "delete", "failed"} : pc' = [pc EXCEPT ![r] = next]
  BY DEF ReadLink, CountEvents, Reject, Goto
<1>2. next \in Running \cup Ended /\ pc[r] # "new"
  BY DEF Running, Ended, ReadLink, CountEvents, Reject
<1>3. tangled' \subseteq Users
  BY DEF ReadLink, CountEvents, Reject, TypeOK
<1> QED
  BY <1>1, <1>2, <1>3, PcType DEF ReadLink, CountEvents, Reject

LEMMA NextType == TypeOK /\ [Next]_vars => TypeOK'
<1> SUFFICES ASSUME TypeOK, [Next]_vars PROVE TypeOK'
  OBVIOUS
<1>1. CASE Crash
  BY <1>1 DEF TypeOK, Crash, Running, Ended, rowVars
<1>2. CASE UNCHANGED vars
  BY <1>2 DEF TypeOK, vars, rowVars, requestVars
<1> QED
  BY <1>1, <1>2, StartType, CheckType, ReadType, RevokeType, GrantType, CountUseType,
     AdminLinkType, EventType, TestType DEF Next, Work

(* The rows of an organization, its requests and what they hold keep their  *)
(* types, for any number of users and requests.                             *)
THEOREM TypeCorrect == Spec => []TypeOK
<1>1. TypeOK /\ [Next]_vars => TypeOK'
  BY NextType
<1> QED
  BY <1>1, InitType, PTL DEF Spec

-----------------------------------------------------------------------------
(* The way of a request.                                                   *)

\* A step is the work or the start of one request, or moves none of them.
LEMMA OneMoves ==
    ASSUME TypeOK, [Next]_vars, NEW s \in Requests
    PROVE  \/ Work(s)
           \/ \E call \in Calls : Start(s, call)
           \/ /\ arg'[s] = arg[s] /\ left'[s] = left[s] /\ (s \in took' <=> s \in took)
              /\ pc'[s] = pc[s] \/ pc'[s] = "lost"
<1>1. ASSUME NEW r \in Requests, r # s, NEW call \in Calls, Start(r, call)
      PROVE  arg'[s] = arg[s] /\ left'[s] = left[s] /\ took' = took /\ pc'[s] = pc[s]
  BY <1>1 DEF Start, Goto, TypeOK
<1>2. ASSUME NEW r \in Requests, r # s, NEW x \in Roles, RevokeRole(r, x)
      PROVE  /\ arg'[s] = arg[s] /\ left'[s] = left[s] /\ (s \in took' <=> s \in took)
             /\ pc'[s] = pc[s]
  BY <1>2 DEF RevokeRole, Goto, TypeOK
<1>3. ASSUME NEW r \in Requests, r # s, Work(r), ~(\E x \in Roles : RevokeRole(r, x))
      PROVE  arg'[s] = arg[s] /\ left'[s] = left[s] /\ took' = took /\ pc'[s] = pc[s]
  BY <1>3 DEF Work, CheckMember, ReadRoles, GrantRole, ReadLink, CountUse, CountEvents,
              DeleteOrganization, CreateEvent, StaffEvent, Reject, Goto, TypeOK
<1>4. CASE Crash
  BY <1>4 DEF Crash, TypeOK
<1>5. CASE \/ \E limit \in 0 .. MaxLimit : CreateInviteLink(limit)
           \/ \E flag \in BOOLEAN : SetDisabled(flag)
           \/ Expire
           \/ UNCHANGED vars
  BY <1>5 DEF CreateInviteLink, SetDisabled, Expire, requestVars, vars
<1> QED
  BY <1>1, <1>2, <1>3, <1>4, <1>5 DEF Next

\* Where the work of a request leads, and that it keeps what it was given.
LEMMA WorkLeads ==
    ASSUME TypeOK, PathInv, NEW r \in Requests, Work(r)
    PROVE  /\ pc[r] # "new" /\ pc'[r] # "new" /\ arg'[r] = arg[r]
           /\ pc'[r] \notin {"read", "readLink", "countEvents", "create"}
           /\ pc'[r] = "check" => IsKind(r, "use")
           /\ pc'[r] = "revoke" => IsKind(r, "update") \/ IsKind(r, "remove")
           /\ pc'[r] = "grant" => IsKind(r, "use") \/ IsKind(r, "add") \/ IsKind(r, "update")
           /\ pc'[r] = "countUse" => IsKind(r, "use")
           /\ pc'[r] = "delete" => IsKind(r, "delete")
           /\ pc'[r] = "staff" => IsKind(r, "event")
           /\ r \in took' => r \in took \/ IsKind(r, "update") \/ IsKind(r, "remove")
<1>1. CASE CheckMember(r) \/ ReadRoles(r)
  BY <1>1 DEF CheckMember, ReadRoles, Goto, TypeOK, PathInv
<1>2. ASSUME NEW x \in Roles, RevokeRole(r, x)
      PROVE  /\ pc[r] = "revoke" /\ arg'[r] = arg[r]
             /\ pc'[r] \in {"revoke", "grant", "done", "failed", "refused"}
             /\ pc'[r] = "grant" => IsKind(r, "update")
  BY <1>2 DEF RevokeRole, AfterRevokes, Goto, TypeOK
<1>3. CASE GrantRole(r) \/ ReadLink(r) \/ CountUse(r)
  BY <1>3 DEF GrantRole, ReadLink, CountUse, Goto, TypeOK, PathInv
<1>4. CASE CountEvents(r) \/ DeleteOrganization(r) \/ CreateEvent(r) \/ StaffEvent(r) \/ Reject(r)
  BY <1>4 DEF CountEvents, DeleteOrganization, CreateEvent, StaffEvent, Reject, Goto, TypeOK, PathInv
<1>5. pc[r] = "revoke" => IsKind(r, "update") \/ IsKind(r, "remove")
  BY DEF PathInv
<1> QED
  BY <1>1, <1>2, <1>3, <1>4, <1>5 DEF Work

\* Where the start of a request leads.
LEMMA StartLeads ==
    ASSUME TypeOK, PathInv, NEW r \in Requests, NEW call \in Calls, Start(r, call)
    PROVE  /\ pc[r] = "new" /\ arg'[r] = call /\ pc'[r] = FirstStep[call.kind]
           /\ call.kind \in Kinds /\ took' = took /\ r \notin took
  BY DEF Start, Goto, TypeOK, PathInv, Calls, Call

LEMMA NextPath == TypeOK /\ PathInv /\ [Next]_vars => PathInv'
<1> SUFFICES ASSUME TypeOK, PathInv, [Next]_vars, NEW s \in Requests
             PROVE  /\ (pc[s] = "readLink" => IsKind(s, "use"))'
                    /\ (pc[s] = "countUse" => IsKind(s, "use"))'
                    /\ (pc[s] = "check" => IsKind(s, "use") \/ IsKind(s, "add"))'
                    /\ (pc[s] \in {"read", "revoke"} => IsKind(s, "update") \/ IsKind(s, "remove"))'
                    /\ (pc[s] = "grant" =>
                            IsKind(s, "use") \/ IsKind(s, "add") \/ IsKind(s, "update"))'
                    /\ (pc[s] \in {"countEvents", "delete"} => IsKind(s, "delete"))'
                    /\ (pc[s] \in {"create", "staff"} => IsKind(s, "event"))'
                    /\ (s \in took => /\ pc[s] # "new"
                                      /\ IsKind(s, "update") \/ IsKind(s, "remove"))'
  BY DEF PathInv
<1>1. CASE Work(s)
  BY <1>1, WorkLeads DEF IsKind, PathInv
<1>2. CASE \E call \in Calls : Start(s, call)
  <2>1. PICK call \in Calls : Start(s, call)
    BY <1>2
  <2>2. /\ call.kind \in Kinds /\ pc'[s] = FirstStep[call.kind]
        /\ arg'[s].kind = call.kind /\ s \notin took'
    BY <2>1, StartLeads
  <2>3. \/ call.kind = "add" /\ pc'[s] = "check"
        \/ call.kind = "use" /\ pc'[s] = "readLink"
        \/ call.kind = "delete" /\ pc'[s] = "countEvents"
        \/ call.kind = "event" /\ pc'[s] = "create"
        \/ call.kind \in {"update", "remove"} /\ pc'[s] = "read"
    BY <2>2 DEF FirstStep, Kinds
  <2> QED
    BY <2>2, <2>3 DEF IsKind
<1>3. CASE /\ arg'[s] = arg[s] /\ left'[s] = left[s] /\ (s \in took' <=> s \in took)
           /\ pc'[s] = pc[s] \/ pc'[s] = "lost"
  BY <1>3 DEF IsKind, PathInv
<1> QED
  BY <1>1, <1>2, <1>3, OneMoves

LEMMA InitPath == Init => PathInv
  BY DEF Init, PathInv

-----------------------------------------------------------------------------
(* Who holds which role.                                                   *)

\* The organization roles of a user, the ones that make a member.
Held(u) == roles[u] \cap OrgRoles

\* What a request is about to do to its user rests on all the roles there are.
SettledRequest(r) ==
    arg[r].user \notin tangled =>
        /\ pc[r] = "revoke" => Held(arg[r].user) \subseteq left[r]
        /\ pc[r] = "grant" => Held(arg[r].user) = {}

SettledUser(u) == u \notin tangled => \A x, y \in Held(u) : x = y

RoleInv ==
    /\ \A r \in Requests : SettledRequest(r)
    /\ \A u \in Users : SettledUser(u)

\* The user whose roles a step changes, and how the others' stay.
LEMMA RolesChange ==
    ASSUME TypeOK, [Next]_vars
    PROVE  \/ roles' = roles
           \/ \E r \in Requests, x \in Roles :
                 /\ RevokeRole(r, x)
                 /\ roles' = [roles EXCEPT ![arg[r].user] = @ \ {x}] /\ tangled' = tangled
                 /\ took' = took \cup {r}
           \/ \E r \in Requests :
                 /\ GrantRole(r)
                 /\ roles' = [roles EXCEPT ![arg[r].user] = @ \cup {Granted(r)}]
                 /\ tangled' = IF Rivals(r) = {} THEN tangled ELSE tangled \cup {arg[r].user}
<1>1. ASSUME NEW r \in Requests, NEW x \in Roles, RevokeRole(r, x), roles' # roles
      PROVE  /\ roles' = [roles EXCEPT ![arg[r].user] = @ \ {x}] /\ tangled' = tangled
             /\ took' = took \cup {r}
  BY <1>1 DEF RevokeRole
<1>2. ASSUME NEW r \in Requests, GrantRole(r), roles' # roles
      PROVE  /\ roles' = [roles EXCEPT ![arg[r].user] = @ \cup {Granted(r)}]
             /\ tangled' = IF Rivals(r) = {} THEN tangled ELSE tangled \cup {arg[r].user}
  BY <1>2 DEF GrantRole
<1>3. \/ roles' = roles
      \/ \E r \in Requests, x \in Roles : RevokeRole(r, x)
      \/ \E r \in Requests : GrantRole(r)
  BY DEF Next, Work, Start, CheckMember, ReadRoles, ReadLink, CountUse, CountEvents,
         DeleteOrganization, CreateEvent, StaffEvent, Reject, CreateInviteLink, SetDisabled,
         Expire, Crash, vars, rowVars
<1> QED
  BY <1>1, <1>2, <1>3

LEMMA TangledGrows ==
    ASSUME TypeOK, [Next]_vars
    PROVE  tangled \subseteq tangled'
  BY DEF Next, Work, Start, CheckMember, ReadRoles, RevokeRole, GrantRole, ReadLink, CountUse,
         CountEvents, DeleteOrganization, CreateEvent, StaffEvent, Reject, CreateInviteLink,
         SetDisabled, Expire, Crash, vars

LEMMA UsersSettled ==
    ASSUME TypeOK, RoleInv, [Next]_vars, NEW u \in Users
    PROVE  SettledUser(u)'
<1>1. tangled \subseteq tangled' /\ SettledUser(u)
  BY TangledGrows DEF RoleInv
<1>2. CASE roles' = roles
  BY <1>1, <1>2 DEF SettledUser, Held
<1>3. ASSUME NEW r \in Requests, NEW x \in Roles,
             roles' = [roles EXCEPT ![arg[r].user] = @ \ {x}]
      PROVE  SettledUser(u)'
  BY <1>1, <1>3 DEF SettledUser, Held, TypeOK
<1>4. ASSUME NEW r \in Requests, GrantRole(r),
             roles' = [roles EXCEPT ![arg[r].user] = @ \cup {Granted(r)}]
      PROVE  SettledUser(u)'
  <2>1. pc[r] = "grant" /\ SettledRequest(r)
    BY <1>4 DEF GrantRole, RoleInv
  <2>2. CASE arg[r].user = u
    BY <1>1, <1>4, <2>1, <2>2 DEF SettledUser, Held, SettledRequest, TypeOK
  <2>3. CASE arg[r].user # u
    BY <1>1, <1>4, <2>3 DEF SettledUser, Held, TypeOK
  <2> QED
    BY <2>2, <2>3
<1> QED
  BY <1>2, <1>3, <1>4, RolesChange

\* A request that does not move stays settled: rows only go, or its user is tangled.
LEMMA OthersSettled ==
    ASSUME TypeOK, RoleInv, [Next]_vars, NEW s \in Requests, pc[s] # "new",
           arg'[s] = arg[s], left'[s] = left[s], pc'[s] = pc[s] \/ pc'[s] = "lost",
           ~Work(s)
    PROVE  SettledRequest(s)'
<1>1. tangled \subseteq tangled' /\ SettledRequest(s) /\ arg[s].user \in Users
  BY TangledGrows, ArgType DEF RoleInv
<1>2. CASE roles' = roles
  BY <1>1, <1>2 DEF SettledRequest, Held
<1>3. ASSUME NEW r \in Requests, NEW x \in Roles,
             roles' = [roles EXCEPT ![arg[r].user] = @ \ {x}]
      PROVE  SettledRequest(s)'
  BY <1>1, <1>3 DEF SettledRequest, Held, TypeOK
<1>4. ASSUME NEW r \in Requests, GrantRole(r),
             roles' = [roles EXCEPT ![arg[r].user] = @ \cup {Granted(r)}],
             tangled' = IF Rivals(r) = {} THEN tangled ELSE tangled \cup {arg[r].user}
      PROVE  SettledRequest(s)'
  <2>1. r # s
    BY <1>4 DEF Work
  <2>2. CASE arg[r].user # arg[s].user
    BY <1>1, <1>4, <2>2 DEF SettledRequest, Held, TypeOK
  <2>3. CASE arg[r].user = arg[s].user /\ pc[s] \in {"revoke", "grant"}
    <3>1. s \in Rivals(r)
      BY <2>1, <2>3 DEF Rivals
    <3>2. arg'[s].user \in tangled'
      BY <1>4, <2>3, <3>1
    <3> QED
      BY <3>2 DEF SettledRequest, Held
  <2>4. CASE pc[s] \notin {"revoke", "grant"}
    BY <2>4 DEF SettledRequest, Held
  <2> QED
    BY <2>2, <2>3, <2>4
<1> QED
  BY <1>2, <1>3, <1>4, RolesChange

LEMMA WorkSettled ==
    ASSUME TypeOK, RoleInv, NEW s \in Requests, Work(s)
    PROVE  SettledRequest(s)'
<1>1. SettledRequest(s)
  BY DEF RoleInv
<1>2. CASE CheckMember(s)
  BY <1>2 DEF CheckMember, Goto, SettledRequest, Held, IsMember, TypeOK, rowVars
<1>3. CASE ReadRoles(s)
  BY <1>3 DEF ReadRoles, Goto, SettledRequest, Held, TypeOK, rowVars
<1>4. ASSUME NEW x \in Roles, RevokeRole(s, x) PROVE SettledRequest(s)'
  <2>1. pc[s] = "revoke" /\ left'[s] = left[s] \ {x} /\ arg' = arg /\ arg[s].user \in Users
    BY <1>4, ArgType DEF RevokeRole, TypeOK
  <2>2. CASE tangled' = tangled \cup {arg[s].user}
    BY <2>1, <2>2 DEF SettledRequest, Held
  <2>3. CASE roles' = [roles EXCEPT ![arg[s].user] = @ \ {x}] /\ tangled' = tangled
    <3>1. roles'[arg[s].user] = roles[arg[s].user] \ {x}
      BY <2>1, <2>3 DEF TypeOK
    <3>2. pc'[s] = "grant" => left[s] = {x}
      BY <1>4 DEF RevokeRole, Goto, TypeOK
    <3> QED
      BY <1>1, <2>1, <2>3, <3>1, <3>2 DEF SettledRequest, Held
  <2> QED
    BY <1>4, <2>2, <2>3 DEF RevokeRole
<1>5. CASE \/ GrantRole(s) \/ ReadLink(s) \/ CountUse(s) \/ CountEvents(s)
           \/ DeleteOrganization(s) \/ CreateEvent(s) \/ StaffEvent(s) \/ Reject(s)
  <2>1. pc'[s] \notin {"revoke", "grant"}
    BY <1>5 DEF GrantRole, ReadLink, CountUse, CountEvents, DeleteOrganization, CreateEvent,
                StaffEvent, Reject, Goto, TypeOK
  <2> QED
    BY <2>1 DEF SettledRequest, Held
<1> QED
  BY <1>2, <1>3, <1>4, <1>5 DEF Work

LEMMA NextRole == TypeOK /\ PathInv /\ RoleInv /\ [Next]_vars => RoleInv'
<1> SUFFICES ASSUME TypeOK, PathInv, RoleInv, [Next]_vars PROVE RoleInv'
  OBVIOUS
<1>1. ASSUME NEW s \in Requests PROVE SettledRequest(s)'
  <2>1. CASE Work(s)
    BY <2>1, WorkSettled
  <2>2. ASSUME NEW call \in Calls, Start(s, call) PROVE SettledRequest(s)'
    BY <2>2, StartLeads DEF SettledRequest, Held, FirstStep, Kinds
  <2>3. ASSUME ~Work(s), arg'[s] = arg[s], left'[s] = left[s], pc'[s] = pc[s] \/ pc'[s] = "lost"
        PROVE  SettledRequest(s)'
    <3>1. CASE pc[s] = "new"
      BY <2>3, <3>1 DEF SettledRequest, Held
    <3>2. CASE pc[s] # "new"
      BY <2>3, <3>2, OthersSettled
    <3> QED
      BY <3>1, <3>2
  <2> QED
    BY <2>1, <2>2, <2>3, OneMoves
<1> QED
  BY <1>1, UsersSettled DEF RoleInv

LEMMA InitRole == Init => RoleInv
<1> SUFFICES ASSUME Init PROVE RoleInv
  OBVIOUS
<1>1. \A r \in Requests : SettledRequest(r)
  BY DEF Init, SettledRequest, Held
<1>2. \A u \in Users : SettledUser(u)
  BY DEF Init, SettledUser, Held
<1> QED
  BY <1>1, <1>2 DEF RoleInv

LEMMA OneRole == RoleInv => OneOrgRoleUnlessTangled
<1> SUFFICES ASSUME RoleInv, NEW u \in Users, u \notin tangled PROVE Cardinality(Held(u)) <= 1
  BY DEF OneOrgRoleUnlessTangled, Held
<1>1. \A x, y \in Held(u) : x = y
  BY DEF RoleInv, SettledUser
<1>2. CASE Held(u) = {}
  BY <1>2, FS_EmptySet
<1>3. ASSUME NEW x \in Held(u) PROVE Cardinality(Held(u)) <= 1
  <2>1. Held(u) = {x}
    BY <1>1
  <2>2. Cardinality({x}) = 1
    BY FS_Singleton
  <2> QED
    BY <2>1, <2>2
<1> QED
  BY <1>2, <1>3

(* However many requests run at once and whatever roles they name, a member *)
(* has both organization roles only when requests for that member           *)
(* overlapped, or a failure of the role service went unseen.                *)
THEOREM MembersHaveOneRole == Spec => []OneOrgRoleUnlessTangled
<1>1. TypeOK /\ PathInv /\ RoleInv /\ [Next]_vars => (TypeOK /\ PathInv /\ RoleInv)'
  BY NextType, NextPath, NextRole
<1> QED
  BY <1>1, InitType, InitPath, InitRole, OneRole, PTL DEF Spec

-----------------------------------------------------------------------------
(* An update keeps its member.                                             *)

\* What took the roles of the user of r away: a removal, an unfinished update, or
\* one to a role of another kind.
Taker(r, s) ==
    /\ s \in took /\ s # r
    /\ arg[s].user = arg[r].user
    /\ IsKind(s, "remove") \/ pc[s] # "done" \/ arg[s].role \notin OrgRoles

\* An update to an organization role answers with success when its user has one.
LEMMA UpdateEnds ==
    ASSUME TypeOK, PathInv, NEW s \in Requests, Work(s), IsKind(s, "update"), pc'[s] = "done",
           arg[s].role \in OrgRoles
    PROVE  roles'[arg[s].user] \cap OrgRoles # {}
<1>1. pc[s] \notin {"check", "readLink", "countUse", "countEvents", "delete", "create", "staff"}
  <2>1. ~IsKind(s, "use") /\ ~IsKind(s, "add") /\ ~IsKind(s, "delete") /\ ~IsKind(s, "event")
    BY DEF IsKind
  <2> QED
    BY <2>1 DEF PathInv
<1>2. CASE ReadRoles(s)
  BY <1>2 DEF ReadRoles, Goto, TypeOK, rowVars
<1>3. ASSUME NEW x \in Roles, RevokeRole(s, x) PROVE FALSE
  BY <1>3 DEF RevokeRole, AfterRevokes, Goto, TypeOK
<1>4. CASE GrantRole(s)
  <2>1. arg[s].user \in Users /\ ~IsKind(s, "use")
    BY <1>4, ArgType DEF GrantRole, IsKind
  <2>2. roles' = [roles EXCEPT ![arg[s].user] = @ \cup {Granted(s)}]
    BY <1>4, <2>1 DEF GrantRole, Goto, TypeOK
  <2> QED
    BY <2>1, <2>2 DEF TypeOK, Granted
<1>5. CASE Reject(s)
  BY <1>5 DEF Reject, Goto, TypeOK
<1> QED
  BY <1>1, <1>2, <1>3, <1>4, <1>5
     DEF Work, CheckMember, ReadLink, CountUse, CountEvents, DeleteOrganization, CreateEvent,
         StaffEvent

\* The kind and the user of a request that has started stay, and what it took.
LEMMA Kept ==
    ASSUME TypeOK, PathInv, [Next]_vars, NEW s \in Requests, pc[s] # "new"
    PROVE  /\ arg'[s] = arg[s] /\ pc'[s] # "new"
           /\ pc'[s] = pc[s] \/ pc'[s] = "lost" \/ Work(s)
<1>1. ASSUME NEW call \in Calls, Start(s, call) PROVE FALSE
  BY <1>1 DEF Start
<1> QED
  BY <1>1, OneMoves, WorkLeads

LEMMA TookGrows ==
    ASSUME TypeOK, [Next]_vars
    PROVE  took \subseteq took'
  BY DEF Next, Work, Start, CheckMember, ReadRoles, RevokeRole, GrantRole, ReadLink, CountUse,
         CountEvents, DeleteOrganization, CreateEvent, StaffEvent, Reject, CreateInviteLink,
         SetDisabled, Expire, Crash, vars, requestVars

\* A taker goes on being one while its user has no role.
LEMMA TakerStays ==
    ASSUME TypeOK, PathInv, [Next]_vars, NEW r \in Requests, pc[r] # "new",
           NEW s \in Requests, Taker(r, s), roles'[arg[r].user] \cap OrgRoles = {}
    PROVE  Taker(r, s)'
<1>1. s \in took' /\ pc[s] # "new" /\ arg[s].user = arg[r].user
  BY TookGrows DEF Taker, PathInv
<1>2. arg'[s] = arg[s] /\ arg'[r] = arg[r]
  BY <1>1, Kept
<1>3. CASE IsKind(s, "remove")
  BY <1>1, <1>2, <1>3 DEF Taker, IsKind
<1>4. CASE IsKind(s, "update") /\ pc'[s] = "done" /\ arg[s].role \in OrgRoles
  <2>1. Work(s)
    BY <1>1, <1>4, Kept DEF Taker, IsKind
  <2> QED
    BY <1>1, <1>4, <2>1, UpdateEnds
<1>5. IsKind(s, "remove") \/ IsKind(s, "update")
  BY DEF Taker, PathInv
<1> QED
  BY <1>1, <1>2, <1>3, <1>4, <1>5 DEF Taker

LEMMA NextUpdated ==
    TypeOK /\ PathInv /\ UpdatedStaysMember /\ [Next]_vars => UpdatedStaysMember'
<1> SUFFICES ASSUME TypeOK, PathInv, UpdatedStaysMember, [Next]_vars PROVE UpdatedStaysMember'
  OBVIOUS
<1>0. TypeOK'
  BY NextType
<1> SUFFICES ASSUME NEW r \in Requests, pc'[r] = "done", IsKind(r, "update")',
                    arg'[r].role \in OrgRoles, roles'[arg'[r].user] \cap OrgRoles = {}
             PROVE  \E s \in Requests : Taker(r, s)'
  BY <1>0 DEF UpdatedStaysMember, Taker, TypeOK
<1>1. pc[r] = "done" /\ arg'[r] = arg[r] /\ IsKind(r, "update")
  <2>1. ASSUME NEW call \in Calls, Start(r, call) PROVE FALSE
    BY <2>1, StartLeads DEF FirstStep, Kinds
  <2>2. ASSUME Work(r) PROVE FALSE
    BY <2>2, WorkLeads, UpdateEnds DEF IsKind
  <2> QED
    BY <2>1, <2>2, OneMoves DEF IsKind
<1>2. CASE roles[arg[r].user] \cap OrgRoles = {}
  <2>1. PICK s \in Requests : Taker(r, s)
    BY <1>1, <1>2 DEF UpdatedStaysMember, Taker, TypeOK
  <2> QED
    BY <1>1, <2>1, TakerStays
<1>3. CASE roles[arg[r].user] \cap OrgRoles # {}
  <2>1. arg[r].user \in Users
    BY <1>1, ArgType
  <2>2. ~(\E s \in Requests : roles' = [roles EXCEPT ![arg[s].user] = @ \cup {Granted(s)}])
    BY <1>1, <1>3, <2>1 DEF TypeOK
  <2>3. PICK s \in Requests, x \in Roles :
           /\ RevokeRole(s, x) /\ took' = took \cup {s}
           /\ roles' = [roles EXCEPT ![arg[s].user] = @ \ {x}]
    BY <1>1, <1>3, <2>2, RolesChange
  <2>4. arg[s].user = arg[r].user /\ pc[s] = "revoke" /\ s # r
    BY <1>1, <1>3, <2>1, <2>3 DEF TypeOK, RevokeRole
  <2>5. arg'[s] = arg[s] /\ (IsKind(s, "remove") \/ IsKind(s, "update"))
    BY <2>3, <2>4 DEF RevokeRole, PathInv
  <2>6. IsKind(s, "update") => pc'[s] # "done"
    BY <2>3, <2>4 DEF RevokeRole, AfterRevokes, Goto, TypeOK
  <2> QED
    BY <1>1, <2>3, <2>4, <2>5, <2>6 DEF Taker, IsKind
<1> QED
  BY <1>2, <1>3

(* An update to an organization role that was answered with success never   *)
(* leaves its user no member by itself, whatever other requests do.         *)
THEOREM UpdateKeepsMember == Spec => []UpdatedStaysMember
<1>1. TypeOK /\ PathInv /\ UpdatedStaysMember /\ [Next]_vars
         => (TypeOK /\ PathInv /\ UpdatedStaysMember)'
  BY NextType, NextPath, NextUpdated
<1>2. Init => UpdatedStaysMember
  BY DEF Init, UpdatedStaysMember
<1> QED
  BY <1>1, <1>2, InitType, InitPath, PTL DEF Spec

-----------------------------------------------------------------------------
(* What a deletion leaves behind.                                          *)

\* While a deletion that has counted is to come, the events there are came late.
EventInv ==
    \A e \in Requests :
        /\ events[e] = "orphan" => e \in late
        /\ events[e] = "owned" /\ (\E s \in Requests : pc[s] = "delete") => e \in late

\* Nothing counted is nothing owned.
LEMMA CountsNone == TypeOK /\ ~(Cardinality(Owned) > 0) => Owned = {}
<1> SUFFICES ASSUME TypeOK, ~(Cardinality(Owned) > 0) PROVE Owned = {}
  OBVIOUS
<1>1. IsFiniteSet(Owned)
  <2>1. Owned \subseteq Requests
    BY DEF Owned
  <2> QED
    BY <2>1, FS_Subset, OrganizationsAssumptions
<1>2. Cardinality(Owned) \in Nat
  BY <1>1, FS_CardinalityType
<1>3. Cardinality(Owned) = 0
  BY <1>2
<1> QED
  BY <1>1, <1>3, FS_EmptySet

LEMMA NextEvent == TypeOK /\ PathInv /\ EventInv /\ [Next]_vars => EventInv'
<1> SUFFICES ASSUME TypeOK, PathInv, EventInv, [Next]_vars PROVE EventInv'
  OBVIOUS
<1>1. ASSUME NEW r \in Requests, DeleteOrganization(r) PROVE EventInv'
  <2>1. pc[r] = "delete" /\ late' = late
    BY <1>1 DEF DeleteOrganization
  <2>2. \A e \in Requests : events[e] \in {"owned", "orphan"} => e \in late
    BY <2>1 DEF EventInv
  <2>3. \A e \in Requests : events'[e] # "none" => events[e] # "none"
    BY <1>1 DEF DeleteOrganization, TypeOK
  <2>4. \A e \in Requests : events[e] \in {"none", "owned", "orphan"}
    BY DEF TypeOK
  <2> QED
    BY <2>1, <2>2, <2>3, <2>4 DEF EventInv
<1>2. ASSUME NEW r \in Requests, CreateEvent(r) PROVE EventInv'
  <2>1. \A s \in Requests : pc'[s] = "delete" => pc[s] = "delete"
    BY <1>2 DEF CreateEvent, Goto, TypeOK
  <2>2. late \subseteq late' /\ \A e \in Requests \ {r} : events'[e] = events[e]
    BY <1>2 DEF CreateEvent, TypeOK
  <2>3. events'[r] = events[r] \/ (events'[r] = "owned" /\ \A s \in Requests : pc[s] = "delete" => r \in late')
    BY <1>2 DEF CreateEvent, TypeOK
  <2> QED
    BY <2>1, <2>2, <2>3 DEF EventInv
<1>3. ASSUME NEW r \in Requests, CountEvents(r) PROVE EventInv'
  <2>1. UNCHANGED <<events, late>>
    BY <1>3 DEF CountEvents, rowVars
  <2>2. CASE Owned = {}
    BY <2>1, <2>2 DEF EventInv, Owned
  <2>3. CASE Owned # {}
    <3>1. \A s \in Requests : pc'[s] = "delete" => pc[s] = "delete"
      BY <1>3, <2>3, CountsNone DEF CountEvents, Goto, TypeOK
    <3> QED
      BY <2>1, <3>1 DEF EventInv
  <2> QED
    BY <2>2, <2>3
<1>4. CASE /\ UNCHANGED <<events, late>>
           /\ \A s \in Requests : pc'[s] = "delete" => pc[s] = "delete"
  BY <1>4 DEF EventInv
<1>5. ASSUME NEW r \in Requests, NEW call \in Calls, Start(r, call)
      PROVE  /\ UNCHANGED <<events, late>>
             /\ \A s \in Requests : pc'[s] = "delete" => pc[s] = "delete"
  <2>1. pc'[r] # "delete"
    BY <1>5, StartLeads DEF FirstStep, Kinds
  <2> QED
    BY <1>5, <2>1 DEF Start, Goto, TypeOK, rowVars
<1>6. ASSUME NEW r \in Requests, NEW x \in Roles, RevokeRole(r, x)
      PROVE  /\ UNCHANGED <<events, late>>
             /\ \A s \in Requests : pc'[s] = "delete" => pc[s] = "delete"
  BY <1>6 DEF RevokeRole, AfterRevokes, Goto, TypeOK
<1>7. ASSUME NEW r \in Requests,
             \/ CheckMember(r) \/ ReadRoles(r) \/ GrantRole(r) \/ ReadLink(r)
             \/ CountUse(r) \/ StaffEvent(r) \/ Reject(r)
      PROVE  /\ UNCHANGED <<events, late>>
             /\ \A s \in Requests : pc'[s] = "delete" => pc[s] = "delete"
  BY <1>7 DEF CheckMember, ReadRoles, GrantRole, ReadLink, CountUse, StaffEvent, Reject, Goto,
              TypeOK, rowVars
<1>8. CASE \/ \E limit \in 0 .. MaxLimit : CreateInviteLink(limit)
           \/ \E flag \in BOOLEAN : SetDisabled(flag)
           \/ Expire \/ Crash \/ UNCHANGED vars
  <2>1. UNCHANGED <<events, late>>
    BY <1>8 DEF CreateInviteLink, SetDisabled, Expire, Crash, vars, rowVars
  <2>2. \A s \in Requests : pc'[s] = "delete" => pc[s] = "delete"
    BY <1>8 DEF CreateInviteLink, SetDisabled, Expire, Crash, vars, requestVars
  <2> QED
    BY <2>1, <2>2, <1>4
<1> QED
  BY <1>1, <1>2, <1>3, <1>4, <1>5, <1>6, <1>7, <1>8 DEF Next, Work

(* An event outlives its organization only when it was created after the    *)
(* deletion had counted, for any number of deletions and events.            *)
THEOREM OrphansCameLate == Spec => []OrphanedOnlyByRace
<1>1. TypeOK /\ PathInv /\ EventInv /\ [Next]_vars => (TypeOK /\ PathInv /\ EventInv)'
  BY NextType, NextPath, NextEvent
<1>2. Init => EventInv
  BY DEF Init, EventInv
<1>3. EventInv => OrphanedOnlyByRace
  BY DEF EventInv, OrphanedOnlyByRace
<1> QED
  BY <1>1, <1>2, <1>3, InitType, InitPath, PTL DEF Spec

-----------------------------------------------------------------------------
(* The contract of the link.                                               *)

Phase == [r \in Requests |-> PhaseOf(r)]

LinkOpen == IF Open THEN {"link"} ELSE {}

Uses == [i \in {"link"} |-> link.useCount]

\* A request other than one that moves is in the phase it was in.
LEMMA SamePhase ==
    ASSUME NEW r \in Requests, arg'[r] = arg[r], pc'[r] = pc[r]
    PROVE  PhaseOf(r)' = PhaseOf(r)
  BY DEF PhaseOf, IsKind

\* What is no use of the link is idle.
LEMMA OthersIdle ==
    ASSUME NEW r \in Requests, arg[r] = None \/ ~IsKind(r, "use") \/ pc[r] = "readLink"
    PROVE  PhaseOf(r) = <<"idle">>
  BY DEF PhaseOf

\* A use of the link that runs is idle or admitted.
LEMMA UsePhase ==
    ASSUME NEW r \in Requests, pc[r] \in {"readLink", "check", "grant", "countUse"}
    PROVE  PhaseOf(r) \in {<<"idle">>, <<"admitted", "link">>}
  BY DEF PhaseOf

\* The calls a use of the link awaits.
LEMMA UseAwaits ==
    ASSUME PathInv, NEW r \in Requests, IsKind(r, "use"), pc[r] \in Running
    PROVE  pc[r] \in {"readLink", "check", "grant", "countUse"}
<1>1. pc[r] \notin {"read", "revoke", "countEvents", "delete", "create", "staff"}
  BY DEF PathInv, IsKind
<1> QED
  BY <1>1 DEF Running

LEMMA ContractInitially == Init => Contract!ContractInit
<1> SUFFICES ASSUME Init PROVE Contract!ContractInit
  OBVIOUS
<1>1. Phase = [r \in Requests |-> <<"idle">>]
  BY OthersIdle DEF Init, Phase
<1>2. ~Open /\ link.useCount = 0
  BY DEF Init, Open
<1> QED
  BY <1>1, <1>2 DEF Contract!ContractInit, Contract!Idle, Phase

\* A step that moves no phase and counts no use opens or closes the link.
LEMMA Reconfigures ==
    ASSUME Phase' = Phase, link'.useCount = link.useCount
    PROVE  Contract!Reconfigure
  BY DEF Contract!Reconfigure, Phase

\* One request moves; the phases of the others stay.
LEMMA OnePhase ==
    ASSUME TypeOK, NEW r \in Requests, NEW next, pc' = [pc EXCEPT ![r] = next], arg' = arg
    PROVE  Phase' = [Phase EXCEPT ![r] = PhaseOf(r)']
<1>1. \A s \in Requests \ {r} : PhaseOf(s)' = PhaseOf(s)
  BY SamePhase DEF TypeOK
<1> QED
  BY <1>1 DEF Phase

\* The work of a request that is no use of the link.
LEMMA OtherWork ==
    ASSUME TypeOK, PathInv, NEW r \in Requests, Work(r), ~IsKind(r, "use")
    PROVE  Contract!Reconfigure
<1>1. arg' = arg /\ ~CountUse(r)
  BY DEF Work, CheckMember, ReadRoles, RevokeRole, GrantRole, ReadLink, CountUse, CountEvents,
         DeleteOrganization, CreateEvent, StaffEvent, Reject, PathInv
<1>2. \A s \in Requests \ {r} : pc'[s] = pc[s]
  BY DEF Work, CheckMember, ReadRoles, RevokeRole, GrantRole, ReadLink, CountUse, CountEvents,
         DeleteOrganization, CreateEvent, StaffEvent, Reject, Goto, TypeOK
<1>3. PhaseOf(r) = <<"idle">> /\ PhaseOf(r)' = <<"idle">>
  BY <1>1 DEF PhaseOf, IsKind
<1>4. Phase' = Phase
  BY <1>1, <1>2, <1>3, SamePhase DEF Phase
<1>5. link'.useCount = link.useCount
  <2>1. CASE DeleteOrganization(r)
    BY <2>1 DEF DeleteOrganization, TypeOK, Link
  <2>2. CASE ~DeleteOrganization(r)
    BY <1>1, <2>2 DEF Work, CheckMember, ReadRoles, RevokeRole, GrantRole, ReadLink, CountEvents,
                      CreateEvent, StaffEvent, Reject, rowVars
  <2> QED
    BY <2>1, <2>2
<1> QED
  BY <1>4, <1>5, Reconfigures

\* A use of the link moves, and the link stays as it is.
LEMMA UseMoves ==
    ASSUME TypeOK, NEW r \in Requests, IsKind(r, "use"),
           pc[r] \in {"readLink", "check", "grant", "countUse"},
           NEW next \in Running \cup Ended, pc' = [pc EXCEPT ![r] = next], arg' = arg, link' = link
    PROVE  /\ next \in {"refused", "failed", "lost"} => Contract!Leave({r})
           /\ PhaseOf(r) = <<"admitted", "link">> /\ next \in {"grant", "countUse"} =>
                 Contract!Reconfigure
<1>1. pc[r] # "new" /\ arg[r] # None /\ arg'[r] # None /\ pc'[r] = next /\ IsKind(r, "use")'
  BY DEF TypeOK, IsKind
<1>2. Phase' = [Phase EXCEPT ![r] = PhaseOf(r)']
  BY OnePhase
<1>3. Open' = Open
  BY DEF Open
<1>4. ASSUME next \in {"refused", "failed", "lost"} PROVE Contract!Leave({r})
  <2>1. PhaseOf(r)' = <<"closed">>
    BY <1>1, <1>4 DEF PhaseOf
  <2>2. PhaseOf(r) \in {<<"idle">>, <<"admitted", "link">>}
    BY UsePhase
  <2>3. Phase' = [s \in Requests |-> IF s \in {r} THEN <<"closed">> ELSE Phase[s]]
    BY <1>2, <2>1 DEF Phase
  <2> QED
    BY <1>3, <2>2, <2>3 DEF Contract!Leave, Contract!Idle, Contract!Closed, Contract!Stage, Phase
<1>5. ASSUME PhaseOf(r) = <<"admitted", "link">>, next \in {"grant", "countUse"}
      PROVE  Contract!Reconfigure
  <2>1. PhaseOf(r)' = <<"admitted", "link">>
    BY <1>1, <1>5 DEF PhaseOf
  <2>2. Phase' = Phase
    BY <1>2, <1>5, <2>1 DEF Phase
  <2> QED
    BY <2>2, Reconfigures
<1> QED
  BY <1>4, <1>5

\* The work of a request that uses the link.
LEMMA UseWork ==
    ASSUME TypeOK, PathInv, NEW r \in Requests, Work(r), IsKind(r, "use")
    PROVE  \/ Contract!Admit(r, "link") \/ Contract!Spend(r, "link")
           \/ Contract!Leave({r}) \/ Contract!Reconfigure
<1>1. pc[r] \in {"readLink", "check", "grant", "countUse"}
  <2>1. pc[r] \in Running
    BY DEF Work, CheckMember, ReadRoles, RevokeRole, GrantRole, ReadLink, CountUse, CountEvents,
       DeleteOrganization, CreateEvent, StaffEvent, Reject, Running
  <2> QED
    BY <2>1, UseAwaits
<1>2. /\ pc[r] \in Running /\ pc[r] # "new" /\ arg[r] # None
      /\ arg' = arg => arg'[r] # None /\ IsKind(r, "use")'
  BY <1>1 DEF Running, TypeOK, IsKind
<1>3. ASSUME pc[r] \in {"check", "grant", "countUse"} PROVE PhaseOf(r) = <<"admitted", "link">>
  BY <1>2, <1>3 DEF PhaseOf
<1>4. CASE ReadLink(r) /\ Open
  <2>1. pc' = [pc EXCEPT ![r] = "check"] /\ UNCHANGED <<arg, link>>
    BY <1>4 DEF ReadLink, Goto, rowVars
  <2>2. Phase' = [Phase EXCEPT ![r] = PhaseOf(r)']
    BY <2>1, OnePhase
  <2>3. PhaseOf(r)' = <<"admitted", "link">>
    BY <1>2, <2>1 DEF PhaseOf, TypeOK
  <2>4. Phase[r] = <<"idle">>
    BY <1>4, OthersIdle DEF Phase, ReadLink
  <2>5. Open' = Open
    BY <2>1 DEF Open
  <2> QED
    BY <1>4, <2>1, <2>2, <2>3, <2>4, <2>5 DEF Contract!Admit, Contract!Idle, Phase
<1>5. CASE (ReadLink(r) /\ ~Open) \/ CheckMember(r) \/ GrantRole(r) \/ Reject(r)
  <2>1. PICK next \in {"refused", "failed", "grant", "countUse"} : pc' = [pc EXCEPT ![r] = next]
    BY <1>1, <1>5 DEF ReadLink, CheckMember, GrantRole, Reject, Goto
  <2>2. UNCHANGED <<arg, link>> /\ next \in Running \cup Ended
    BY <1>5, <2>1 DEF ReadLink, CheckMember, GrantRole, Reject, rowVars, Running, Ended
  <2>3. CASE next \in {"refused", "failed"}
    BY <1>1, <1>2, <2>1, <2>2, <2>3, UseMoves
  <2>4. CASE next \in {"grant", "countUse"}
    <3>1. pc[r] \in {"check", "grant", "countUse"}
      BY <1>1, <1>5, <2>1, <2>4 DEF ReadLink, CheckMember, GrantRole, Reject, Goto, TypeOK
    <3> QED
      BY <1>1, <1>2, <1>3, <2>1, <2>2, <2>4, <3>1, UseMoves
  <2> QED
    BY <2>1, <2>3, <2>4
<1>6. CASE CountUse(r) /\ link.status = "stored"
  <2>1. /\ pc' = [pc EXCEPT ![r] = "done"] /\ arg' = arg
        /\ link' = [link EXCEPT !.useCount = @ + 1]
    BY <1>6 DEF CountUse, Goto
  <2>2. Phase' = [Phase EXCEPT ![r] = PhaseOf(r)']
    BY <2>1, OnePhase
  <2>3. PhaseOf(r)' = <<"spent", "link">>
    BY <1>2, <2>1 DEF PhaseOf, TypeOK
  <2>4. Phase[r] = <<"admitted", "link">>
    BY <1>3, <1>6 DEF Phase, CountUse
  <2>5. link \in Link /\ link.useCount \in Nat /\ link.maxUses \in Nat
    BY OrganizationsAssumptions DEF TypeOK, Link
  <2>6. /\ link'.useCount = link.useCount + 1 /\ link'.maxUses = link.maxUses
        /\ link'.status = link.status /\ link'.disabled = link.disabled /\ link'.expired = link.expired
    BY <2>1, <2>5 DEF Link
  <2>7. Open' => Open
    BY <2>5, <2>6 DEF Open
  <2>8. [i \in {"link"} |-> link'.useCount]
           = [[i \in {"link"} |-> link.useCount] EXCEPT !["link"] = @ + 1]
    BY <2>6
  <2> QED
    BY <2>2, <2>3, <2>4, <2>7, <2>8 DEF Contract!Spend, Phase
<1>7. CASE CountUse(r) /\ link.status # "stored"
  <2>1. pc' = [pc EXCEPT ![r] = "failed"] /\ UNCHANGED <<arg, link>>
    BY <1>7 DEF CountUse, Goto
  <2>2. "failed" \in Running \cup Ended
    BY DEF Ended
  <2> QED
    BY <1>1, <1>2, <2>1, <2>2, UseMoves
<1> QED
  BY <1>1, <1>4, <1>5, <1>6, <1>7
     DEF Work, ReadRoles, RevokeRole, CountEvents, DeleteOrganization, CreateEvent, StaffEvent

\* In a crash the uses of the link under way leave together.
LEMMA CrashLeaves ==
    ASSUME TypeOK, PathInv, Crash
    PROVE  (\E R \in SUBSET Requests : Contract!Leave(R)) \/ Contract!Reconfigure
<1> DEFINE R == {r \in Requests : arg[r] # None /\ IsKind(r, "use") /\ pc[r] \in Running}
<1>1. link' = link /\ arg' = arg
  BY DEF Crash, rowVars
<1>2. \A r \in Requests : pc'[r] = IF pc[r] \in Running THEN "lost" ELSE pc[r]
  BY DEF Crash
<1>3. \A r \in Requests \ R : PhaseOf(r)' = PhaseOf(r)
  <2> SUFFICES ASSUME NEW r \in Requests, r \notin R PROVE PhaseOf(r)' = PhaseOf(r)
    OBVIOUS
  <2>1. CASE pc[r] \in Running
    BY <1>1, <2>1 DEF PhaseOf, IsKind
  <2>2. CASE pc[r] \notin Running
    BY <1>1, <1>2, <2>2, SamePhase
  <2> QED
    BY <2>1, <2>2
<1>4. \A r \in R : PhaseOf(r)' = <<"closed">>
  BY <1>1, <1>2 DEF PhaseOf, IsKind, Running
<1>5. \A r \in R : PhaseOf(r) \in {<<"idle">>, <<"admitted", "link">>}
  BY UsePhase, UseAwaits
<1>6. Phase' = [r \in Requests |-> IF r \in R THEN <<"closed">> ELSE Phase[r]]
  BY <1>3, <1>4 DEF Phase
<1>7. Open' = Open
  BY <1>1 DEF Open
<1>8. CASE R # {}
  <2>1. Contract!Leave(R)
    BY <1>1, <1>5, <1>6, <1>7, <1>8
       DEF Contract!Leave, Contract!Idle, Contract!Closed, Contract!Stage, Phase
  <2> QED
    BY <2>1
<1>9. CASE R = {}
  <2>1. Phase' = Phase
    BY <1>6, <1>9 DEF Phase
  <2> QED
    BY <1>1, <2>1, Reconfigures
<1> QED
  BY <1>8, <1>9

\* A request that has not begun has nothing to do.
NewInv == \A r \in Requests : pc[r] = "new" => arg[r] = None

LEMMA NextNew == TypeOK /\ PathInv /\ NewInv /\ [Next]_vars => NewInv'
<1> SUFFICES ASSUME TypeOK, PathInv, NewInv, [Next]_vars, NEW s \in Requests
             PROVE  pc'[s] = "new" => arg'[s] = None
  BY DEF NewInv
<1>1. CASE Work(s)
  BY <1>1, WorkLeads
<1>2. CASE \E call \in Calls : Start(s, call)
  <2>1. PICK call \in Calls : Start(s, call)
    BY <1>2
  <2>2. pc'[s] = FirstStep[call.kind] /\ call.kind \in Kinds
    BY <2>1, StartLeads
  <2>3. pc'[s] # "new"
    BY <2>2 DEF FirstStep, Kinds
  <2> QED
    BY <2>3
<1>3. CASE /\ arg'[s] = arg[s] /\ left'[s] = left[s] /\ (s \in took' <=> s \in took)
           /\ pc'[s] = pc[s] \/ pc'[s] = "lost"
  BY <1>3 DEF NewInv
<1> QED
  BY <1>1, <1>2, <1>3, OneMoves

\* A use begins idle, as it was before.
LEMMA StartIdles ==
    ASSUME TypeOK, NewInv, NEW r \in Requests, NEW call \in Calls, Start(r, call)
    PROVE  Contract!Reconfigure
<1>1. \A s \in Requests \ {r} : arg'[s] = arg[s] /\ pc'[s] = pc[s]
  BY DEF Start, Goto, TypeOK
<1>2. PhaseOf(r) = <<"idle">>
  BY OthersIdle DEF Start, NewInv
<1>3. arg'[r] = call /\ pc'[r] = FirstStep[call.kind]
  BY DEF Start, Goto, TypeOK
<1>4. call.kind \in Kinds
  BY DEF Calls, Call
<1>5. call.kind = "use" => FirstStep[call.kind] = "readLink"
  BY <1>4 DEF FirstStep, Kinds
<1>6. PhaseOf(r)' = <<"idle">>
  BY <1>3, <1>5 DEF PhaseOf, IsKind
<1>7. Phase' = Phase
  BY <1>1, <1>2, <1>6, SamePhase DEF Phase
<1>8. link' = link
  BY DEF Start, rowVars
<1> QED
  BY <1>7, <1>8, Reconfigures

\* Administrators and the clock open and close the link.
LEMMA LinkReconfigures ==
    ASSUME TypeOK, UNCHANGED requestVars, link'.useCount = link.useCount
    PROVE  Contract!Reconfigure
<1>1. \A r \in Requests : PhaseOf(r)' = PhaseOf(r)
  BY SamePhase DEF requestVars
<1> QED
  BY <1>1, Reconfigures DEF Phase

LEMMA ContractStep ==
    TypeOK /\ PathInv /\ NewInv /\ [Next]_vars => Contract!ContractNext
<1> SUFFICES ASSUME TypeOK, PathInv, NewInv, [Next]_vars PROVE Contract!ContractNext
  OBVIOUS
<1>0. link \in Link
  BY DEF TypeOK
<1>1. ASSUME NEW r \in Requests, Work(r) PROVE Contract!ContractNext
  <2>1. CASE IsKind(r, "use")
    <3>1. "link" \in {"link"} /\ {r} \in SUBSET Requests
      OBVIOUS
    <3> QED
      BY <1>1, <2>1, <3>1, UseWork DEF Contract!ContractNext
  <2>2. CASE ~IsKind(r, "use")
    BY <1>1, <2>2, OtherWork DEF Contract!ContractNext
  <2> QED
    BY <2>1, <2>2
<1>2. ASSUME NEW r \in Requests, NEW call \in Calls, Start(r, call) PROVE Contract!ContractNext
  BY <1>2, StartIdles DEF Contract!ContractNext
<1>3. ASSUME NEW limit \in 0 .. MaxLimit, CreateInviteLink(limit) PROVE Contract!ContractNext
  BY <1>0, <1>3, LinkReconfigures DEF CreateInviteLink, Link, Contract!ContractNext
<1>4. ASSUME NEW flag \in BOOLEAN, SetDisabled(flag) PROVE Contract!ContractNext
  BY <1>0, <1>4, LinkReconfigures DEF SetDisabled, Link, Contract!ContractNext
<1>5. CASE Expire
  BY <1>0, <1>5, LinkReconfigures DEF Expire, Link, Contract!ContractNext
<1>6. CASE Crash
  BY <1>6, CrashLeaves DEF Contract!ContractNext
<1>7. CASE UNCHANGED vars
  BY <1>7, LinkReconfigures DEF vars, rowVars, Contract!ContractNext
<1> QED
  BY <1>1, <1>2, <1>3, <1>4, <1>5, <1>6, <1>7 DEF Next

(* The link of an organization keeps the contract of an invite link,        *)
(* whatever happens to its members, its events and the organization.        *)
THEOREM RefinesContract == Spec => ImplementsContract
<1>1. TypeOK /\ PathInv /\ NewInv /\ [Next]_vars
         => (TypeOK /\ PathInv /\ NewInv)' /\ [Contract!ContractNext]_(Contract!contractVars)
  BY NextType, NextPath, NextNew, ContractStep
<1>2. Init => NewInv
  BY DEF Init, NewInv
<1> QED
  BY <1>1, <1>2, InitType, InitPath, ContractInitially,
     PTL DEF Spec, ImplementsContract, Contract!ContractSpec
=============================================================================
