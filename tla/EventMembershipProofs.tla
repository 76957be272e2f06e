----------------------- MODULE EventMembershipProofs -----------------------
(***************************************************************************)
(* Proofs about EventMembership: types, and that an event loses its last   *)
(* administrator only by an update or a race.  The invariant follows a     *)
(* removal from its read to its write: at every point either another       *)
(* administrator remains, or a rival has taken an admin row in between.    *)
(***************************************************************************)
EXTENDS EventMembership, FiniteSetTheorems, TLAPS

\* Only updates, removals and leaves revoke, and only the last two count; the user
\* of a request that counts is still an administrator, unless a rival intervened.
PathInv ==
    \A r \in Requests :
        /\ pc[r] \in {"read", "count", "revoke"} => IsKind(r, {"remove", "leave", "update"})
        /\ pc[r] = "count" => /\ IsKind(r, {"remove", "leave"})
                              /\ arg[r].user \in Admins \/ lost[r] # {}

IInv == TypeOK /\ PathInv /\ ClearedToRevoke

-----------------------------------------------------------------------------
(* Types.                                                                  *)

LEMMA InitType == Init => TypeOK
  BY DEF Init, TypeOK

LEMMA StartType ==
    ASSUME TypeOK, NEW r \in Requests, NEW call \in Calls, Start(r, call)
    PROVE  TypeOK'
<1>1. call \in Call /\ call # None
  BY MembershipAssumptions DEF Calls, Call, Kinds
<1>2. pc' \in [Requests -> {"new"} \cup Running \cup Ended]
  BY DEF Start, Goto, TypeOK, Running
<1> QED
  BY <1>1, <1>2 DEF Start, Goto, TypeOK

LEMMA ReadType == ASSUME TypeOK, NEW r \in Requests, ReadRoles(r) PROVE TypeOK'
<1>1. arg[r] \in Call
  BY DEF TypeOK, ReadRoles
<1>2. roles[arg[r].user] \in SUBSET Roles
  BY <1>1 DEF TypeOK, Call
<1>3. AfterRead(r, roles[arg[r].user]) \in Running \cup Ended
  BY DEF AfterRead, AfterRevokes, Running, Ended
<1> QED
  BY <1>2, <1>3 DEF ReadRoles, Goto, TypeOK

LEMMA RevokeType ==
    ASSUME TypeOK, NEW r \in Requests, NEW x \in Roles, RevokeRole(r, x)
    PROVE  TypeOK'
<1>1. arg[r] \in Call
  BY DEF TypeOK, RevokeRole
<1>2. arg[r].user \in Users
  BY <1>1 DEF Call
<1>3. pc' \in [Requests -> {"new"} \cup Running \cup Ended]
  BY DEF RevokeRole, Goto, AfterRevokes, TypeOK, Running, Ended
<1>4. left' \in [Requests -> SUBSET Roles]
  BY DEF RevokeRole, TypeOK
<1>5. roles' \in [Users -> SUBSET Roles]
  BY <1>2 DEF RevokeRole, TypeOK
<1>6. lost' \in [Requests -> SUBSET Users]
  BY <1>2 DEF RevokeRole, Takes, TypeOK
<1>7. \A s \in Requests : pc'[s] # "new" => arg'[s] # None
  BY DEF RevokeRole, Goto, TypeOK
<1> QED
  BY <1>3, <1>4, <1>5, <1>6, <1>7 DEF RevokeRole, TypeOK

LEMMA GrantType == ASSUME TypeOK, NEW r \in Requests, GrantRole(r) PROVE TypeOK'
<1>1. arg[r] \in Call
  BY DEF TypeOK, GrantRole
<1>2. arg[r].user \in Users /\ arg[r].role \in Roles
  BY <1>1 DEF Call
<1>3. roles' \in [Users -> SUBSET Roles]
  BY <1>2 DEF GrantRole, TypeOK
<1>4. pc' \in [Requests -> {"new"} \cup Running \cup Ended]
  BY DEF GrantRole, Goto, TypeOK, Ended
<1>5. \A s \in Requests : pc'[s] # "new" => arg'[s] # None
  BY DEF GrantRole, Goto, TypeOK
<1> QED
  BY <1>3, <1>4, <1>5 DEF GrantRole, TypeOK

LEMMA NextType == TypeOK /\ [Next]_vars => TypeOK'
<1> SUFFICES ASSUME TypeOK, [Next]_vars PROVE TypeOK'
  OBVIOUS
<1>1. ASSUME NEW r \in Requests, CountAdmins(r) \/ Reject(r) PROVE TypeOK'
  BY <1>1 DEF TypeOK, CountAdmins, Reject, Goto, Running, Ended
<1>2. CASE Crash
  BY <1>2 DEF TypeOK, Crash, Running, Ended
<1>3. CASE UNCHANGED vars
  BY <1>3 DEF TypeOK, vars
<1> QED
  BY <1>1, <1>2, <1>3, StartType, ReadType, RevokeType, GrantType DEF Next, Work

-----------------------------------------------------------------------------
(* The administrators.                                                     *)

LEMMA AdminsFinite == TypeOK => IsFiniteSet(Admins)
<1>1. Admins \subseteq Users
  BY DEF Admins
<1> QED
  BY <1>1, FS_Subset, MembershipAssumptions

\* Only a revocation of the admin role takes an administrator away, and it is put
\* down against every other request that has read and not finished revoking.
LEMMA AdminGoes ==
    ASSUME TypeOK, [Next]_vars, NEW u \in Admins, u \notin Admins'
    PROVE  \E r \in Requests :
              /\ RevokeRole(r, Admin) /\ arg[r].user = u
              /\ Admins \ {u} \subseteq Admins'
              /\ \A s \in Requests : s # r /\ pc[s] \in {"count", "revoke"} => u \in lost'[s]
<1>1. roles' # roles
  BY DEF Admins
<1>2. ~(\E r \in Requests : GrantRole(r))
  BY DEF GrantRole, Admins, TypeOK
<1>3. PICK r \in Requests, x \in Roles : RevokeRole(r, x)
  BY <1>1, <1>2 DEF Next, Work, Start, ReadRoles, CountAdmins, Reject, Crash, vars
<1>4. roles' = [roles EXCEPT ![arg[r].user] = @ \ {x}] /\ Takes(r, arg[r].user, x)
  BY <1>1, <1>3 DEF RevokeRole
<1>5. x = Admin /\ arg[r].user = u
  BY <1>4 DEF Admins, TypeOK
<1>6. Admins \ {u} \subseteq Admins'
  BY <1>4, <1>5 DEF Admins, TypeOK
<1>7. \A s \in Requests : s # r /\ pc[s] \in {"count", "revoke"} => u \in lost'[s]
  BY <1>4, <1>5 DEF Takes, TypeOK, Admins
<1> QED
  BY <1>3, <1>5, <1>6, <1>7

LEMMA LostGrows ==
    ASSUME TypeOK, [Next]_vars, NEW s \in Requests
    PROVE  lost[s] \subseteq lost'[s]
<1>1. ASSUME NEW r \in Requests, NEW x \in Roles, RevokeRole(r, x)
      PROVE  lost[s] \subseteq lost'[s]
  BY <1>1 DEF RevokeRole, Takes, TypeOK
<1>2. \/ lost' = lost
      \/ \E r \in Requests, x \in Roles : RevokeRole(r, x)
  BY DEF Next, Work, Start, ReadRoles, CountAdmins, GrantRole, Reject, Crash, vars
<1> QED
  BY <1>1, <1>2

-----------------------------------------------------------------------------
(* The invariant.                                                          *)

\* What PathInv and ClearedToRevoke say of one request.
Cleared(r) ==
    /\ pc[r] \in {"read", "count", "revoke"} => IsKind(r, {"remove", "leave", "update"})
    /\ pc[r] = "count" => /\ IsKind(r, {"remove", "leave"})
                          /\ arg[r].user \in Admins \/ lost[r] # {}
    /\ pc[r] = "revoke" /\ IsKind(r, {"remove", "leave"}) /\ Admin \in left[r]
          => Admins \ {arg[r].user} # {} \/ lost[r] # {}

\* A request keeps what it has while others move.
LEMMA Waits ==
    ASSUME IInv, [Next]_vars, NEW s \in Requests,
           arg'[s] = arg[s], left'[s] = left[s], pc'[s] \in {pc[s], "lost"}
    PROVE  Cleared(s)'
<1>1. Cleared(s) /\ TypeOK /\ lost[s] \subseteq lost'[s]
  BY LostGrows DEF IInv, PathInv, ClearedToRevoke, Cleared
<1>2. CASE Admins \subseteq Admins' \/ pc[s] \notin {"count", "revoke"}
  BY <1>1, <1>2 DEF Cleared, IsKind
<1>3. CASE pc[s] \in {"count", "revoke"} /\ ~(Admins \subseteq Admins')
  <2>1. PICK u \in Admins : u \notin Admins'
    BY <1>3
  <2>2. PICK r \in Requests :
           /\ RevokeRole(r, Admin)
           /\ \A t \in Requests : t # r /\ pc[t] \in {"count", "revoke"} => u \in lost'[t]
    BY <1>1, <2>1, AdminGoes
  <2>3. r # s
    BY <2>2 DEF RevokeRole, IInv, TypeOK
  <2>4. lost'[s] # {}
    BY <1>3, <2>2, <2>3
  <2> QED
    BY <1>1, <2>4 DEF Cleared, IsKind
<1> QED
  BY <1>2, <1>3

LEMMA Moves == ASSUME IInv, NEW r \in Requests, Work(r) PROVE Cleared(r)'
<1>0. TypeOK /\ Cleared(r)
  BY DEF IInv, PathInv, ClearedToRevoke, Cleared
<1>1. ASSUME ReadRoles(r) PROVE Cleared(r)'
  <2>1. arg' = arg /\ roles' = roles /\ lost' = lost
    BY <1>1 DEF ReadRoles
  <2>2. left'[r] = roles[arg[r].user] /\ pc'[r] = AfterRead(r, roles[arg[r].user])
    BY <1>0, <1>1 DEF ReadRoles, Goto, TypeOK
  <2>3. IsKind(r, {"remove", "leave", "update"}) /\ arg[r] \in Call
    BY <1>0, <1>1 DEF ReadRoles, Cleared, TypeOK
  <2>4. pc'[r] = "count" => IsKind(r, {"remove", "leave"}) /\ arg[r].user \in Admins
    BY <2>2, <2>3 DEF AfterRead, AfterRevokes, Admins, Call
  <2>5. pc'[r] = "revoke" /\ IsKind(r, {"remove", "leave"}) => Admin \notin left'[r]
    BY <2>2 DEF AfterRead, AfterRevokes
  <2>6. Admins' = Admins
    BY <2>1 DEF Admins
  <2> QED
    BY <2>1, <2>3, <2>4, <2>5, <2>6 DEF Cleared, IsKind
<1>2. ASSUME CountAdmins(r) PROVE Cleared(r)'
  <2>1. UNCHANGED <<arg, roles, left, lost>>
    BY <1>2 DEF CountAdmins
  <2>2. pc'[r] = IF Cardinality(Admins) = 1 THEN "refused" ELSE "revoke"
    BY <1>0, <1>2 DEF CountAdmins, Goto, TypeOK
  <2>3. IsKind(r, {"remove", "leave"}) /\ (arg[r].user \in Admins \/ lost[r] # {})
    BY <1>0, <1>2 DEF CountAdmins, Cleared
  <2>4. Admins = {arg[r].user} => Cardinality(Admins) = 1
    BY FS_Singleton
  <2>5. pc'[r] = "revoke" => Admins \ {arg[r].user} # {} \/ lost[r] # {}
    BY <2>2, <2>3, <2>4
  <2>6. Admins' = Admins
    BY <2>1 DEF Admins
  <2> QED
    BY <2>1, <2>2, <2>3, <2>5, <2>6 DEF Cleared, IsKind
<1>3. ASSUME NEW x \in Roles, RevokeRole(r, x) PROVE Cleared(r)'
  <2>1. arg' = arg /\ left'[r] = left[r] \ {x} /\ pc[r] = "revoke"
    BY <1>0, <1>3 DEF RevokeRole, TypeOK
  <2>2. pc'[r] \in {"revoke", "grant", "done"}
    BY <1>0, <1>3 DEF RevokeRole, Goto, AfterRevokes, TypeOK
  <2>3. CASE x = Admin
    BY <1>0, <2>1, <2>2, <2>3 DEF Cleared, IsKind
  <2>4. CASE x # Admin
    <3>1. Admins' = Admins
      BY <1>0, <1>3, <2>4 DEF RevokeRole, Admins, TypeOK
    <3>2. lost' = lost
      BY <1>3, <2>4 DEF RevokeRole, Takes
    <3> QED
      BY <1>0, <2>1, <2>2, <3>1, <3>2 DEF Cleared, IsKind
  <2> QED
    BY <2>3, <2>4
<1>4. ASSUME GrantRole(r) \/ Reject(r) PROVE Cleared(r)'
  <2>1. pc'[r] \in Ended
    BY <1>0, <1>4 DEF GrantRole, Reject, Goto, TypeOK, Ended
  <2> QED
    BY <2>1 DEF Cleared, Ended
<1> QED
  BY <1>1, <1>2, <1>3, <1>4 DEF Work

\* A step is the work or the start of one request, or moves none of them.
LEMMA OneMoves ==
    ASSUME TypeOK, [Next]_vars, NEW s \in Requests
    PROVE  \/ Work(s)
           \/ \E call \in Calls : Start(s, call)
           \/ arg'[s] = arg[s] /\ left'[s] = left[s] /\ pc'[s] \in {pc[s], "lost"}
<1>1. ASSUME NEW r \in Requests, r # s, Work(r) \/ \E call \in Calls : Start(r, call)
      PROVE  arg'[s] = arg[s] /\ left'[s] = left[s] /\ pc'[s] = pc[s]
  BY <1>1 DEF Work, Start, ReadRoles, CountAdmins, RevokeRole, GrantRole, Reject, Goto, TypeOK
<1>2. CASE Crash
  BY <1>2 DEF Crash, TypeOK
<1>3. CASE UNCHANGED vars
  BY <1>3 DEF vars
<1> QED
  BY <1>1, <1>2, <1>3 DEF Next

LEMMA InitInv == Init => IInv
  BY InitType DEF Init, IInv, PathInv, ClearedToRevoke

LEMMA NextInv == IInv /\ [Next]_vars => IInv'
<1> SUFFICES ASSUME IInv, [Next]_vars PROVE IInv'
  OBVIOUS
<1>1. TypeOK'
  BY NextType DEF IInv
<1>2. ASSUME NEW s \in Requests, NEW call \in Calls, Start(s, call) PROVE Cleared(s)'
  <2>1. arg'[s] = call /\ pc'[s] = IF call.kind = "assign" THEN "grant" ELSE "read"
    BY <1>2 DEF Start, Goto, IInv, TypeOK
  <2>2. call.kind \in {"remove", "leave", "update", "assign"}
    BY DEF Calls, Call, Kinds
  <2> QED
    BY <2>1, <2>2 DEF Cleared, IsKind
<1>3. \A s \in Requests : Cleared(s)'
  BY <1>2, OneMoves, Moves, Waits DEF IInv
<1> QED
  BY <1>1, <1>3 DEF IInv, PathInv, ClearedToRevoke, Cleared

(* Membership rows, requests and their snapshots keep their types.          *)
THEOREM TypeCorrect == Spec => []TypeOK
<1>1. TypeOK /\ [Next]_vars => TypeOK'
  BY NextType
<1> QED
  BY <1>1, InitType, PTL DEF Spec

(* A removal about to take an admin row leaves another administrator, or    *)
(* was overtaken, for any number of users and of concurrent requests.       *)
THEOREM RemovalIsCleared == Spec => []ClearedToRevoke
<1>1. IInv => ClearedToRevoke
  BY DEF IInv
<1> QED
  BY <1>1, InitInv, NextInv, PTL DEF Spec

LEMMA LastAdminStep ==
    ASSUME IInv, [Next]_vars, Admins # {}, Admins' = {}
    PROVE  \E r \in Revoking : IsKind(r, {"update"}) \/ lost[r] # {}
<1>1. PICK u \in Admins : u \notin Admins'
  OBVIOUS
<1>2. PICK r \in Requests :
         RevokeRole(r, Admin) /\ arg[r].user = u /\ Admins \ {u} \subseteq Admins'
  BY <1>1, AdminGoes DEF IInv
<1>3. pc[r] = "revoke" /\ Admin \in left[r] /\ left'[r] # left[r]
  BY <1>2 DEF RevokeRole, IInv, TypeOK
<1>4. r \in Revoking
  BY <1>3 DEF Revoking
<1>5. IsKind(r, {"update"}) \/ IsKind(r, {"remove", "leave"})
  BY <1>3 DEF IInv, PathInv, IsKind
<1>6. IsKind(r, {"remove", "leave"}) => lost[r] # {}
  BY <1>2, <1>3 DEF IInv, ClearedToRevoke
<1> QED
  BY <1>4, <1>5, <1>6

(* An event loses its last administrator only by an update or a race.       *)
THEOREM LastAdminLost == Spec => LastAdminGoesByRaceOrUpdate
<1>1. IInv /\ [Next]_vars
         => [Admins # {} /\ Admins' = {} =>
                \E r \in Revoking : IsKind(r, {"update"}) \/ lost[r] # {}]_vars
  BY LastAdminStep
<1> QED
  BY <1>1, InitInv, NextInv, PTL DEF Spec, LastAdminGoesByRaceOrUpdate

-----------------------------------------------------------------------------
(* Progress.  That every request ends is a liveness property and stays with *)
(* the model checker; this is the argument behind it, for any set of roles. *)

\* How far a request is from its end.
Phase(state) ==
    CASE state = "new"    -> 5
      [] state = "read"   -> 4
      [] state = "count"  -> 3
      [] state = "revoke" -> 2
      [] state = "grant"  -> 1
      [] OTHER            -> 0

\* The request waits, enters a later phase, or has fewer roles left to revoke.
Forward(r) ==
    \/ UNCHANGED <<pc[r], left[r]>>
    \/ Phase(pc'[r]) < Phase(pc[r])
    \/ /\ pc[r] = "revoke" /\ pc'[r] = "revoke"
       /\ left'[r] \subseteq left[r] /\ left'[r] # left[r]

\* A request that is to revoke, or that counts before it does, has a role to revoke:
\* the loop over the roles that were read never waits for nothing.
LoopHasWork == \A r \in Requests : pc[r] \in {"count", "revoke"} => left[r] # {}

\* Each step of a request takes that one, and no other, nearer to its end.
LEMMA RequestMoves ==
    ASSUME TypeOK, LoopHasWork, NEW r \in Requests,
           Work(r) \/ \E call \in Calls : Start(r, call)
    PROVE  /\ Forward(r) /\ <<pc'[r], left'[r]>> # <<pc[r], left[r]>>
           /\ pc'[r] \in {"count", "revoke"} => left'[r] # {}
           /\ \A s \in Requests \ {r} : pc'[s] = pc[s] /\ left'[s] = left[s]
<1>1. CASE \E call \in Calls : Start(r, call)
  BY <1>1 DEF Start, Goto, Forward, Phase, TypeOK
<1>2. CASE ReadRoles(r)
  BY <1>2 DEF ReadRoles, AfterRead, AfterRevokes, Goto, Forward, Phase, TypeOK
<1>3. CASE CountAdmins(r) \/ Reject(r)
  BY <1>3 DEF CountAdmins, Reject, Goto, Forward, Phase, TypeOK, LoopHasWork
<1>4. CASE GrantRole(r)
  BY <1>4 DEF GrantRole, Goto, Forward, Phase, TypeOK
<1>5. CASE \E x \in Roles : RevokeRole(r, x)
  BY <1>5 DEF RevokeRole, AfterRevokes, Goto, Forward, Phase, TypeOK
<1> QED
  BY <1>1, <1>2, <1>3, <1>4, <1>5 DEF Work

LEMMA ProgressStep ==
    ASSUME TypeOK, LoopHasWork, [Next]_vars
    PROVE  LoopHasWork' /\ \A r \in Requests : Forward(r)
<1>1. CASE \E r \in Requests : Work(r) \/ \E call \in Calls : Start(r, call)
  BY <1>1, RequestMoves DEF LoopHasWork, Forward
<1>2. CASE Crash
  BY <1>2 DEF Crash, LoopHasWork, Forward, Phase, Running, TypeOK
<1>3. CASE UNCHANGED vars
  BY <1>3 DEF vars, LoopHasWork, Forward
<1> QED
  BY <1>1, <1>2, <1>3 DEF Next

(* No request waits in a loop that has nothing left to revoke.              *)
THEOREM RevokesSomething == Spec => []LoopHasWork
<1>1. Init => LoopHasWork
  BY DEF Init, LoopHasWork
<1> QED
  BY <1>1, InitType, NextType, ProgressStep, PTL DEF Spec

(* No request ever goes back: a failed revocation is not tried again, and   *)
(* each of its steps enters a later phase or takes a role off its list.      *)
THEOREM NeverGoesBack == Spec => [][\A r \in Requests : Forward(r)]_vars
<1>1. Init => LoopHasWork
  BY DEF Init, LoopHasWork
<1>2. TypeOK /\ LoopHasWork /\ [Next]_vars => [\A r \in Requests : Forward(r)]_vars
  BY ProgressStep
<1> QED
  BY <1>1, <1>2, InitType, NextType, ProgressStep, PTL DEF Spec
=============================================================================
