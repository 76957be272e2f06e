-------------------------- MODULE InviteRedemption --------------------------
(***************************************************************************)
(* Event invite links: services/invite.service.ts.                         *)
(*                                                                         *)
(* Each HTTP request runs redeemInvite or registerWithInvite.  Node runs   *)
(* the code between two awaits without interruption, so a step of a        *)
(* request is one awaited database call with the code that follows it; the *)
(* steps of different requests, and those of administrators editing the    *)
(* link, interleave.  A request is a member of Requests and runs once; the *)
(* actions that need no interleaving of their own (one write each) are     *)
(* atomic.  AuditLog rows are left out: nothing here reads them.           *)
(***************************************************************************)
EXTENDS Naturals, FiniteSets

CONSTANTS Requests,   \* HTTP requests, each runs once
          Users,      \* people, each with one email address
          Invites,    \* EventInviteLink ids, all of one event
          Roles,      \* unified role names
          RoleOf,     \* the role an invite grants (fixed when it is created)
          Kinds,      \* the handlers in play: "redeem", "register" or both
          MaxLimit,   \* bound on the maxUses an administrator chooses
          None        \* no value

ASSUME InviteAssumptions ==
    /\ IsFiniteSet(Requests)
    /\ RoleOf \in [Invites -> Roles]
    /\ Kinds \subseteq {"redeem", "register"}
    /\ MaxLimit \in Nat \ {0}
    /\ None \notin [kind : Kinds, user : Users, invite : Invites]

VARIABLES invite,     \* the EventInviteLink rows
          accounts,   \* users with a User row
          roles,      \* UserRole rows of the event, per user
          pc,         \* what each request awaits, or how it ended
          arg,        \* kind, user and invite of a request
          did,        \* the database writes a request has made
          peak,       \* history: largest maxUses the invite had, 0 once unlimited
          load        \* history: most requests ever in flight on the invite at once

requestVars == <<pc, arg, did>>
historyVars == <<peak, load>>
vars == <<invite, accounts, roles, requestVars, historyVars>>

-----------------------------------------------------------------------------
Limits  == 0 .. MaxLimit       \* 0 stands for null: unlimited
Effects == {"account", "role", "use"}

InviteRow == [status   : {"absent", "stored", "deleted"},
              disabled : BOOLEAN,
              expired  : BOOLEAN,   \* expiresAt is set and before the clock
              maxUses  : Limits,
              useCount : Nat]

Admitted == {"checkMember", "checkEmail", "createAccount", "findRole", "grantRole", "countUse"}
Running  == Admitted \cup {"findEvent"}
Ended    == {"joined", "refused", "failed", "lost"}

TypeOK ==
    /\ invite \in [Invites -> InviteRow]
    /\ accounts \subseteq Users
    /\ roles \in [Users -> SUBSET Roles]
    /\ pc \in [Requests -> {"new"} \cup Running \cup Ended]
    /\ arg \in [Requests -> [kind : Kinds, user : Users, invite : Invites] \cup {None}]
    /\ \A r \in Requests : pc[r] # "new" => arg[r] # None
    /\ did \in [Requests -> SUBSET Effects]
    /\ peak \in [Invites -> Limits]
    /\ load \in [Invites -> Nat]

\* Requests that were let in by invite i and have not counted their use.
InFlight(i) == {r \in Requests : pc[r] \in Admitted /\ arg[r].invite = i}

\* Requests that counted a use of invite i.
Spent(i) == {r \in Requests : "use" \in did[r] /\ arg[r].invite = i}

Init ==
    /\ invite = [i \in Invites |-> [status |-> "absent", disabled |-> FALSE,
                                    expired |-> FALSE, maxUses |-> 0, useCount |-> 0]]
    /\ accounts \in SUBSET Users
    /\ roles = [u \in Users |-> {}]
    /\ pc = [r \in Requests |-> "new"]
    /\ arg = [r \in Requests |-> None]
    /\ did = [r \in Requests |-> {}]
    /\ peak = [i \in Invites |-> 0]
    /\ load = [i \in Invites |-> 0]

-----------------------------------------------------------------------------
(* Administrators and the clock.                                           *)

CreateInvite(i, limit, expired) ==
    /\ invite[i].status = "absent"
    /\ invite' = [invite EXCEPT ![i] = [status |-> "stored", disabled |-> FALSE,
                                        expired |-> expired, maxUses |-> limit,
                                        useCount |-> 0]]
    /\ peak' = [peak EXCEPT ![i] = limit]
    /\ UNCHANGED <<accounts, roles, requestVars, load>>

Larger(m, n) == IF m >= n THEN m ELSE n

\* Mutant of UpdateInvite: editing a link starts its counter again.
UpdateInviteRestartsCount(i, disabled, limit, expired) ==
    /\ invite[i].status = "stored"
    /\ invite' = [invite EXCEPT ![i] = [@ EXCEPT !.disabled = disabled, !.maxUses = limit,
                                                 !.expired = expired, !.useCount = 0]]
    /\ peak' = [peak EXCEPT ![i] = IF @ = 0 \/ limit = 0 THEN 0 ELSE Larger(@, limit)]
    /\ UNCHANGED <<accounts, roles, requestVars, load>>

\* PATCH may set disabled, expiresAt and maxUses to anything, in any combination;
\* useCount is never among the fields it writes.
UpdateInvite(i, disabled, limit, expired) ==
    /\ invite[i].status = "stored"
    /\ invite' = [invite EXCEPT ![i] = [@ EXCEPT !.disabled = disabled, !.maxUses = limit,
                                                 !.expired = expired]]
    /\ peak' = [peak EXCEPT ![i] = IF @ = 0 \/ limit = 0 THEN 0 ELSE Larger(@, limit)]
    /\ UNCHANGED <<accounts, roles, requestVars, load>>

\* The row goes; its last useCount is kept for UseCountExact to speak of.
DeleteInvite(i) ==
    /\ invite[i].status = "stored"
    /\ invite' = [invite EXCEPT ![i] = [status |-> "deleted", disabled |-> FALSE,
                                        expired |-> FALSE, maxUses |-> 0,
                                        useCount |-> @.useCount]]
    /\ UNCHANGED <<accounts, roles, requestVars, historyVars>>

\* A link without expiresAt never gets here; the model does not tell it apart.
ExpiryPasses(i) ==
    /\ invite[i].status = "stored" /\ ~invite[i].expired
    /\ invite' = [invite EXCEPT ![i].expired = TRUE]
    /\ UNCHANGED <<accounts, roles, requestVars, historyVars>>

\* Members leave the event or are removed from it (event and user services).
MemberLeaves(u) ==
    /\ roles[u] # {}
    /\ roles' = [roles EXCEPT ![u] = {}]
    /\ UNCHANGED <<invite, accounts, requestVars, historyVars>>

-----------------------------------------------------------------------------
(* A request.                                                              *)

\* Mutant of Usable: off by one at the limit.
UsableAtLimit(row) ==
    /\ row.status = "stored" /\ ~row.disabled
    /\ ~row.expired
    /\ row.maxUses # 0 => row.useCount <= row.maxUses

\* Mutant of Usable: a disabled link is not turned away.
UsableDisabled(row) ==
    /\ row.status = "stored"
    /\ ~row.expired
    /\ row.maxUses # 0 => row.useCount < row.maxUses

\* The three tests both handlers make on the row they have just read.
Usable(row) ==
    /\ row.status = "stored" /\ ~row.disabled
    /\ ~row.expired
    /\ row.maxUses # 0 => row.useCount < row.maxUses

Goto(r, next) == pc' = [pc EXCEPT ![r] = next]

Does(r, effect) == did' = [did EXCEPT ![r] = @ \cup {effect}]

\* The handler has read the row: it goes on to `next' or answers with a refusal.
ReadInvite(r, kind, u, i, next) ==
    /\ pc[r] = "new"
    /\ arg' = [arg EXCEPT ![r] = [kind |-> kind, user |-> u, invite |-> i]]
    /\ IF Usable(invite[i])
       THEN /\ Goto(r, next)
            /\ load' = [load EXCEPT ![i] = Larger(@, Cardinality(InFlight(i) \cup {r}))]
       ELSE /\ Goto(r, "refused")
            /\ UNCHANGED load
    /\ UNCHANGED <<invite, accounts, roles, did, peak>>

StartRedeem(r, u, i) ==
    /\ "redeem" \in Kinds /\ u \in accounts
    /\ ReadInvite(r, "redeem", u, i, "checkMember")

StartRegister(r, u, i) ==
    /\ "register" \in Kinds
    /\ ReadInvite(r, "register", u, i, "checkEmail")

\* redeemInvite: a user with any role at the event is refused.
CheckMember(r) ==
    /\ pc[r] = "checkMember"
    /\ Goto(r, IF roles[arg[r].user] = {} THEN "findRole" ELSE "refused")
    /\ UNCHANGED <<invite, accounts, roles, arg, did, historyVars>>

\* registerWithInvite: a taken address or a weak password is refused.
CheckEmail(r) ==
    /\ pc[r] = "checkEmail"
    /\ \/ Goto(r, "refused")
       \/ arg[r].user \notin accounts /\ Goto(r, "createAccount")
    /\ UNCHANGED <<invite, accounts, roles, arg, did, historyVars>>

\* user.create; the unique index on email makes the second of two racing inserts throw.
CreateAccount(r) ==
    /\ pc[r] = "createAccount"
    /\ IF arg[r].user \in accounts
       THEN Goto(r, "failed") /\ UNCHANGED <<accounts, did>>
       ELSE /\ accounts' = accounts \cup {arg[r].user}
            /\ Does(r, "account")
            /\ Goto(r, "findRole")
    /\ UNCHANGED <<invite, roles, arg, historyVars>>

\* unifiedRole.findUnique; registerWithInvite has stored the account by then.  The
\* foreign key keeps the role's row as long as the link's: without the link the
\* row may be missing, and the request is refused.
FindRole(r) ==
    /\ pc[r] = "findRole"
    /\ \/ Goto(r, "grantRole")
       \/ invite[arg[r].invite].status = "deleted" /\ Goto(r, "refused")
    /\ UNCHANGED <<invite, accounts, roles, arg, did, historyVars>>

\* Mutant of GrantRole: the role is taken from the request, not from the link.
GrantRoleAsked(r) ==
    /\ pc[r] = "grantRole"
    /\ Goto(r, "countUse")
    /\ \E role \in Roles : roles' = [roles EXCEPT ![arg[r].user] = @ \cup {role}]
    /\ Does(r, "role")
    /\ UNCHANGED <<invite, accounts, arg, historyVars>>

\* grantRole upserts the row, or fails and returns false, which the handlers ignore.
GrantRole(r) ==
    /\ pc[r] = "grantRole"
    /\ Goto(r, "countUse")
    /\ \/ /\ roles' = [roles EXCEPT ![arg[r].user] = @ \cup {RoleOf[arg[r].invite]}]
          /\ Does(r, "role")
       \/ UNCHANGED <<roles, did>>
    /\ UNCHANGED <<invite, accounts, arg, historyVars>>

\* Mutant of CountUse: the limit is tested again where the use is counted.
CountUseRechecked(r) ==
    LET i == arg[r].invite IN
    /\ pc[r] = "countUse"
    /\ IF Usable(invite[i])
       THEN /\ invite' = [invite EXCEPT ![i].useCount = @ + 1]
            /\ Does(r, "use")
            /\ Goto(r, IF arg[r].kind = "redeem" THEN "findEvent" ELSE "joined")
       ELSE Goto(r, "refused") /\ UNCHANGED <<invite, did>>
    /\ UNCHANGED <<accounts, roles, arg, historyVars>>

\* useCount: { increment: 1 } is one atomic UPDATE, which throws when the row is gone.
CountUse(r) ==
    LET i == arg[r].invite IN
    /\ pc[r] = "countUse"
    /\ IF invite[i].status = "stored"
       THEN /\ invite' = [invite EXCEPT ![i].useCount = @ + 1]
            /\ Does(r, "use")
            /\ Goto(r, IF arg[r].kind = "redeem" THEN "findEvent" ELSE "joined")
       ELSE Goto(r, "failed") /\ UNCHANGED <<invite, did>>
    /\ UNCHANGED <<accounts, roles, arg, historyVars>>

FindEvent(r) ==
    /\ pc[r] = "findEvent"
    /\ Goto(r, "joined")
    /\ UNCHANGED <<invite, accounts, roles, arg, did, historyVars>>

\* An awaited call rejects: the catch block answers with a failure, nothing is undone.
Reject(r) ==
    /\ pc[r] \in Running
    /\ Goto(r, "failed")
    /\ UNCHANGED <<invite, accounts, roles, arg, did, historyVars>>

\* The server process dies: every running request ends where it is.
Crash ==
    /\ \E r \in Requests : pc[r] \in Running
    /\ pc' = [r \in Requests |-> IF pc[r] \in Running THEN "lost" ELSE pc[r]]
    /\ UNCHANGED <<invite, accounts, roles, arg, did, historyVars>>

-----------------------------------------------------------------------------
AdminStep(i) ==
    \/ \E limit \in Limits, expired \in BOOLEAN : CreateInvite(i, limit, expired)
    \/ \E disabled \in BOOLEAN, limit \in Limits, expired \in BOOLEAN :
          UpdateInvite(i, disabled, limit, expired)
    \/ DeleteInvite(i)
    \/ ExpiryPasses(i)

RequestStep(r) ==
    \/ \E u \in Users, i \in Invites : StartRedeem(r, u, i) \/ StartRegister(r, u, i)
    \/ CheckMember(r)
    \/ CheckEmail(r)
    \/ CreateAccount(r)
    \/ FindRole(r)
    \/ GrantRole(r)
    \/ CountUse(r)
    \/ FindEvent(r)
    \/ Reject(r)

Next ==
    \/ \E i \in Invites : AdminStep(i)
    \/ \E u \in Users : MemberLeaves(u)
    \/ \E r \in Requests : RequestStep(r)
    \/ Crash

Spec == Init /\ [][Next]_vars

-----------------------------------------------------------------------------
(* Properties.                                                             *)

(* The inductive invariant behind the properties below.  What a request has *)
(* written follows its progress; a link that was never created has no       *)
(* requests; a link counts what was spent; and uses plus requests on their  *)
(* way to one stay below the highest limit plus the heaviest overlap.       *)
ProgressInv ==
    \A r \in Requests :
        /\ pc[r] \in {"new", "checkMember", "checkEmail", "createAccount"} => did[r] = {}
        /\ pc[r] = "findRole" => did[r] \subseteq {"account"}
        /\ pc[r] \in Admitted => "use" \notin did[r]

AbsentInv ==
    \A i \in Invites : invite[i].status = "absent" => InFlight(i) = {} /\ Spent(i) = {}

LimitInv ==
    \A i \in Invites : peak[i] # 0 =>
        /\ invite[i].status = "stored" => invite[i].maxUses \in 1 .. peak[i]
        /\ invite[i].useCount + Cardinality(InFlight(i)) <= (peak[i] - 1) + load[i]

(* The stored useCount of a link is the number of requests that counted a   *)
(* use of it: concurrent increments are never lost and none is made twice.  *)
UseCountExact ==
    \A i \in Invites : invite[i].useCount = Cardinality(Spent(i))

(* The check of maxUses and the increment are separate database calls, so a *)
(* link can be used more often than its limit; but only by as many uses as  *)
(* redemptions overlapped: with at most C requests in flight at once on a   *)
(* link that was never limited to more than L, fewer than L + C uses are    *)
(* counted.  In particular a link redeemed by one request at a time keeps   *)
(* its limit.                                                               *)
OverrunOnlyByOverlap ==
    \A i \in Invites : peak[i] # 0 => invite[i].useCount <= (peak[i] - 1) + load[i]

(* A request that was told it is refused has granted no role and counted no *)
(* use.  It leaves an account only when the role of its link could not be   *)
(* found, and then somebody deleted the link after the request had read it. *)
RefusalLeavesOnlyAccount ==
    \A r \in Requests : pc[r] = "refused" /\ did[r] # {} =>
        /\ did[r] = {"account"}
        /\ invite[arg[r].invite].status = "deleted"

(* A role at the event that came through this component came from a link    *)
(* that carries that role, redeemed by the user who holds it.               *)
RolesComeFromInvites ==
    \A u \in Users : \A role \in roles[u] :
        \E r \in Requests : /\ "role" \in did[r]
                            /\ arg[r].user = u
                            /\ RoleOf[arg[r].invite] = role

PhaseOf(r) ==
    IF "use" \in did[r] THEN <<"spent", arg[r].invite>>
    ELSE IF pc[r] \in Admitted THEN <<"admitted", arg[r].invite>>
    ELSE IF pc[r] = "new" THEN <<"idle">> ELSE <<"closed">>

Open(i) ==
    /\ invite[i].status = "stored"
    /\ ~(invite[i].disabled \/ invite[i].expired)
    /\ invite[i].maxUses = 0 \/ invite[i].useCount < invite[i].maxUses

Contract == INSTANCE InviteContract WITH
    open  <- {i \in Invites : Open(i)},
    phase <- [r \in Requests |-> PhaseOf(r)],
    uses  <- [i \in Invites |-> invite[i].useCount]

(* The handlers, interleaved with administrators and crashes, implement the *)
(* contract of a link: admission at the one instant the row is read and     *)
(* only while the link is open, at most one use per admitted request, none  *)
(* without admission.                                                       *)
ImplementsContract == Contract!ContractSpec

(* A claim of the documentation that the code does not keep.               *)

(* A request that is answered with success has given its user the role.     *)
JoinedMeansMember ==
    \A r \in Requests : pc[r] = "joined" => "role" \in did[r]
=============================================================================
