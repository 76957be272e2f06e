------------------------------ MODULE Accounts ------------------------------
(***************************************************************************)
(* How accounts come to be, who becomes the system administrator, and who  *)
(* can log in: registerUser of services/auth.service.ts, the account made  *)
(* by registerWithInvite of services/invite.service.ts, the strategies of  *)
(* config/passport.ts, and the two handlers that change an address:        *)
(* updateProfile of services/user.service.ts and updateEventUser of        *)
(* services/event.service.ts.                                              *)
(*                                                                         *)
(* An address is a mailbox with the case it was typed in.  The table has a *)
(* unique index on the exact spelling; all handlers but two lower the case *)
(* before they look or write.  A step is one awaited database call.        *)
(***************************************************************************)
EXTENDS AccessPolicy

CONSTANTS Requests,  \* HTTP requests, each runs once and makes at most one account
          Mailboxes, \* what is left of an address when case is ignored
          None       \* no value

Emails == [box : Mailboxes, lower : BOOLEAN]

ASSUME AccountAssumptions ==
    None \notin Emails \cup Requests

VARIABLES email,   \* the User rows, named by the request that made them: their address
          rows,    \* the UserRole rows of each user at the system scope
          pc,      \* what each request awaits, or how it ended
          arg,     \* kind and address of a request, and the account it edits
          counted, \* registrations that counted no users
          ungranted, \* history: those of them whose grant failed or was lost
          raw,     \* history: accounts whose address was last written as it was typed
          met      \* history: per account, the others that had counted no users by then

vars == <<email, rows, pc, arg, counted, ungranted, raw, met>>

Kinds   == {"register", "invite", "social", "profile", "edit"}
Call    == [kind : Kinds, email : Emails, account : Requests \cup {None}]
Running == {"findEmail", "count", "create", "grant", "audit", "update"}
Ended   == {"done", "refused", "failed", "lost"}

\* What registerUser grants to the first user.
FirstUserRow == [role |-> "system_admin", scope |-> "system", id |-> ""]

TypeOK ==
    /\ email \in [Requests -> Emails \cup {None}]
    /\ rows \in [Requests -> SUBSET {FirstUserRow}]
    /\ pc \in [Requests -> {"new"} \cup Running \cup Ended]
    /\ arg \in [Requests -> Call \cup {None}]
    /\ \A r \in Requests : pc[r] # "new" => arg[r] \in Call
    /\ counted \subseteq Requests /\ ungranted \subseteq Requests
    /\ raw \subseteq Requests
    /\ met \in [Requests -> SUBSET Requests]

Init ==
    /\ email = [r \in Requests |-> None]
    /\ rows = [r \in Requests |-> {}]
    /\ pc = [r \in Requests |-> "new"]
    /\ arg = [r \in Requests |-> None]
    /\ counted = {} /\ ungranted = {}
    /\ raw = {}
    /\ met = [r \in Requests |-> {}]

-----------------------------------------------------------------------------
Stored    == {r \in Requests : email[r] # None}
Lower(e)  == [e EXCEPT !.lower = TRUE]
Goto(r, next) == pc' = [pc EXCEPT ![r] = next]
IsKind(r, kinds) == arg[r].kind \in kinds

\* The account findUnique({ email }) answers with, if there is one.
Holders(e) == {a \in Stored : email[a] = e}

\* An invite has a creator, and only somebody who has an account edits one.
Calls ==
    {c \in Call : IF c.kind \in {"profile", "edit"} THEN c.account \in Stored
                  ELSE c.account = None /\ (c.kind = "invite" => Stored # {})}

\* Mutant of AsWritten: registerUser forgets to lower the case.
AsWrittenTyped(c) == IF c.kind \in {"register", "invite", "edit"} THEN c.email ELSE Lower(c.email)

\* The spelling a handler looks up and writes: registration by invite and the
\* event's user list take the address as it was typed.
AsWritten(c) == IF c.kind \in {"invite", "edit"} THEN c.email ELSE Lower(c.email)

\* The handler has validated its input; updateEventUser writes without looking.
Start(r, c) ==
    /\ pc[r] = "new"
    /\ arg' = [arg EXCEPT ![r] = c]
    /\ Goto(r, IF c.kind = "edit" THEN "update" ELSE "findEmail")
    /\ UNCHANGED <<email, rows, counted, ungranted, raw, met>>

\* A taken address is refused; a social login logs its holder in.
FindEmail(r) ==
    LET others == Holders(AsWritten(arg[r])) \ {arg[r].account} IN
    /\ pc[r] = "findEmail"
    /\ Goto(r, IF others # {} THEN IF IsKind(r, {"social"}) THEN "done" ELSE "refused"
               ELSE IF IsKind(r, {"profile"}) THEN "update"
               ELSE IF IsKind(r, {"register"}) THEN "count" ELSE "create")
    /\ UNCHANGED <<email, rows, arg, counted, ungranted, raw, met>>

\* Mutant of CountUsers: one user is taken for the first, too.
CountUsersOne(r) ==
    /\ pc[r] = "count"
    /\ counted' = IF \A a, b \in Stored : a = b THEN counted \cup {r} ELSE counted
    /\ Goto(r, "create")
    /\ UNCHANGED <<email, rows, arg, ungranted, raw, met>>

CountUsers(r) ==
    /\ pc[r] = "count"
    /\ counted' = IF Stored = {} THEN counted \cup {r} ELSE counted
    /\ Goto(r, "create")
    /\ UNCHANGED <<email, rows, arg, ungranted, raw, met>>

\* The unique index turns a second row with the same spelling away.
Taken(e, a) == Holders(e) \ {a} # {}

\* registerUser ends with an entry in the audit log.
AfterAccount(r) == IF IsKind(r, {"register"}) THEN "audit" ELSE "done"

\* Mutant of CreateAccount: the role is left to a later request.
CreateAccountOnly(r) ==
    LET e == AsWritten(arg[r]) IN
    /\ pc[r] = "create"
    /\ IF Taken(e, r)
       THEN Goto(r, "failed") /\ UNCHANGED <<email, raw, met>>
       ELSE /\ email' = [email EXCEPT ![r] = e]
            /\ raw' = IF IsKind(r, {"invite"}) THEN raw \cup {r} ELSE raw
            /\ met' = [met EXCEPT ![r] = {s \in counted : s # r /\ pc[s] = "create"}]
            /\ Goto(r, AfterAccount(r))
    /\ UNCHANGED <<rows, arg, counted, ungranted>>

CreateAccount(r) ==
    LET e == AsWritten(arg[r]) IN
    /\ pc[r] = "create"
    /\ IF Taken(e, r)
       THEN Goto(r, "failed") /\ UNCHANGED <<email, raw, met>>
       ELSE /\ email' = [email EXCEPT ![r] = e]
            /\ raw' = IF IsKind(r, {"invite"}) THEN raw \cup {r} ELSE raw
            /\ met' = [met EXCEPT ![r] = {s \in counted : s # r /\ pc[s] = "create"}]
            /\ Goto(r, IF r \in counted THEN "grant" ELSE AfterAccount(r))
    /\ UNCHANGED <<rows, arg, counted, ungranted>>

\* grantRole upserts the row, or returns false, which becomes madeSystemAdmin.
GrantAdmin(r) ==
    /\ pc[r] = "grant"
    /\ Goto(r, "audit")
    /\ \/ rows' = [rows EXCEPT ![r] = @ \cup {FirstUserRow}] /\ UNCHANGED ungranted
       \/ ungranted' = ungranted \cup {r} /\ UNCHANGED rows
    /\ UNCHANGED <<email, arg, counted, raw, met>>

LogRegistration(r) ==
    /\ pc[r] = "audit"
    /\ Goto(r, "done")
    /\ UNCHANGED <<email, rows, arg, counted, ungranted, raw, met>>

UpdateEmail(r) ==
    LET e == AsWritten(arg[r])  a == arg[r].account IN
    /\ pc[r] = "update"
    /\ IF Taken(e, a)
       THEN Goto(r, "failed") /\ UNCHANGED <<email, raw>>
       ELSE /\ email' = [email EXCEPT ![a] = e]
            /\ raw' = IF IsKind(r, {"edit"}) THEN raw \cup {a} ELSE raw \ {a}
            /\ Goto(r, "done")
    /\ UNCHANGED <<rows, arg, counted, ungranted, met>>

\* An awaited call rejects (grantRole catches its own).
Reject(r) ==
    /\ pc[r] \in Running \ {"grant"}
    /\ Goto(r, "failed")
    /\ UNCHANGED <<email, rows, arg, counted, ungranted, raw, met>>

\* The server process dies.
Crash ==
    /\ \E r \in Requests : pc[r] \in Running
    /\ pc' = [r \in Requests |-> IF pc[r] \in Running THEN "lost" ELSE pc[r]]
    /\ ungranted' = ungranted \cup {r \in Requests : pc[r] = "grant"}
    /\ UNCHANGED <<email, rows, arg, counted, raw, met>>

-----------------------------------------------------------------------------
RequestStep(r) ==
    \/ \E c \in Calls : Start(r, c)
    \/ FindEmail(r)
    \/ CountUsers(r)
    \/ CreateAccount(r)
    \/ GrantAdmin(r)
    \/ LogRegistration(r)
    \/ UpdateEmail(r)
    \/ Reject(r)

Next == (\E r \in Requests : RequestStep(r)) \/ Crash

Spec == Init /\ [][Next]_vars

-----------------------------------------------------------------------------
(* Properties.                                                             *)

\* The account passport's local strategy finds for somebody who types address e.
LoginAs(e) == Holders(Lower(e))

(* Two people hold the administrator's role from registration only if each  *)
(* had counted the users before the other had an account: registrations     *)
(* that do not overlap make one administrator.                              *)
RivalAdminsOverlapped ==
    \A r, s \in Requests : rows[r] # {} /\ rows[s] # {} =>
        r = s \/ s \in met[r] \/ r \in met[s]

(* Once there are accounts, an administrator has been appointed, unless the *)
(* first account came from a social login, or the one who counted no users  *)
(* has yet to be granted the role, or the grant failed or was lost.         *)
FirstAccountAdministers ==
    Stored # {} => \E r \in Stored :
        \/ rows[r] # {}
        \/ IsKind(r, {"social"})
        \/ pc[r] = "grant"
        \/ r \in ungranted

(* Whoever has an account logs in to it with the address it was made for,   *)
(* in any spelling, unless that address was last written by one of the two  *)
(* handlers that keep the case; and no two of the others share a mailbox.   *)
LoginReachesAccount ==
    \A a \in Stored \ raw : LoginAs(email[a]) = {a}

(* Claims of the documentation that the code does not keep.                 *)

(* "The first person to register becomes a System Admin": who has been told *)
(* so passes isSystemAdmin.                                                 *)
FirstUserIsSystemAdmin ==
    \A r \in Requests : pc[r] = "done" /\ rows[r] # {} => IsSystemAdmin(rows[r])

(* "Each email address can only be used for one account".                   *)
OneAccountPerAddress ==
    \A a, b \in Stored : email[a].box = email[b].box => a = b
=============================================================================
