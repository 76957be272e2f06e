------------------------ MODULE AccountSessionProofs --------------------------
(***************************************************************************)
(* Proofs about Accounts, for any requests and mailboxes, about            *)
(* ClientSession, for any users and lists of a tab, and about Favorites,   *)
(* for any tabs, users and pages.                                          *)
(*                                                                         *)
(* What the handlers promise about administrators and logins holds by      *)
(* three facts that no single handler establishes. Whoever counted no      *)
(* users counted before any account was there, accounts stay, and the      *)
(* unique index keeps addresses apart.                                     *)
(*                                                                         *)
(* What a tab shows belongs to its user because a change of the user asks  *)
(* for every list anew and gives up the answers it had asked for.          *)
(*                                                                         *)
(* What is stored as starred is the user's own because what any tab shows  *)
(* of that user is (OwnInv), and a tab that nobody overtook lacks of what  *)
(* is stored only what was unstarred in it (LackInv).                      *)
(***************************************************************************)
EXTENDS Accounts, ClientSession, Favorites, TLAPS

-----------------------------------------------------------------------------
(* Accounts.                                                               *)

Before == {"new", "findEmail", "count", "create"}

\* A request that has not yet made its account has none, and what it is entitled to next.
PathInv ==
    \A r \in Requests :
        /\ pc[r] \in Before => email[r] = None
        /\ r \in counted => /\ pc[r] \notin {"new", "findEmail", "count"}
                            /\ IsKind(r, {"register"})
        /\ pc[r] = "grant" => email[r] # None /\ r \in counted
        /\ rows[r] # {} => email[r] # None /\ r \in counted
        /\ pc[r] = "findEmail" => ~IsKind(r, {"edit"})
        /\ pc[r] = "count" => IsKind(r, {"register"})
        /\ pc[r] = "create" => IsKind(r, {"register", "invite", "social"})
        /\ pc[r] = "update" => arg[r].account \in Stored /\ IsKind(r, {"profile", "edit"})
        /\ pc[r] # "new" /\ IsKind(r, {"profile"}) => arg[r].account \in Stored

\* Who makes an account without having counted no users finds one there already.
LateInv ==
    \A r \in Requests :
        /\ pc[r] # "new" /\ IsKind(r, {"invite"}) => Stored # {}
        /\ pc[r] = "create" /\ IsKind(r, {"register"}) => r \in counted \/ Stored # {}

\* An account made after counting none met all who had counted none and had no account.
MetInv ==
    \A r, s \in counted : r # s /\ email[r] # None =>
        /\ pc[s] = "create" => s \in met[r]
        /\ email[s] # None => s \in met[r] \/ r \in met[s]

\* The unique index, and the spelling.
AddressInv ==
    /\ \A a, b \in Stored : email[a] = email[b] => a = b
    /\ \A a \in Stored \ raw : email[a].lower

IInv == TypeOK /\ PathInv /\ LateInv /\ MetInv /\ AddressInv /\ FirstAccountAdministers

-----------------------------------------------------------------------------
(* Types.                                                                  *)

LEMMA InitType == Init => TypeOK
  BY DEF Init, TypeOK

LEMMA CallFacts ==
    /\ \A c \in Call : c.kind \in Kinds /\ c.email \in Emails /\ c.account \in Requests \cup {None}
    /\ \A e \in Emails : Lower(e) \in Emails /\ Lower(e).lower /\ (e.lower => Lower(e) = e)
    /\ \A c \in Call : /\ AsWritten(c) \in Emails /\ AsWritten(c) # None
                       /\ c.kind \notin {"invite", "edit"} => AsWritten(c).lower
<1>1. \A e \in Emails : Lower(e) \in Emails /\ Lower(e).lower /\ (e.lower => Lower(e) = e)
  BY DEF Emails, Lower
<1>2. \A c \in Call : c.kind \in Kinds /\ c.email \in Emails /\ c.account \in Requests \cup {None}
  BY DEF Call
<1>3. \A c \in Call : AsWritten(c) = c.email \/ AsWritten(c) = Lower(c.email)
  BY DEF AsWritten
<1>4. \A c \in Call : c.kind \notin {"invite", "edit"} => AsWritten(c) = Lower(c.email)
  BY DEF AsWritten
<1> QED
  BY <1>1, <1>2, <1>3, <1>4, AccountAssumptions

LEMMA StepType == ASSUME TypeOK, PathInv, NEW r \in Requests, RequestStep(r) PROVE TypeOK'
<1> USE DEF Goto, Running, Ended
<1>1. ASSUME NEW c \in Calls, Start(r, c) PROVE TypeOK'
  <2>1. c \in Call
    BY DEF Calls
  <2>2. arg' \in [Requests -> Call \cup {None}]
        /\ \A s \in Requests : pc'[s] # "new" => arg'[s] \in Call
    BY <1>1, <2>1 DEF TypeOK, Start
  <2> QED
    BY <1>1, <2>2 DEF TypeOK, Start
<1>2. CASE FindEmail(r)
  <2>1. pc' \in [Requests -> {"new"} \cup Running \cup Ended]
    BY <1>2 DEF TypeOK, FindEmail
  <2>2. \A s \in Requests : pc'[s] # "new" => arg'[s] \in Call
    BY <1>2 DEF TypeOK, FindEmail
  <2> QED
    BY <1>2, <2>1, <2>2 DEF TypeOK, FindEmail
<1>3. CASE CountUsers(r)
  BY <1>3 DEF TypeOK, CountUsers
<1>4. CASE CreateAccount(r)
  <2>1. AsWritten(arg[r]) \in Emails
    BY <1>4, CallFacts DEF TypeOK, CreateAccount
  <2>2. email' \in [Requests -> Emails \cup {None}] /\ raw' \subseteq Requests
    BY <1>4, <2>1 DEF TypeOK, CreateAccount
  <2>3. met' \in [Requests -> SUBSET Requests]
    BY <1>4 DEF TypeOK, CreateAccount
  <2>4. pc' \in [Requests -> {"new"} \cup Running \cup Ended]
        /\ \A s \in Requests : pc'[s] # "new" => arg'[s] \in Call
    BY <1>4 DEF TypeOK, CreateAccount, AfterAccount
  <2> QED
    BY <1>4, <2>2, <2>3, <2>4 DEF TypeOK, CreateAccount
<1>5. CASE GrantAdmin(r)
  <2>1. rows' \in [Requests -> SUBSET {FirstUserRow}] /\ ungranted' \subseteq Requests
    BY <1>5 DEF TypeOK, GrantAdmin
  <2> QED
    BY <1>5, <2>1 DEF TypeOK, GrantAdmin
<1>6. CASE LogRegistration(r)
  BY <1>6 DEF TypeOK, LogRegistration
<1>7. CASE UpdateEmail(r)
  <2>1. AsWritten(arg[r]) \in Emails
    BY <1>7, CallFacts DEF TypeOK, UpdateEmail
  <2>2. arg[r].account \in Requests
    BY <1>7 DEF PathInv, UpdateEmail, Stored
  <2>3. email' \in [Requests -> Emails \cup {None}] /\ raw' \subseteq Requests
    BY <1>7, <2>1, <2>2 DEF TypeOK, UpdateEmail
  <2> QED
    BY <1>7, <2>3 DEF TypeOK, UpdateEmail
<1>8. CASE Reject(r)
  BY <1>8 DEF TypeOK, Reject
<1> QED
  BY <1>1, <1>2, <1>3, <1>4, <1>5, <1>6, <1>7, <1>8 DEF RequestStep

-----------------------------------------------------------------------------
(* The steps.                                                              *)

SafeInv == PathInv /\ LateInv /\ MetInv /\ AddressInv /\ FirstAccountAdministers

\* A step that only moves a request on, not into "create" or "grant" unprepared.
LEMMA QuietStep ==
    ASSUME TypeOK, SafeInv, NEW r \in Requests,
           UNCHANGED <<email, rows, arg, counted, ungranted, raw, met>>,
           pc[r] \notin {"new", "grant"}, pc'[r] \notin {"new", "findEmail", "grant"},
           \A s \in Requests \ {r} : pc'[s] = pc[s],
           pc'[r] \in Before => pc[r] \in Before \ {"create"} /\ r \notin counted,
           pc'[r] = "count" => IsKind(r, {"register"}),
           pc'[r] = "create" => IsKind(r, {"invite", "social"}),
           pc'[r] = "update" => IsKind(r, {"profile"})
    PROVE  SafeInv'
<1>1. PathInv'
  <2> SUFFICES ASSUME NEW s \in Requests
               PROVE  /\ pc'[s] \in Before => email[s] = None
                      /\ s \in counted => pc'[s] \notin {"new", "findEmail", "count"}
                      /\ pc'[s] = "grant" => email[s] # None /\ s \in counted
                      /\ pc'[s] = "findEmail" => ~IsKind(s, {"edit"})
                      /\ pc'[s] = "count" => IsKind(s, {"register"})
                      /\ pc'[s] = "create" => IsKind(s, {"register", "invite", "social"})
                      /\ pc'[s] = "update" => arg[s].account \in Stored /\ IsKind(s, {"profile", "edit"})
                      /\ pc'[s] # "new" /\ IsKind(s, {"profile"}) => arg[s].account \in Stored
    BY DEF SafeInv, PathInv, IsKind, Stored
  <2>1. CASE s # r
    BY <2>1 DEF SafeInv, PathInv
  <2>2. CASE s = r
    BY <2>2 DEF SafeInv, PathInv, IsKind, Before
  <2> QED
    BY <2>1, <2>2
<1>2. LateInv'
  BY DEF SafeInv, LateInv, IsKind, Stored
<1>3. MetInv'
  <2> SUFFICES ASSUME NEW a \in counted, NEW b \in counted, a # b, email[a] # None
               PROVE  /\ pc'[b] = "create" => b \in met[a]
                      /\ email[b] # None => b \in met[a] \/ a \in met[b]
    BY DEF MetInv
  <2>1. b \in Requests
    BY DEF TypeOK
  <2>2. pc'[b] = "create" => pc[b] = "create"
    BY <2>1 DEF Before
  <2> QED
    BY <2>2 DEF SafeInv, MetInv
<1>4. AddressInv'
  BY DEF SafeInv, AddressInv, Stored
<1>5. FirstAccountAdministers'
  BY DEF SafeInv, FirstAccountAdministers, IsKind, Stored
<1> QED
  BY <1>1, <1>2, <1>3, <1>4, <1>5 DEF SafeInv

LEMMA StartKeeps ==
    ASSUME TypeOK, SafeInv, NEW r \in Requests, NEW c \in Calls, Start(r, c)
    PROVE  SafeInv'
<1>1. /\ arg'[r] = c /\ pc[r] = "new"
      /\ pc'[r] = IF c.kind = "edit" THEN "update" ELSE "findEmail"
      /\ \A s \in Requests \ {r} : arg'[s] = arg[s] /\ pc'[s] = pc[s]
      /\ UNCHANGED <<email, rows, counted, ungranted, raw, met>>
  BY DEF TypeOK, Start, Goto
<1>2. /\ c.kind \in {"profile", "edit"} => c.account \in Stored
      /\ c.kind = "invite" => Stored # {}
  BY DEF Calls
<1>3. email[r] = None /\ r \notin counted
  BY <1>1 DEF SafeInv, PathInv, Before
<1>4. PathInv'
  <2> SUFFICES ASSUME NEW s \in Requests
               PROVE  /\ pc'[s] \in Before => email[s] = None
                      /\ s \in counted => /\ pc'[s] \notin {"new", "findEmail", "count"}
                                          /\ arg'[s].kind = "register"
                      /\ pc'[s] = "grant" => email[s] # None /\ s \in counted
                      /\ rows[s] # {} => email[s] # None /\ s \in counted
                      /\ pc'[s] = "findEmail" => arg'[s].kind # "edit"
                      /\ pc'[s] = "count" => arg'[s].kind = "register"
                      /\ pc'[s] = "create" => arg'[s].kind \in {"register", "invite", "social"}
                      /\ pc'[s] = "update" => arg'[s].account \in Stored
                                              /\ arg'[s].kind \in {"profile", "edit"}
                      /\ pc'[s] # "new" /\ arg'[s].kind = "profile" => arg'[s].account \in Stored
    BY <1>1 DEF PathInv, IsKind, Stored
  <2>1. CASE s # r
    BY <1>1, <2>1 DEF SafeInv, PathInv, IsKind
  <2>2. CASE s = r
    BY <1>1, <1>2, <1>3, <2>2 DEF SafeInv, PathInv, IsKind
  <2> QED
    BY <2>1, <2>2
<1>5. LateInv'
  BY <1>1, <1>2 DEF SafeInv, LateInv, IsKind, Stored
<1>6. MetInv'
  BY <1>1, <1>3 DEF TypeOK, SafeInv, MetInv
<1>7. AddressInv'
  BY <1>1 DEF SafeInv, AddressInv, Stored
<1>8. FirstAccountAdministers'
  BY <1>1, <1>3 DEF SafeInv, FirstAccountAdministers, IsKind, Stored
<1> QED
  BY <1>4, <1>5, <1>6, <1>7, <1>8 DEF SafeInv

\* A request that found somebody was too late; one that found nobody met nobody.
LEMMA CountKeeps ==
    ASSUME TypeOK, SafeInv, NEW r \in Requests, CountUsers(r)
    PROVE  SafeInv'
<1>1. /\ pc[r] = "count" /\ pc'[r] = "create"
      /\ counted' = IF Stored = {} THEN counted \cup {r} ELSE counted
      /\ \A s \in Requests \ {r} : pc'[s] = pc[s]
      /\ UNCHANGED <<email, rows, arg, ungranted, raw, met>>
  BY DEF TypeOK, CountUsers, Goto
<1>2. email[r] = None /\ r \notin counted /\ IsKind(r, {"register"})
  BY <1>1 DEF SafeInv, PathInv, Before
<1>3. PathInv'
  <2> SUFFICES ASSUME NEW s \in Requests
               PROVE  /\ pc'[s] \in Before => email[s] = None
                      /\ s \in counted' => /\ pc'[s] \notin {"new", "findEmail", "count"}
                                           /\ IsKind(s, {"register"})
                      /\ pc'[s] = "grant" => email[s] # None /\ s \in counted'
                      /\ rows[s] # {} => email[s] # None /\ s \in counted'
                      /\ pc'[s] = "findEmail" => ~IsKind(s, {"edit"})
                      /\ pc'[s] = "count" => IsKind(s, {"register"})
                      /\ pc'[s] = "create" => IsKind(s, {"register", "invite", "social"})
                      /\ pc'[s] = "update" => arg[s].account \in Stored /\ IsKind(s, {"profile", "edit"})
                      /\ pc'[s] # "new" /\ IsKind(s, {"profile"}) => arg[s].account \in Stored
    BY <1>1 DEF PathInv, IsKind, Stored
  <2>1. CASE s # r
    BY <1>1, <2>1 DEF SafeInv, PathInv
  <2>2. CASE s = r
    BY <1>1, <1>2, <2>2 DEF SafeInv, PathInv, IsKind
  <2> QED
    BY <2>1, <2>2
<1>4. LateInv'
  BY <1>1, <1>2 DEF SafeInv, LateInv, IsKind, Stored
<1>5. MetInv'
  <2>1. CASE Stored = {}
    BY <1>1, <2>1 DEF TypeOK, MetInv, Stored
  <2>2. CASE Stored # {}
    BY <1>1, <1>2, <2>2 DEF TypeOK, SafeInv, MetInv
  <2> QED
    BY <2>1, <2>2
<1>6. AddressInv'
  BY <1>1 DEF SafeInv, AddressInv, Stored
<1>7. FirstAccountAdministers'
  BY <1>1, <1>2 DEF SafeInv, FirstAccountAdministers, IsKind, Stored
<1> QED
  BY <1>3, <1>4, <1>5, <1>6, <1>7 DEF SafeInv

LEMMA GrantKeeps ==
    ASSUME TypeOK, SafeInv, NEW r \in Requests, GrantAdmin(r)
    PROVE  SafeInv'
<1>1. /\ pc[r] = "grant" /\ pc'[r] = "audit"
      /\ rows'[r] # {} \/ r \in ungranted'
      /\ ungranted \subseteq ungranted'
      /\ \A s \in Requests \ {r} : pc'[s] = pc[s] /\ rows'[s] = rows[s]
      /\ UNCHANGED <<email, arg, counted, raw, met>>
  BY DEF TypeOK, GrantAdmin, Goto
<1>2. email[r] # None /\ r \in counted
  BY <1>1 DEF SafeInv, PathInv
<1>3. PathInv'
  BY <1>1, <1>2 DEF SafeInv, PathInv, IsKind, Stored, Before
<1>4. LateInv'
  BY <1>1 DEF SafeInv, LateInv, IsKind, Stored
<1>5. MetInv' /\ AddressInv'
  BY <1>1 DEF TypeOK, SafeInv, MetInv, AddressInv, Stored
<1>6. FirstAccountAdministers'
  BY <1>1 DEF SafeInv, FirstAccountAdministers, IsKind, Stored
<1> QED
  BY <1>3, <1>4, <1>5, <1>6 DEF SafeInv

\* What making an account changes: met takes the place of those who may still follow.
LEMMA CreateKeeps ==
    ASSUME TypeOK, SafeInv, NEW r \in Requests, CreateAccount(r), ~Taken(AsWritten(arg[r]), r)
    PROVE  SafeInv'
<1> DEFINE e == AsWritten(arg[r])
<1>1. arg[r] \in Call /\ pc[r] = "create"
  BY DEF TypeOK, CreateAccount
<1>2. e # None /\ (arg[r].kind \notin {"invite", "edit"} => e.lower)
  BY <1>1, CallFacts
<1>3. \A a \in Stored \ {r} : email[a] # e
  BY DEF Taken, Holders
<1>4. email' = [email EXCEPT ![r] = e]
  BY DEF CreateAccount
<1> HIDE DEF e
<1>5. email'[r] = e /\ \A s \in Requests \ {r} : email'[s] = email[s]
  BY <1>4 DEF TypeOK
<1>6. /\ pc'[r] = IF r \in counted THEN "grant" ELSE AfterAccount(r)
      /\ \A s \in Requests \ {r} : pc'[s] = pc[s] /\ met'[s] = met[s]
      /\ met'[r] = {s \in counted : s # r /\ pc[s] = "create"}
      /\ raw' = IF arg[r].kind = "invite" THEN raw \cup {r} ELSE raw
      /\ UNCHANGED <<rows, arg, counted, ungranted>>
  BY DEF TypeOK, CreateAccount, Goto, IsKind
<1>7. email[r] = None /\ rows[r] = {} /\ IsKind(r, {"register", "invite", "social"})
  BY <1>1 DEF SafeInv, PathInv, Before
<1>8. pc'[r] \in {"grant", "audit", "done"} /\ (pc'[r] = "grant" => r \in counted)
  BY <1>6 DEF AfterAccount
<1>9. Stored' = Stored \cup {r} /\ r \notin Stored
  BY <1>2, <1>5, <1>7 DEF Stored
<1>10. PathInv'
  <2> SUFFICES ASSUME NEW s \in Requests
               PROVE  /\ pc'[s] \in Before => email'[s] = None
                      /\ s \in counted => /\ pc'[s] \notin {"new", "findEmail", "count"}
                                          /\ IsKind(s, {"register"})
                      /\ pc'[s] = "grant" => email'[s] # None /\ s \in counted
                      /\ rows[s] # {} => email'[s] # None /\ s \in counted
                      /\ pc'[s] = "findEmail" => ~IsKind(s, {"edit"})
                      /\ pc'[s] = "count" => IsKind(s, {"register"})
                      /\ pc'[s] = "create" => IsKind(s, {"register", "invite", "social"})
                      /\ pc'[s] = "update" => arg[s].account \in Stored' /\ IsKind(s, {"profile", "edit"})
                      /\ pc'[s] # "new" /\ IsKind(s, {"profile"}) => arg[s].account \in Stored'
    BY <1>6 DEF PathInv, IsKind
  <2>1. CASE s # r
    BY <1>5, <1>6, <1>9, <2>1 DEF SafeInv, PathInv
  <2>2. CASE s = r
    BY <1>1, <1>2, <1>5, <1>7, <1>8, <1>9, <2>2 DEF SafeInv, PathInv, IsKind, Before
  <2> QED
    BY <2>1, <2>2
<1>11. LateInv'
  BY <1>9 DEF LateInv
<1>12. MetInv'
  <2> SUFFICES ASSUME NEW a \in counted, NEW b \in counted, a # b, email'[a] # None
               PROVE  /\ pc'[b] = "create" => b \in met'[a]
                      /\ email'[b] # None => b \in met'[a] \/ a \in met'[b]
    BY <1>6 DEF MetInv
  <2>1. a \in Requests /\ b \in Requests
    BY DEF TypeOK
  <2>2. CASE a = r
    <3>1. pc'[b] = "create" => b \in met'[a]
      BY <1>6, <2>1, <2>2
    <3>2. email'[b] # None => email[b] # None
      BY <1>5, <2>1, <2>2
    <3>3. email[b] # None => a \in met[b] /\ met'[b] = met[b]
      BY <1>1, <1>6, <2>1, <2>2 DEF SafeInv, MetInv
    <3> QED
      BY <3>1, <3>2, <3>3
  <2>3. CASE b = r
    <3>1. email[a] # None
      BY <1>5, <2>1, <2>3
    <3>2. b \in met[a] /\ met'[a] = met[a]
      BY <1>1, <1>6, <2>1, <2>3, <3>1 DEF SafeInv, MetInv
    <3> QED
      BY <3>2
  <2>4. CASE a # r /\ b # r
    BY <1>5, <1>6, <2>1, <2>4 DEF SafeInv, MetInv
  <2> QED
    BY <2>2, <2>3, <2>4
<1>13. AddressInv'
  <2>1. ASSUME NEW a \in Stored', NEW b \in Stored', email'[a] = email'[b] PROVE a = b
    <3>1. a \in Requests /\ b \in Requests
      BY DEF Stored
    <3> QED
      BY <1>3, <1>5, <1>9, <2>1, <3>1 DEF SafeInv, AddressInv
  <2>2. ASSUME NEW a \in Stored', a \notin raw' PROVE email'[a].lower
    <3>1. CASE a # r
      <4>1. a \in Stored \ raw /\ a \in Requests
        BY <1>6, <1>9, <2>2, <3>1 DEF Stored
      <4> QED
        BY <1>5, <3>1, <4>1 DEF SafeInv, AddressInv
    <3>2. CASE a = r
      BY <1>2, <1>5, <1>6, <1>7, <2>2, <3>2 DEF IsKind
    <3> QED
      BY <3>1, <3>2
  <2> QED
    BY <2>1, <2>2 DEF AddressInv
<1>14. FirstAccountAdministers'
  <2>1. CASE Stored = {}
    <3>1. r \in counted \/ IsKind(r, {"social"})
      BY <1>1, <1>7, <2>1 DEF SafeInv, LateInv, IsKind
    <3>2. pc'[r] = "grant" \/ IsKind(r, {"social"})'
      BY <1>6, <3>1 DEF IsKind
    <3> QED
      BY <1>9, <3>2 DEF FirstAccountAdministers
  <2>2. CASE Stored # {}
    <3>1. PICK s \in Stored : \/ rows[s] # {} \/ IsKind(s, {"social"})
                              \/ pc[s] = "grant" \/ s \in ungranted
      BY <2>2 DEF SafeInv, FirstAccountAdministers
    <3>2. s \in Requests \ {r} /\ s \in Stored'
      BY <1>9 DEF Stored
    <3> QED
      BY <1>6, <3>1, <3>2 DEF FirstAccountAdministers, IsKind
  <2> QED
    BY <2>1, <2>2
<1> QED
  BY <1>10, <1>11, <1>12, <1>13, <1>14 DEF SafeInv

LEMMA UpdateKeeps ==
    ASSUME TypeOK, SafeInv, NEW r \in Requests, UpdateEmail(r),
           ~Taken(AsWritten(arg[r]), arg[r].account)
    PROVE  SafeInv'
<1> DEFINE e == AsWritten(arg[r])
           a == arg[r].account
<1>1. arg[r] \in Call /\ pc[r] = "update"
  BY DEF TypeOK, UpdateEmail
<1>2. e # None /\ (arg[r].kind \notin {"invite", "edit"} => e.lower)
  BY <1>1, CallFacts
<1>3. \A b \in Stored \ {a} : email[b] # e
  BY DEF Taken, Holders
<1>4. a \in Stored /\ a \in Requests /\ IsKind(r, {"profile", "edit"})
  BY <1>1 DEF SafeInv, PathInv, Stored
<1>5. /\ email' = [email EXCEPT ![a] = e]
      /\ raw' = IF arg[r].kind = "edit" THEN raw \cup {a} ELSE raw \ {a}
  BY DEF UpdateEmail, IsKind
<1> HIDE DEF e, a
<1>6. email'[a] = e /\ \A b \in Requests \ {a} : email'[b] = email[b]
  BY <1>4, <1>5 DEF TypeOK
<1>7. /\ pc'[r] = "done" /\ \A s \in Requests \ {r} : pc'[s] = pc[s]
      /\ UNCHANGED <<rows, arg, counted, ungranted, met>>
  BY DEF TypeOK, UpdateEmail, Goto
<1>8. Stored' = Stored /\ \A b \in Requests : email'[b] = None <=> email[b] = None
  BY <1>2, <1>4, <1>6 DEF Stored
<1>9. PathInv'
  BY <1>1, <1>7, <1>8 DEF SafeInv, PathInv, IsKind, Before
<1>10. LateInv'
  BY <1>1, <1>7, <1>8 DEF SafeInv, LateInv, IsKind
<1>11. MetInv'
  BY <1>7, <1>8 DEF TypeOK, SafeInv, MetInv
<1>12. AddressInv'
  <2>1. ASSUME NEW b \in Stored, NEW c \in Stored, email'[b] = email'[c] PROVE b = c
    <3>1. b \in Requests /\ c \in Requests
      BY DEF Stored
    <3> QED
      BY <1>3, <1>6, <2>1, <3>1 DEF SafeInv, AddressInv
  <2>2. ASSUME NEW b \in Stored, b \notin raw' PROVE email'[b].lower
    <3>1. b \in Requests
      BY DEF Stored
    <3>2. CASE b = a
      BY <1>2, <1>4, <1>5, <1>6, <2>2, <3>2 DEF IsKind
    <3>3. CASE b # a
      BY <1>5, <1>6, <2>2, <3>1, <3>3 DEF SafeInv, AddressInv
    <3> QED
      BY <3>2, <3>3
  <2> QED
    BY <1>8, <2>1, <2>2 DEF AddressInv
<1>13. FirstAccountAdministers'
  BY <1>1, <1>7, <1>8 DEF SafeInv, FirstAccountAdministers, IsKind, Stored
<1> QED
  BY <1>9, <1>10, <1>11, <1>12, <1>13 DEF SafeInv

LEMMA StepKeeps ==
    ASSUME TypeOK, SafeInv, NEW r \in Requests, RequestStep(r)
    PROVE  SafeInv'
<1>1. ASSUME NEW c \in Calls, Start(r, c) PROVE SafeInv'
  BY <1>1, StartKeeps
<1>2. CASE FindEmail(r)
  <2>1. /\ pc[r] = "findEmail"
        /\ pc'[r] = IF Holders(AsWritten(arg[r])) \ {arg[r].account} # {}
                    THEN IF IsKind(r, {"social"}) THEN "done" ELSE "refused"
                    ELSE IF IsKind(r, {"profile"}) THEN "update"
                    ELSE IF IsKind(r, {"register"}) THEN "count" ELSE "create"
        /\ \A s \in Requests \ {r} : pc'[s] = pc[s]
        /\ UNCHANGED <<email, rows, arg, counted, ungranted, raw, met>>
    BY <1>2 DEF TypeOK, FindEmail, Goto
  <2>2. r \notin counted /\ ~IsKind(r, {"edit"}) /\ arg[r].kind \in Kinds
    BY <2>1, CallFacts DEF TypeOK, SafeInv, PathInv
  <2>3. pc'[r] = "create" => IsKind(r, {"invite", "social"})
    BY <2>1, <2>2 DEF IsKind, Kinds
  <2>4. /\ pc'[r] \in {"done", "refused", "update", "count", "create"}
        /\ pc'[r] = "update" => IsKind(r, {"profile"})
        /\ pc'[r] = "count" => IsKind(r, {"register"})
    BY <2>1
  <2> QED
    BY <2>1, <2>2, <2>3, <2>4, QuietStep DEF Before
<1>3. CASE CountUsers(r)
  BY <1>3, CountKeeps
<1>4. CASE CreateAccount(r)
  <2>1. CASE Taken(AsWritten(arg[r]), r)
    <3>1. /\ pc[r] = "create" /\ pc'[r] = "failed"
          /\ \A s \in Requests \ {r} : pc'[s] = pc[s]
          /\ UNCHANGED <<email, rows, arg, counted, ungranted, raw, met>>
      BY <1>4, <2>1 DEF TypeOK, CreateAccount, Goto
    <3> QED
      BY <3>1, QuietStep DEF Before
  <2> QED
    BY <1>4, <2>1, CreateKeeps
<1>5. CASE GrantAdmin(r)
  BY <1>5, GrantKeeps
<1>6. CASE LogRegistration(r)
  <2>1. /\ pc[r] = "audit" /\ pc'[r] = "done"
        /\ \A s \in Requests \ {r} : pc'[s] = pc[s]
        /\ UNCHANGED <<email, rows, arg, counted, ungranted, raw, met>>
    BY <1>6 DEF TypeOK, LogRegistration, Goto
  <2> QED
    BY <2>1, QuietStep DEF Before
<1>7. CASE UpdateEmail(r)
  <2>1. CASE Taken(AsWritten(arg[r]), arg[r].account)
    <3>1. /\ pc[r] = "update" /\ pc'[r] = "failed"
          /\ \A s \in Requests \ {r} : pc'[s] = pc[s]
          /\ UNCHANGED <<email, rows, arg, counted, ungranted, raw, met>>
      BY <1>7, <2>1 DEF TypeOK, UpdateEmail, Goto
    <3> QED
      BY <3>1, QuietStep DEF Before
  <2> QED
    BY <1>7, <2>1, UpdateKeeps
<1>8. CASE Reject(r)
  <2>1. /\ pc[r] \notin {"new", "grant"} /\ pc'[r] = "failed"
        /\ \A s \in Requests \ {r} : pc'[s] = pc[s]
        /\ UNCHANGED <<email, rows, arg, counted, ungranted, raw, met>>
    BY <1>8 DEF TypeOK, Reject, Goto, Running
  <2> QED
    BY <2>1, QuietStep DEF Before
<1> QED
  BY <1>1, <1>2, <1>3, <1>4, <1>5, <1>6, <1>7, <1>8 DEF RequestStep

LEMMA CrashKeeps == ASSUME TypeOK, SafeInv, Crash PROVE TypeOK' /\ SafeInv'
<1>1. /\ \A r \in Requests : \/ pc'[r] = "lost" /\ pc[r] \in Running
                             \/ pc'[r] = pc[r] /\ pc[r] \notin Running
      /\ ungranted' = ungranted \cup {r \in Requests : pc[r] = "grant"}
      /\ UNCHANGED <<email, rows, arg, counted, raw, met>>
  BY DEF TypeOK, Crash
<1>2. TypeOK'
  BY DEF TypeOK, Crash, Running, Ended
<1>3. PathInv'
  BY <1>1 DEF SafeInv, PathInv, IsKind, Stored, Before, Running
<1>4. LateInv'
  BY <1>1 DEF SafeInv, LateInv, IsKind, Stored, Running
<1>5. MetInv' /\ AddressInv'
  BY <1>1 DEF TypeOK, SafeInv, MetInv, AddressInv, Stored, Running
<1>6. FirstAccountAdministers'
  BY <1>1 DEF SafeInv, FirstAccountAdministers, IsKind, Stored
<1> QED
  BY <1>2, <1>3, <1>4, <1>5, <1>6 DEF SafeInv

-----------------------------------------------------------------------------
(* The theorems.                                                           *)

LEMMA InitInv == Init => IInv
<1> SUFFICES ASSUME Init PROVE IInv
  OBVIOUS
<1>1. /\ \A r \in Requests : email[r] = None /\ rows[r] = {} /\ pc[r] = "new"
      /\ counted = {}
  BY DEF Init
<1>2. Stored = {}
  BY <1>1 DEF Stored
<1> QED
  BY <1>1, <1>2, InitType DEF IInv, PathInv, LateInv, MetInv, AddressInv, FirstAccountAdministers

LEMMA NextInv == IInv /\ [Next]_vars => IInv'
<1> SUFFICES ASSUME IInv, [Next]_vars PROVE TypeOK' /\ SafeInv'
  BY DEF IInv, SafeInv
<1>1. TypeOK /\ SafeInv
  BY DEF IInv, SafeInv
<1>2. ASSUME NEW r \in Requests, RequestStep(r) PROVE TypeOK' /\ SafeInv'
  BY <1>1, <1>2, StepType, StepKeeps DEF SafeInv
<1>3. CASE Crash
  BY <1>1, <1>3, CrashKeeps
<1>4. CASE UNCHANGED vars
  <2>1. UNCHANGED <<email, rows, pc, arg, counted, ungranted, raw, met>>
    BY <1>4 DEF vars
  <2>2. TypeOK'
    BY <1>1, <2>1 DEF TypeOK
  <2>3. PathInv' /\ LateInv'
    BY <1>1, <2>1 DEF SafeInv, PathInv, LateInv, IsKind, Stored
  <2>4. MetInv' /\ AddressInv'
    BY <1>1, <2>1 DEF SafeInv, MetInv, AddressInv, Stored
  <2>5. FirstAccountAdministers'
    BY <1>1, <2>1 DEF SafeInv, FirstAccountAdministers, IsKind, Stored
  <2> QED
    BY <2>2, <2>3, <2>4, <2>5 DEF SafeInv
<1> QED
  BY <1>2, <1>3, <1>4 DEF Next

LEMMA Invariant == Spec => []IInv
  BY InitInv, NextInv, PTL DEF Spec

(* Every state of the handlers has its type. *)
THEOREM TypeCorrect == Spec => []TypeOK
<1>1. IInv => TypeOK
  BY DEF IInv
<1> QED
  BY <1>1, Invariant, PTL

(* Two administrators come from registration only when each counted the users *)
(* before the other had an account.                                           *)
THEOREM RivalsOverlapped == Spec => []RivalAdminsOverlapped
<1>1. IInv => RivalAdminsOverlapped
  BY DEF IInv, PathInv, MetInv, RivalAdminsOverlapped
<1> QED
  BY <1>1, Invariant, PTL

(* A system with accounts has an administrator, unless its first account was *)
(* social or a grant is under way, failed or was lost.                       *)
THEOREM AdministratorAppointed == Spec => []FirstAccountAdministers
<1>1. IInv => FirstAccountAdministers
  BY DEF IInv
<1> QED
  BY <1>1, Invariant, PTL

(* An account is reached from its address in any spelling, unless one of the *)
(* two handlers that keep the case wrote it.                                 *)
THEOREM LoginFindsAccount == Spec => []LoginReachesAccount
<1>1. IInv => LoginReachesAccount
  <2> SUFFICES ASSUME IInv, NEW a \in Stored \ raw PROVE LoginAs(email[a]) = {a}
    BY DEF LoginReachesAccount
  <2>1. email[a] \in Emails /\ email[a].lower
    BY DEF IInv, TypeOK, AddressInv, Stored
  <2>2. Lower(email[a]) = email[a]
    BY <2>1, CallFacts
  <2>3. Holders(email[a]) = {a}
    BY DEF IInv, AddressInv, Holders
  <2> QED
    BY <2>2, <2>3 DEF LoginAs
<1> QED
  BY <1>1, Invariant, PTL

-----------------------------------------------------------------------------
(* The session of a tab.                                                   *)

SessionInv == SessionTypeOK /\ ListsOfUser

-----------------------------------------------------------------------------
(* Types.                                                                  *)

LEMMA SessionInitType == SessionInit => SessionTypeOK
<1> SUFFICES ASSUME SessionInit PROVE SessionTypeOK
  OBVIOUS
<1>1. calls \subseteq TabCall
  BY DEF SessionInit, Ask, TabCall, Nobody
<1> QED
  BY <1>1 DEF SessionInit, SessionTypeOK, Nobody

\* What setUser does with the state that depends on the user.
LEMMA SetUserType ==
    ASSUME SessionTypeOK, NEW u \in Nobody, NEW others \in SUBSET TabCall,
           NEW where \in {"login", "dashboard"}, SetUser(u, others, where),
           cookie' \in Nobody, apart' \in BOOLEAN
    PROVE  SessionTypeOK'
<1>1. \A k \in Lists : Ask(k) \in TabCall
  BY DEF SessionTypeOK, Ask, TabCall, Nobody
<1>2. calls' \subseteq TabCall /\ lists' \in [Lists -> Nobody] /\ astray' \subseteq Lists
  BY <1>1 DEF SetUser, FillLists, SessionTypeOK, Nobody
<1>3. recheck' \in BOOLEAN /\ loggingOut' \in BOOLEAN
  BY DEF SetUser, Await
<1> QED
  BY <1>2, <1>3 DEF SetUser, SessionTypeOK

LEMMA SessionNextType == SessionTypeOK /\ [SessionNext]_tabVars => SessionTypeOK'
<1> SUFFICES ASSUME SessionTypeOK, [SessionNext]_tabVars PROVE SessionTypeOK'
  OBVIOUS
<1>0. \A c \in calls : calls \ {c} \in SUBSET TabCall /\ c.seen \in Nobody
  BY DEF SessionTypeOK, TabCall, Nobody
<1>a. NoUser \in Nobody
  BY DEF Nobody
<1>1. CASE Restored
  <2>1. PICK c \in calls : /\ c.kind = "restore" /\ cookie' = cookie
                           /\ \/ SetUser(c.seen, calls \ {c}, path) /\ Told(c.seen)
                              \/ SetUser(NoUser, calls \ {c}, path) /\ apart' = FALSE
    BY <1>1 DEF Restored
  <2>2. CASE SetUser(c.seen, calls \ {c}, path) /\ Told(c.seen)
    <3>1. apart' \in BOOLEAN /\ cookie' \in Nobody
      BY <2>1, <2>2 DEF Told, SessionTypeOK
    <3> QED
      BY <1>0, <2>1, <2>2, <3>1, SetUserType DEF SessionTypeOK
  <2>3. CASE SetUser(NoUser, calls \ {c}, path) /\ apart' = FALSE
    <3>1. apart' \in BOOLEAN /\ cookie' \in Nobody
      BY <2>1, <2>3 DEF SessionTypeOK
    <3>2. calls \ {c} \in SUBSET TabCall /\ path \in {"login", "dashboard"}
      BY <1>0, <2>1 DEF SessionTypeOK
    <3> QED
      BY <1>a, <2>3, <3>1, <3>2, SetUserType
  <2> QED
    BY <2>1, <2>2, <2>3
<1>2. CASE Rechecked
  <2>1. PICK c \in calls :
           /\ c.kind = "recheck" /\ cookie' = cookie
           /\ \/ c.seen # NoUser /\ SetUser(c.seen, calls \ {c}, path) /\ Told(c.seen)
              \/ /\ calls' = calls \ {c}
                 /\ UNCHANGED <<user, loggingOut, path, lists, recheck, astray, apart>>
    BY <1>2 DEF Rechecked
  <2>2. CASE SetUser(c.seen, calls \ {c}, path) /\ Told(c.seen)
    <3>1. apart' \in BOOLEAN /\ cookie' \in Nobody
      BY <2>1, <2>2 DEF Told, SessionTypeOK
    <3> QED
      BY <1>0, <2>1, <2>2, <3>1, SetUserType DEF SessionTypeOK
  <2>3. CASE /\ calls' = calls \ {c}
             /\ UNCHANGED <<user, loggingOut, path, lists, recheck, astray, apart>>
    BY <1>0, <2>1, <2>3 DEF SessionTypeOK
  <2> QED
    BY <2>1, <2>2, <2>3
<1>3. CASE LoggedIn
  <2>1. PICK c \in calls :
           /\ c.kind = "session" /\ cookie' = cookie
           /\ \/ SetUser(c.seen, calls \ {c}, "dashboard") /\ Told(c.seen)
              \/ /\ calls' = calls \ {c} /\ path' = "dashboard" /\ Await(user, "dashboard")
                 /\ UNCHANGED <<user, loggingOut, lists, astray, apart>>
              \/ /\ calls' = calls \ {c}
                 /\ UNCHANGED <<user, loggingOut, path, lists, recheck, astray, apart>>
    BY <1>3 DEF LoggedIn
  <2>2. CASE SetUser(c.seen, calls \ {c}, "dashboard") /\ Told(c.seen)
    <3>1. apart' \in BOOLEAN /\ cookie' \in Nobody
      BY <2>1, <2>2 DEF Told, SessionTypeOK
    <3> QED
      BY <1>0, <2>1, <2>2, <3>1, SetUserType DEF SessionTypeOK
  <2>3. CASE /\ calls' = calls \ {c} /\ path' = "dashboard" /\ Await(user, "dashboard")
             /\ UNCHANGED <<user, loggingOut, lists, astray, apart>>
    BY <1>0, <2>1, <2>3 DEF SessionTypeOK, Await
  <2>4. CASE /\ calls' = calls \ {c}
             /\ UNCHANGED <<user, loggingOut, path, lists, recheck, astray, apart>>
    BY <1>0, <2>1, <2>4 DEF SessionTypeOK
  <2> QED
    BY <2>1, <2>2, <2>3, <2>4
<1>4. CASE LoggedOut
  <2>1. PICK c \in calls : SetUser(NoUser, calls \ {c}, "login") /\ cookie' = cookie /\ apart' = FALSE
    BY <1>4 DEF LoggedOut
  <2> QED
    BY <1>0, <1>a, <2>1, SetUserType DEF SessionTypeOK
<1>5. CASE LookAgain \/ LoginAnswered \/ Logout \/ \E u \in Users : Login(u)
  <2>1. calls' \subseteq TabCall
    BY <1>5 DEF LookAgain, LoginAnswered, Logout, Login, SessionTypeOK, Ask, TabCall, Nobody
  <2> QED
    BY <1>5, <2>1 DEF LookAgain, LoginAnswered, Logout, Login, SessionTypeOK, sessionVars, Nobody
<1>6. CASE Filled
  <2>1. PICK c \in calls :
           /\ c.kind \in Lists /\ calls' = calls \ {c}
           /\ \/ /\ lists' = [lists EXCEPT ![c.kind] = c.seen]
                 /\ astray' = IF c.seen = user THEN astray \ {c.kind} ELSE astray \cup {c.kind}
              \/ UNCHANGED <<lists, astray>>
              \/ lists' = [lists EXCEPT ![c.kind] = NoUser] /\ astray' = astray \ {c.kind}
    BY <1>6 DEF Filled
  <2>2. lists' \in [Lists -> Nobody] /\ astray' \subseteq Lists
    BY <1>0, <1>a, <2>1 DEF SessionTypeOK
  <2>3. calls' \subseteq TabCall
    BY <2>1 DEF SessionTypeOK
  <2> QED
    BY <1>6, <2>2, <2>3 DEF Filled, SessionTypeOK, sessionVars
<1>7. CASE (\E u \in Nobody : OtherTab(u)) \/ \E where \in {"login", "dashboard"} : Visit(where)
  BY <1>7 DEF OtherTab, Visit, Await, SessionTypeOK
<1>8. CASE UNCHANGED tabVars
  BY <1>8 DEF tabVars, sessionVars, SessionTypeOK
<1> QED
  BY <1>1, <1>2, <1>3, <1>4, <1>5, <1>6, <1>7, <1>8 DEF SessionNext

-----------------------------------------------------------------------------
(* Whom a tab shows, and whose lists.                                      *)

\* Only setUser and logins give the tab a user, and a session that a logout ends
\* leaves its call; all others leave them or mark the change.
LEMMA NextShown == ShownHasSession /\ [SessionNext]_tabVars => ShownHasSession'
<1> SUFFICES ASSUME ShownHasSession, [SessionNext]_tabVars PROVE ShownHasSession'
  OBVIOUS
<1>1. ASSUME NEW u, NEW others, NEW where, SetUser(u, others, where),
             \/ u = NoUser
             \/ apart' = (u # cookie) /\ cookie' = cookie
      PROVE  ShownHasSession'
  BY <1>1 DEF SetUser, ShownHasSession
<1>2. ASSUME user' = user, cookie' = cookie, apart' = apart,
             \A c \in calls : c.kind = "logout" => c \in calls'
      PROVE  ShownHasSession'
  BY <1>2 DEF ShownHasSession
<1>3. CASE Restored \/ Rechecked \/ LoggedIn
  <2>1. PICK c \in calls :
           /\ c.kind # "logout" /\ cookie' = cookie
           /\ \/ \E where : SetUser(c.seen, calls \ {c}, where) /\ Told(c.seen)
              \/ \E where : SetUser(NoUser, calls \ {c}, where)
              \/ calls' = calls \ {c} /\ user' = user /\ apart' = apart
    BY <1>3, Zenon DEF Restored, Rechecked, LoggedIn
  <2>2. CASE \E where : SetUser(c.seen, calls \ {c}, where) /\ Told(c.seen)
    BY <1>1, <2>1, <2>2 DEF Told
  <2>3. CASE \E where : SetUser(NoUser, calls \ {c}, where)
    BY <1>1, <2>3
  <2>4. CASE calls' = calls \ {c} /\ user' = user /\ apart' = apart
    BY <1>2, <2>1, <2>4
  <2> QED
    BY <2>1, <2>2, <2>3, <2>4
<1>4. CASE LoggedOut
  BY <1>1, <1>4 DEF LoggedOut
<1>5. CASE Logout
  <2>1. /\ Ask("logout") \in calls' /\ user' = user /\ apart' = apart
        /\ \A c \in calls : c \in calls'
        /\ cookie' \in {NoUser, cookie}
    BY <1>5 DEF Logout
  <2>2. Ask("logout").kind = "logout" /\ Ask("logout").seen = cookie
    BY DEF Ask
  <2> QED
    BY <2>1, <2>2 DEF ShownHasSession
<1>6. CASE (\E u \in Users : Login(u)) \/ \E u \in Nobody : OtherTab(u)
  BY <1>6 DEF Login, OtherTab, ShownHasSession
<1>7. CASE LoginAnswered \/ LookAgain \/ \E where \in {"login", "dashboard"} : Visit(where)
  BY <1>2, <1>7 DEF LoginAnswered, LookAgain, Visit, sessionVars
<1>8. CASE Filled
  BY <1>2, <1>8, SessionAssumptions DEF Filled, sessionVars
<1>9. CASE UNCHANGED tabVars
  BY <1>2, <1>9 DEF tabVars, sessionVars
<1> QED
  BY <1>3, <1>4, <1>5, <1>6, <1>7, <1>8, <1>9 DEF SessionNext

\* A list stays that of its user, goes, or is marked, when the user is set.
LEMMA SetUserLists ==
    ASSUME SessionTypeOK, ListsOfUser, NEW u \in Nobody, NEW others, NEW where,
           SetUser(u, others, where)
    PROVE  ListsOfUser'
<1> SUFFICES ASSUME NEW k \in Lists, k \notin astray' PROVE lists'[k] \in {NoUser, user'}
  BY DEF ListsOfUser
<1>1. CASE u = NoUser /\ user = NoUser
  BY <1>1 DEF SetUser, ListsOfUser
<1>2. CASE u = NoUser /\ user # NoUser
  BY <1>2 DEF SetUser, FillLists
<1>3. CASE u # NoUser
  BY <1>3 DEF SetUser, FillLists
<1> QED
  BY <1>1, <1>2, <1>3

LEMMA NextLists == SessionTypeOK /\ ListsOfUser /\ [SessionNext]_tabVars => ListsOfUser'
<1> SUFFICES ASSUME SessionTypeOK, ListsOfUser, [SessionNext]_tabVars PROVE ListsOfUser'
  OBVIOUS
<1>1. ASSUME NEW u \in Nobody, NEW others, NEW where, SetUser(u, others, where)
      PROVE  ListsOfUser'
  BY <1>1, SetUserLists
<1>2. NoUser \in Nobody /\ \A c \in calls : c.seen \in Nobody
  BY DEF SessionTypeOK, TabCall, Nobody
<1>3. CASE UNCHANGED <<user, lists, astray>>
  BY <1>3 DEF ListsOfUser
<1>4. CASE Restored \/ Rechecked \/ LoggedIn \/ LoggedOut
  BY <1>1, <1>2, <1>3, <1>4 DEF Restored, Rechecked, LoggedIn, LoggedOut
<1>5. CASE Filled
  <2>1. PICK c \in calls :
           /\ c.kind \in Lists /\ user' = user
           /\ \/ /\ lists' = [lists EXCEPT ![c.kind] = c.seen]
                 /\ astray' = IF c.seen = user THEN astray \ {c.kind} ELSE astray \cup {c.kind}
              \/ UNCHANGED <<lists, astray>>
              \/ lists' = [lists EXCEPT ![c.kind] = NoUser] /\ astray' = astray \ {c.kind}
    BY <1>5 DEF Filled, sessionVars
  <2> QED
    BY <2>1 DEF ListsOfUser, SessionTypeOK
<1> QED
  BY <1>3, <1>4, <1>5
     DEF SessionNext, tabVars, sessionVars, LoginAnswered, LookAgain, Login, Logout,
         OtherTab, Visit

-----------------------------------------------------------------------------
LEMMA SessionInitInv == SessionInit => SessionInv /\ ShownHasSession
  BY SessionInitType
     DEF SessionInit, SessionInv, ListsOfUser, ShownHasSession

LEMMA SessionNextInv == SessionInv /\ [SessionNext]_tabVars => SessionInv'
  BY SessionNextType, NextLists DEF SessionInv

(* The tab keeps the types of its state, whatever answers it gets and when. *)
THEOREM SessionTypeCorrect == SessionSpec => []SessionTypeOK
<1>1. SessionInv => SessionTypeOK
  BY DEF SessionInv
<1> QED
  BY <1>1, SessionInitInv, SessionNextInv, PTL DEF SessionSpec

(* A tab shows the user of the browser's session, nobody, or a user whose   *)
(* logout is under way, unless another tab, a login or an overtaken answer  *)
(* changed the session since it was last told of it.                        *)
THEOREM ShownUserHasSession == SessionSpec => []ShownHasSession
  BY SessionInitInv, NextShown, PTL DEF SessionSpec

(* The lists of the sidebar are those of the user shown, unless the user    *)
(* was replaced without a logout or the answer to another user's call came  *)
(* late.                                                                    *)
THEOREM ListsBelong == SessionSpec => []ListsOfUser
<1>1. SessionInv => ListsOfUser
  BY DEF SessionInv
<1> QED
  BY <1>1, SessionInitInv, SessionNextInv, PTL DEF SessionSpec

-----------------------------------------------------------------------------
(* The favorites of the tabs of a browser.                                 *)

\* A timer runs for a user; the pages a tab shows to users are theirs.
OwnInv ==
    \A t \in Tabs :
        /\ t \in saving => viewer[t] # NoOwner
        /\ viewer[t] \in Owners \ heirs => favorites[t] \subseteq starred[viewer[t]]

\* A tab nobody overtook lacks of what is stored only what was unstarred in it.
LackInv ==
    \A t \in Tabs \ behind :
        viewer[t] # NoOwner => stored[viewer[t]] \ favorites[t] \subseteq removed[t]

FavoritesInv == FavoritesTypeOK /\ OwnInv /\ LackInv /\ StoredIsStarred /\ ShownIsStored

LEMMA FavoritesInitInv == FavoritesInit => FavoritesInv
  BY FavoritesAssumptions
     DEF FavoritesInit, FavoritesInv, FavoritesTypeOK, OwnInv, LackInv, StoredIsStarred, ShownIsStored

LEMMA ChangeUserKeeps ==
    ASSUME FavoritesInv, NEW t \in Tabs, NEW u \in Owners, ChangeUser(t, u)
    PROVE  FavoritesInv'
<1>1. /\ viewer' = [viewer EXCEPT ![t] = u]
      /\ favorites' = [favorites EXCEPT ![t] = IF stored[u] = {} THEN @ ELSE stored[u]]
      /\ saving' = saving \cup {t}
      /\ heirs' = (IF stored[u] = {} /\ favorites[t] # {} THEN heirs \cup {u} ELSE heirs)
      /\ behind' = behind \ {t} /\ refused' = refused \ {t}
      /\ removed' = [removed EXCEPT ![t] = {}]
      /\ stored' = stored /\ starred' = starred
  BY DEF ChangeUser, LoadFavorites, Fresh
<1>2. FavoritesTypeOK /\ OwnInv /\ LackInv /\ StoredIsStarred /\ ShownIsStored
  BY DEF FavoritesInv
<1>3. FavoritesTypeOK'
  BY <1>1, <1>2 DEF FavoritesTypeOK
<1>4. /\ viewer'[t] = u /\ favorites'[t] = (IF stored[u] = {} THEN favorites[t] ELSE stored[u])
      /\ removed'[t] = {}
      /\ \A s \in Tabs \ {t} : viewer'[s] = viewer[s] /\ favorites'[s] = favorites[s] /\ removed'[s] = removed[s]
  BY <1>1, <1>2 DEF FavoritesTypeOK
<1>5. OwnInv'
  <2>1. u \notin heirs' => favorites'[t] \subseteq starred[u]
    BY <1>1, <1>2, <1>4 DEF StoredIsStarred
  <2>2. heirs \subseteq heirs'
    BY <1>1
  <2> QED
    BY <1>1, <1>2, <1>4, <2>1, <2>2, FavoritesAssumptions DEF OwnInv
<1>6. LackInv'
  BY <1>1, <1>2, <1>4 DEF LackInv
<1>7. StoredIsStarred' /\ ShownIsStored'
  BY <1>1, <1>2, <1>4 DEF StoredIsStarred, ShownIsStored
<1> QED
  BY <1>3, <1>5, <1>6, <1>7 DEF FavoritesInv

\* A tab whose user goes, with its list or without it.
LEMMA LeaveTabKeeps ==
    ASSUME FavoritesInv, NEW t \in Tabs, LoseUser(t) \/ Reload(t)
    PROVE  FavoritesInv'
<1>1. /\ viewer' = [viewer EXCEPT ![t] = NoOwner]
      /\ \/ favorites' = favorites
         \/ favorites' = [favorites EXCEPT ![t] = {}]
      /\ saving' = saving \ {t}
      /\ behind' = behind \ {t} /\ refused' = refused \ {t}
      /\ removed' = [removed EXCEPT ![t] = {}]
      /\ stored' = stored /\ starred' = starred /\ heirs' = heirs
  BY DEF LoseUser, Reload, Fresh, storageVars
<1>2. FavoritesTypeOK /\ OwnInv /\ LackInv /\ StoredIsStarred /\ ShownIsStored
  BY DEF FavoritesInv
<1>3. FavoritesTypeOK'
  BY <1>1, <1>2 DEF FavoritesTypeOK
<1>4. /\ viewer'[t] = NoOwner
      /\ \A s \in Tabs \ {t} : viewer'[s] = viewer[s] /\ favorites'[s] = favorites[s] /\ removed'[s] = removed[s]
  BY <1>1, <1>2 DEF FavoritesTypeOK
<1>5. OwnInv' /\ LackInv'
  BY <1>1, <1>2, <1>4, FavoritesAssumptions DEF OwnInv, LackInv
<1>6. StoredIsStarred' /\ ShownIsStored'
  BY <1>1, <1>2, <1>4 DEF StoredIsStarred, ShownIsStored
<1> QED
  BY <1>3, <1>5, <1>6 DEF FavoritesInv

LEMMA StarKeeps ==
    ASSUME FavoritesInv, NEW t \in Tabs, NEW p \in Pages, Star(t, p) \/ Unstar(t, p)
    PROVE  FavoritesInv'
<1> DEFINE u == viewer[t]
<1>1. /\ u # NoOwner
      /\ saving' = saving \cup {t}
      /\ viewer' = viewer /\ behind' = behind /\ refused' = refused
      /\ stored' = stored /\ heirs' = heirs
  BY DEF Star, Unstar, storageVars
<1>2. FavoritesTypeOK /\ OwnInv /\ LackInv /\ StoredIsStarred /\ ShownIsStored
  BY DEF FavoritesInv
<1>3. \/ /\ favorites' = [favorites EXCEPT ![t] = @ \cup {p}]
         /\ starred' = [starred EXCEPT ![u] = @ \cup {p}]
         /\ removed' = [removed EXCEPT ![t] = @ \ {p}]
      \/ /\ favorites' = [favorites EXCEPT ![t] = @ \ {p}]
         /\ starred' = starred
         /\ removed' = [removed EXCEPT ![t] = @ \cup {p}]
  BY DEF Star, Unstar, storageVars
<1>4. u \in Owners
  BY <1>1, <1>2 DEF FavoritesTypeOK
<1>5. FavoritesTypeOK'
  BY <1>1, <1>2, <1>3 DEF FavoritesTypeOK
<1>6. /\ \A o \in Owners : starred[o] \subseteq starred'[o]
      /\ \/ favorites'[t] = favorites[t] \cup {p} /\ p \in starred'[u] /\ removed'[t] = removed[t] \ {p}
         \/ favorites'[t] = favorites[t] \ {p} /\ removed'[t] = removed[t] \cup {p}
      /\ \A s \in Tabs \ {t} : favorites'[s] = favorites[s] /\ removed'[s] = removed[s]
  BY <1>2, <1>3, <1>4 DEF FavoritesTypeOK
<1> HIDE DEF u
<1>7. OwnInv'
  <2>1. u \notin heirs => favorites'[t] \subseteq starred'[u]
    BY <1>2, <1>4, <1>6 DEF OwnInv, u
  <2> QED
    BY <1>1, <1>2, <1>6, <2>1 DEF OwnInv, u
<1>8. LackInv'
  BY <1>1, <1>2, <1>6 DEF LackInv
<1>9. StoredIsStarred' /\ ShownIsStored'
  BY <1>1, <1>2, <1>6 DEF StoredIsStarred, ShownIsStored
<1> QED
  BY <1>5, <1>7, <1>8, <1>9 DEF FavoritesInv

\* Storing makes the tab's list what is stored, and overtakes the user's other
\* tabs, unless nothing changes by it.
LEMMA StoreKeeps ==
    ASSUME FavoritesInv, NEW t \in Tabs, StoreFavorites(t)
    PROVE  FavoritesInv'
<1> DEFINE u == viewer[t]
<1>1. /\ t \in saving /\ saving' = saving \ {t}
      /\ viewer' = viewer /\ favorites' = favorites /\ starred' = starred /\ heirs' = heirs
  BY DEF StoreFavorites
<1>2. FavoritesTypeOK /\ OwnInv /\ LackInv /\ StoredIsStarred /\ ShownIsStored
  BY DEF FavoritesInv
<1>3. u \in Owners
  BY <1>1, <1>2 DEF FavoritesTypeOK, OwnInv
<1>4. CASE /\ favorites[t] # {}
           /\ stored' = [stored EXCEPT ![u] = favorites[t]]
           /\ behind' = (behind \ {t}) \cup Overtaken(t, u)
           /\ refused' = refused \ {t}
           /\ removed' = [removed EXCEPT ![t] = {}]
  <2>1. /\ stored'[u] = favorites[t] /\ \A o \in Owners \ {u} : stored'[o] = stored[o]
        /\ removed'[t] = {} /\ \A s \in Tabs \ {t} : removed'[s] = removed[s]
    BY <1>2, <1>3, <1>4 DEF FavoritesTypeOK
  <2>2. \A s \in Tabs \ {t} : s \notin behind' =>
           s \notin behind /\ (viewer[s] \in Owners => stored'[viewer[s]] = stored[viewer[s]])
    BY <1>3, <1>4, <2>1 DEF Overtaken
  <2>3. FavoritesTypeOK'
    BY <1>1, <1>2, <1>3, <1>4 DEF FavoritesTypeOK, Overtaken
  <2>4. OwnInv'
    BY <1>1, <1>2 DEF OwnInv
  <2>5. \A s \in Tabs : viewer[s] # NoOwner => viewer[s] \in Owners
    BY <1>2 DEF FavoritesTypeOK
  <2>6. LackInv'
    BY <1>1, <1>2, <2>1, <2>2, <2>5 DEF LackInv
  <2>7. StoredIsStarred'
    BY <1>1, <1>2, <1>3, <2>1 DEF StoredIsStarred, OwnInv
  <2>8. ShownIsStored'
    BY <1>1, <1>2, <1>4, <2>1, <2>2, <2>5 DEF ShownIsStored
  <2> QED
    BY <2>3, <2>4, <2>6, <2>7, <2>8 DEF FavoritesInv
<1>5. CASE /\ stored' = stored /\ behind' = behind /\ removed' = removed
           /\ \/ refused' = refused \cup {t}
              \/ favorites[t] = {} /\ refused' = refused
  <2>1. FavoritesTypeOK'
    BY <1>1, <1>2, <1>5 DEF FavoritesTypeOK
  <2>2. OwnInv' /\ LackInv' /\ StoredIsStarred'
    BY <1>1, <1>2, <1>5 DEF OwnInv, LackInv, StoredIsStarred
  <2>3. ShownIsStored'
    BY <1>1, <1>2, <1>5 DEF ShownIsStored
  <2> QED
    BY <2>1, <2>2, <2>3 DEF FavoritesInv
<1> QED
  BY <1>4, <1>5 DEF StoreFavorites, lapses

LEMMA FavoritesNextInv == FavoritesInv /\ [FavoritesNext]_favoriteVars => FavoritesInv'
<1> SUFFICES ASSUME FavoritesInv, [FavoritesNext]_favoriteVars PROVE FavoritesInv'
  OBVIOUS
<1>1. CASE FavoritesNext
  BY <1>1, ChangeUserKeeps, LeaveTabKeeps, StarKeeps, StoreKeeps DEF FavoritesNext
<1>2. CASE UNCHANGED favoriteVars
  BY <1>2 DEF favoriteVars, tabLists, storageVars, lapses, FavoritesInv, FavoritesTypeOK, OwnInv,
              LackInv, StoredIsStarred, ShownIsStored
<1> QED
  BY <1>1, <1>2

LEMMA FavoritesInvariant == FavoritesSpec => []FavoritesInv
  BY FavoritesInitInv, FavoritesNextInv, PTL DEF FavoritesSpec

(* The favorites of the tabs and what is stored of them keep their types.   *)
THEOREM FavoritesTypeCorrect == FavoritesSpec => []FavoritesTypeOK
<1>1. FavoritesInv => FavoritesTypeOK
  BY DEF FavoritesInv
<1> QED
  BY <1>1, FavoritesInvariant, PTL

(* Pages stored for a user are pages the user starred in one of the tabs,   *)
(* unless the user had none stored when coming to a tab with pages in it.   *)
THEOREM StarsBelong == FavoritesSpec => []StoredIsStarred
<1>1. FavoritesInv => StoredIsStarred
  BY DEF FavoritesInv
<1> QED
  BY <1>1, FavoritesInvariant, PTL

(* After its timer a tab shows what is stored for its user, unless another  *)
(* tab has stored since, the browser refused to store, or the list is empty. *)
THEOREM StarsAreStored == FavoritesSpec => []ShownIsStored
<1>1. FavoritesInv => ShownIsStored
  BY DEF FavoritesInv
<1> QED
  BY <1>1, FavoritesInvariant, PTL

(* A tab drops from storage only what was unstarred in it, unless another   *)
(* tab has stored since it read its list.                                   *)
THEOREM StarsKept == FavoritesSpec => StarsLostOnlyBehind
<1>1. ASSUME FavoritesInv, [FavoritesNext]_favoriteVars,
             NEW t \in saving \ behind, t \notin saving', viewer[t] # NoOwner
      PROVE  stored[viewer[t]] \ stored'[viewer[t]] \subseteq removed[t]
  <2>1. FavoritesTypeOK /\ OwnInv /\ LackInv
    BY <1>1 DEF FavoritesInv
  <2>2. t \in Tabs /\ viewer[t] \in Owners
    BY <1>1, <2>1 DEF FavoritesTypeOK
  <2>3. stored' = stored \/ StoreFavorites(t)
    BY <1>1 DEF FavoritesNext, ChangeUser, LoseUser, Reload, Star, Unstar, StoreFavorites,
                favoriteVars, tabLists, storageVars
  <2>4. CASE StoreFavorites(t) /\ stored' # stored
    <3>1. stored'[viewer[t]] = favorites[t]
      BY <2>1, <2>2, <2>4 DEF StoreFavorites, FavoritesTypeOK
    <3> QED
      BY <1>1, <2>1, <2>2, <3>1 DEF LackInv
  <2> QED
    BY <2>3, <2>4
<1>2. FavoritesInv /\ [FavoritesNext]_favoriteVars =>
         [\A t \in saving \ behind :
             LET u == viewer[t] IN
             t \notin saving' /\ u # NoOwner => stored[u] \ stored'[u] \subseteq removed[t]]_favoriteVars
  BY <1>1
<1> QED
  BY <1>2, FavoritesInvariant, PTL DEF FavoritesSpec, StarsLostOnlyBehind
=============================================================================
