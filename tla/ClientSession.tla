---------------------------- MODULE ClientSession ----------------------------
(***************************************************************************)
(* One browser tab: who it shows as logged in and the lists of its sidebar *)
(* (pages/_app.tsx, pages/login.tsx, components/nav-user.tsx).             *)
(*                                                                         *)
(* The server handles a call when it is sent, with the session cookie of   *)
(* that moment; the answer arrives at any later time, in any order, or the *)
(* call fails.  A step is one event of the tab: an answer, a timer or an   *)
(* action of the user, with the effects React runs after it.               *)
(***************************************************************************)
EXTENDS Naturals, FiniteSets

CONSTANTS Users,
          MaxCalls,   \* bound: calls in flight before the session is changed or looked at
          NoUser,     \* nobody
          Lists       \* lists of the sidebar: events, organizations

ASSUME SessionAssumptions ==
    /\ NoUser \notin Users /\ MaxCalls \in Nat
    /\ Lists \cap {"restore", "recheck", "login", "session", "logout"} = {}

\* A call in flight: what for, and whom the server saw; equal ones count as one.
TabCall == [kind : {"restore", "recheck", "login", "session", "logout"} \cup Lists,
            seen : Users \cup {NoUser}]

VARIABLES cookie,    \* the user of the browser's session, which its tabs share
          user,      \* user of UserContext
          loggingOut, \* the menu of the user waits for its logout
          path,      \* the login page, or one that OAuth and invitations lead to
          lists,     \* whose events and organizations the sidebar shows
          calls,     \* calls in flight
          recheck,   \* the timer before the second look at the session
          astray,    \* history: lists filled for someone else, or not refilled for a new user
          apart      \* history: the session changed behind what the tab was told

sessionVars == <<cookie, user, loggingOut, path>>
tabVars     == <<sessionVars, lists, calls, recheck, astray, apart>>

Nobody == Users \cup {NoUser}

SessionTypeOK ==
    /\ cookie \in Nobody /\ user \in Nobody
    /\ recheck \in BOOLEAN /\ loggingOut \in BOOLEAN
    /\ path \in {"login", "dashboard"}
    /\ lists \in [Lists -> Nobody]
    /\ calls \subseteq TabCall
    /\ astray \subseteq Lists /\ apart \in BOOLEAN

CanAsk == Cardinality(calls) <= MaxCalls

Ask(kind) == [kind |-> kind, seen |-> cookie]

\* The tab is loaded, in a browser that may hold a session.
SessionInit ==
    /\ cookie \in Nobody /\ path \in {"login", "dashboard"}
    /\ user = NoUser /\ loggingOut = FALSE
    /\ lists = [k \in Lists |-> NoUser]
    /\ calls = {Ask("restore")}
    /\ recheck = (path = "dashboard")
    /\ astray = {} /\ apart = FALSE

-----------------------------------------------------------------------------
(* What follows when the context is given a user.                          *)

\* Mutant of FillLists: the lists stay when there is no user any more.
FillListsKept(u, others) ==
    /\ calls' = others \cup (IF u = NoUser THEN {} ELSE {Ask(k) : k \in Lists})
    /\ UNCHANGED lists
    /\ astray' = IF u = NoUser THEN {}
                 ELSE astray \cup {k \in Lists : lists[k] \notin {NoUser, u}}

\* The sidebar's lists are fetched for a user and emptied without one.
FillLists(u, others) ==
    /\ calls' = others \cup (IF u = NoUser THEN {} ELSE {Ask(k) : k \in Lists})
    /\ lists' = IF u = NoUser THEN [k \in Lists |-> NoUser] ELSE lists
    /\ astray' = IF u = NoUser THEN {}
                 ELSE astray \cup {k \in Lists : lists[k] \notin {NoUser, u}}

\* The second look is awaited where OAuth and invitations lead, without a user.
Await(u, where) == recheck' = (u = NoUser /\ where = "dashboard")

\* setUser(u), with the calls that stay in flight and the page the tab goes to;
\* the menu goes with its user.
SetUser(u, others, where) ==
    /\ user' = u /\ path' = where
    /\ loggingOut' = (loggingOut /\ u # NoUser)
    /\ Await(u, where)
    /\ IF u = NoUser /\ user = NoUser THEN calls' = others /\ UNCHANGED <<lists, astray>>
                                  ELSE FillLists(u, others)

-----------------------------------------------------------------------------
(* The session.                                                            *)

\* The tab is told of the session, perhaps one that is gone by now.
Told(u) == apart' = (u # cookie)

\* The check on mount: no answer counts as no user.
Restored ==
    \E c \in calls :
        /\ c.kind = "restore"
        /\ \/ SetUser(c.seen, calls \ {c}, path) /\ Told(c.seen)
           \/ SetUser(NoUser, calls \ {c}, path) /\ apart' = FALSE
        /\ UNCHANGED cookie

\* 100 ms without a user, where one is expected: the session is asked again,
\* once for each time the page is entered or the user goes.
LookAgain ==
    /\ recheck /\ user = NoUser /\ CanAsk
    /\ recheck' = FALSE
    /\ calls' = calls \cup {Ask("recheck")}
    /\ UNCHANGED <<sessionVars, lists, astray, apart>>

\* Only a user it finds is set; nobody or a failure changes nothing.
Rechecked ==
    \E c \in calls :
        /\ c.kind = "recheck"
        /\ \/ c.seen # NoUser /\ SetUser(c.seen, calls \ {c}, path) /\ Told(c.seen)
           \/ calls' = calls \ {c} /\ UNCHANGED <<user, loggingOut, path, lists, recheck, astray, apart>>
        /\ UNCHANGED cookie

SigningIn == \E c \in calls : c.kind \in {"login", "session"}

\* handleSubmit: the server makes the session ...
Login(u) ==
    /\ path = "login" /\ CanAsk /\ ~SigningIn
    /\ cookie' = u
    /\ calls' = calls \cup {[kind |-> "login", seen |-> u]}
    /\ apart' = (apart \/ user \notin {NoUser, u})
    /\ UNCHANGED <<user, loggingOut, path, lists, recheck, astray>>

\* ... its answer comes, and the session is asked for, or it is lost ...
LoginAnswered ==
    \E c \in calls :
        /\ c.kind = "login"
        /\ calls' \in {(calls \ {c}) \cup {Ask("session")}, calls \ {c}}
        /\ UNCHANGED <<sessionVars, lists, recheck, astray, apart>>

\* ... and the page goes on, with the user of the session or, when it is
\* refused, with the user there was; without an answer it stays.
LoggedIn ==
    \E c \in calls :
        /\ c.kind = "session"
        /\ \/ c.seen # NoUser /\ SetUser(c.seen, calls \ {c}, "dashboard") /\ Told(c.seen)
           \/ /\ calls' = calls \ {c} /\ path' = "dashboard" /\ Await(user, "dashboard")
              /\ UNCHANGED <<user, loggingOut, lists, astray, apart>>
           \/ calls' = calls \ {c} /\ UNCHANGED <<user, loggingOut, path, lists, recheck, astray, apart>>
        /\ UNCHANGED cookie

\* handleLogout: the server ends the session, or is not reached ...
Logout ==
    /\ user # NoUser /\ ~loggingOut /\ CanAsk
    /\ loggingOut' = TRUE
    /\ cookie' \in {NoUser, cookie}
    /\ calls' = calls \cup {Ask("logout")}
    /\ UNCHANGED <<user, path, lists, recheck, astray, apart>>

\* Mutant of LoggedOut: the user stays when the call failed.
LoggedOutForgetful ==
    \E c \in calls :
        /\ c.kind = "logout"
        /\ calls' = calls \ {c}
        /\ loggingOut' = FALSE
        /\ UNCHANGED <<cookie, user, path, lists, recheck, astray, apart>>

\* ... and with an answer or without one the user goes, whoever it is by now.
LoggedOut ==
    \E c \in calls :
        /\ c.kind = "logout"
        /\ SetUser(NoUser, calls \ {c}, "login")
        /\ apart' = FALSE
        /\ UNCHANGED cookie

Visit(where) ==
    /\ path # where
    /\ path' = where
    /\ Await(user, where)
    /\ UNCHANGED <<cookie, user, loggingOut, lists, calls, astray, apart>>

\* Another tab logs in or out, or the session expires.
OtherTab(u) ==
    /\ u # cookie /\ CanAsk
    /\ cookie' = u
    /\ apart' = TRUE
    /\ UNCHANGED <<user, loggingOut, path, lists, calls, recheck, astray>>

-----------------------------------------------------------------------------
(* Lists.                                                                  *)

\* An answer fills its list whoever the tab shows by now; a refusal leaves it,
\* and no answer empties it.
Filled ==
    \E c \in calls :
        /\ c.kind \in Lists
        /\ calls' = calls \ {c}
        /\ \/ /\ c.seen # NoUser
              /\ lists' = [lists EXCEPT ![c.kind] = c.seen]
              /\ astray' = IF c.seen = user THEN astray \ {c.kind} ELSE astray \cup {c.kind}
           \/ UNCHANGED <<lists, astray>>
           \/ lists' = [lists EXCEPT ![c.kind] = NoUser] /\ astray' = astray \ {c.kind}
        /\ UNCHANGED <<sessionVars, recheck, apart>>

-----------------------------------------------------------------------------
SessionNext ==
    \/ Restored \/ Rechecked \/ LoginAnswered \/ LoggedIn \/ Filled \/ LookAgain
    \/ Logout \/ LoggedOut
    \/ \E u \in Users : Login(u)
    \/ \E u \in Nobody : OtherTab(u)
    \/ \E where \in {"login", "dashboard"} : Visit(where)

SessionSpec == SessionInit /\ [][SessionNext]_tabVars

-----------------------------------------------------------------------------
(* Properties.                                                             *)

(* The user a tab shows is the user of the session, or nobody, or one whose *)
(* logout it waits for, unless since the tab was last told of the session   *)
(* another tab changed it or a login replaced the user shown, or what it    *)
(* was told was overtaken by another login or logout.                       *)
ShownHasSession ==
    \/ apart
    \/ user \in {NoUser, cookie}
    \/ \E c \in calls : c.kind = "logout" /\ c.seen = user

(* The sidebar lists what belongs to the user it shows, and nothing without *)
(* a user, unless the user changed with no logout in between and the list   *)
(* was not filled since, or the answer of an earlier user's call came late. *)
ListsOfUser == \A k \in Lists \ astray : lists[k] \in {NoUser, user}
=============================================================================
