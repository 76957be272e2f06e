------------------------------ MODULE RoleCache ------------------------------
(***************************************************************************)
(* The role cache of UnifiedRBACService (services/unified-rbac.service.ts) *)
(* between the UserRole table and the decisions made from it.              *)
(*                                                                         *)
(* Every service, and the middleware of utils/rbac.ts, builds its own      *)
(* UnifiedRBACService, so there is one cache per instance.  hasEventRole   *)
(* answers from the cache of its instance while the entry is younger than  *)
(* the TTL and otherwise fetches the rows, an awaited database call, and   *)
(* stores them; grantRole and revokeRole write the table and then clear    *)
(* the user's entry in their own instance only.  Time is counted in ticks. *)
(***************************************************************************)
EXTENDS Naturals, AccessPolicy

CONSTANTS Instances,  \* UnifiedRBACService objects
          Users,
          Grants,     \* the UserRole rows a user may have
          Event, Org, \* the event asked about and the organization that owns it
          Asks,       \* the sets of role names the callers of hasEventRole pass
          Checks,     \* calls of hasEventRole, each runs once
          Changes,    \* calls of grantRole and revokeRole, each runs once
          TTL,        \* CACHE_TTL_MS in ticks
          MaxTime,    \* bound on the clock
          None        \* no value

ASSUME RoleCacheAssumptions ==
    /\ TTL \in Nat \ {0}
    /\ MaxTime \in Nat
    /\ None \notin [rows : SUBSET Grants, at : Nat]
    /\ None \notin [instance : Instances, user : Users, names : Asks, start : Nat]
    /\ None \notin [instance : Instances, user : Users, grant : Grants, op : {"grant", "revoke"}]

VARIABLES now,        \* Date.now()
          db,         \* the UserRole rows of each user
          cache,      \* userRoleCache of each instance
          cpc, call, rows,  \* a check: its progress, its arguments, the rows it works on
          wpc, change,      \* a change: its progress and its arguments
          lastSeen    \* history: when a user last had exactly these rows, 0 for never

checkVars  == <<cpc, call, rows>>
changeVars == <<wpc, change>>
vars == <<now, db, cache, checkVars, changeVars, lastSeen>>

Entry  == [rows : SUBSET Grants, at : Nat]
Call   == [instance : Instances, user : Users, names : Asks, start : Nat]
Change == [instance : Instances, user : Users, grant : Grants, op : {"grant", "revoke"}]

CheckRuns == {"fetch", "store", "decide"}
Verdicts  == {"allow", "deny"}

TypeOK ==
    /\ now \in Nat
    /\ db \in [Users -> SUBSET Grants]
    /\ cache \in [Instances -> [Users -> Entry \cup {None}]]
    /\ cpc \in [Checks -> {"idle", "failed", "lost"} \cup CheckRuns \cup Verdicts]
    /\ call \in [Checks -> Call \cup {None}]
    /\ \A c \in Checks : cpc[c] # "idle" => call[c] # None
    /\ rows \in [Checks -> SUBSET Grants]
    /\ wpc \in [Changes -> {"idle", "write", "clear", "done", "failed", "lost"}]
    /\ change \in [Changes -> Change \cup {None}]
    /\ \A w \in Changes : wpc[w] # "idle" => change[w] # None
    /\ lastSeen \in [Users -> [SUBSET Grants -> Nat]]

\* The clock starts at TTL, so that no check starts less than one TTL after time 0.
Init ==
    /\ now = TTL
    /\ db \in [Users -> SUBSET Grants]
    /\ cache = [n \in Instances |-> [u \in Users |-> None]]
    /\ cpc = [c \in Checks |-> "idle"]
    /\ call = [c \in Checks |-> None]
    /\ rows = [c \in Checks |-> {}]
    /\ wpc = [w \in Changes |-> "idle"]
    /\ change = [w \in Changes |-> None]
    /\ lastSeen = [u \in Users |-> [S \in SUBSET Grants |-> 0]]

Tick ==
    /\ now < MaxTime
    /\ now' = now + 1
    /\ UNCHANGED <<db, cache, checkVars, changeVars, lastSeen>>

-----------------------------------------------------------------------------
(* hasEventRole and getCachedUserRoles.                                    *)

Fresh(entry) == entry # None /\ now - entry.at < TTL

\* The cache is looked up before anything is awaited; start is the `now' of the code.
StartCheck(c, n, u, names) ==
    /\ cpc[c] = "idle"
    /\ call' = [call EXCEPT ![c] = [instance |-> n, user |-> u, names |-> names, start |-> now]]
    /\ IF Fresh(cache[n][u])
       THEN /\ rows' = [rows EXCEPT ![c] = cache[n][u].rows]
            /\ cpc' = [cpc EXCEPT ![c] = "decide"]
       ELSE /\ cpc' = [cpc EXCEPT ![c] = "fetch"]
            /\ UNCHANGED rows
    /\ UNCHANGED <<now, db, cache, changeVars, lastSeen>>

\* The database answers findMany; the answer is on its way to the process.
FetchRoles(c) ==
    /\ cpc[c] = "fetch"
    /\ rows' = [rows EXCEPT ![c] = db[call[c].user]]
    /\ cpc' = [cpc EXCEPT ![c] = "store"]
    /\ UNCHANGED <<now, db, cache, call, changeVars, lastSeen>>

\* Mutant of StoreRoles: the entry is stamped with the time it is stored.
StoreRolesStampedNow(c) ==
    /\ cpc[c] = "store"
    /\ cache' = [cache EXCEPT ![call[c].instance][call[c].user] =
                                  [rows |-> rows[c], at |-> now]]
    /\ cpc' = [cpc EXCEPT ![c] = "decide"]
    /\ UNCHANGED <<now, db, call, rows, changeVars, lastSeen>>

\* The process resumes and caches the answer under the time the call began.
StoreRoles(c) ==
    /\ cpc[c] = "store"
    /\ cache' = [cache EXCEPT ![call[c].instance][call[c].user] =
                                  [rows |-> rows[c], at |-> call[c].start]]
    /\ cpc' = [cpc EXCEPT ![c] = "decide"]
    /\ UNCHANGED <<now, db, call, rows, changeVars, lastSeen>>

\* Promise.all resolves once the event is there too; its organization never changes.
Decide(c) ==
    /\ cpc[c] = "decide"
    /\ cpc' = [cpc EXCEPT ![c] =
                  IF HasEventRole(rows[c], Event, Org, call[c].names) THEN "allow" ELSE "deny"]
    /\ UNCHANGED <<now, db, cache, call, rows, changeVars, lastSeen>>

\* The query for the rows or for the event rejects; the answer is false.
FailCheck(c) ==
    /\ cpc[c] \in {"fetch", "decide"}
    /\ cpc' = [cpc EXCEPT ![c] = "failed"]
    /\ UNCHANGED <<now, db, cache, call, rows, changeVars, lastSeen>>

-----------------------------------------------------------------------------
(* grantRole and revokeRole.                                               *)

StartChange(w, n, u, g, op) ==
    /\ wpc[w] = "idle"
    /\ change' = [change EXCEPT ![w] = [instance |-> n, user |-> u, grant |-> g, op |-> op]]
    /\ wpc' = [wpc EXCEPT ![w] = "write"]
    /\ UNCHANGED <<now, db, cache, checkVars, lastSeen>>

After(held, op, g) == IF op = "grant" THEN held \cup {g} ELSE held \ {g}

\* The upsert or deleteMany takes effect; the process may not hear of it.
WriteChange(w) ==
    LET u == change[w].user IN
    /\ wpc[w] = "write"
    /\ db' = [db EXCEPT ![u] = After(@, change[w].op, change[w].grant)]
    /\ lastSeen' = [lastSeen EXCEPT ![u][db[u]] = now]
    /\ \E next \in {"clear", "failed"} : wpc' = [wpc EXCEPT ![w] = next]
    /\ UNCHANGED <<now, cache, checkVars, change>>

\* The write fails; the error is swallowed and the cache is left as it is.
FailChange(w) ==
    /\ wpc[w] = "write"
    /\ wpc' = [wpc EXCEPT ![w] = "failed"]
    /\ UNCHANGED <<now, db, cache, checkVars, change, lastSeen>>

\* clearUserCache, in the instance that made the change.
ClearUserCache(w) ==
    /\ wpc[w] = "clear"
    /\ cache' = [cache EXCEPT ![change[w].instance][change[w].user] = None]
    /\ wpc' = [wpc EXCEPT ![w] = "done"]
    /\ UNCHANGED <<now, db, checkVars, change, lastSeen>>

\* The process dies: what it had in memory is gone.
Crash ==
    /\ cache' = [n \in Instances |-> [u \in Users |-> None]]
    /\ cpc' = [c \in Checks |-> IF cpc[c] \in CheckRuns THEN "lost" ELSE cpc[c]]
    /\ wpc' = [w \in Changes |-> IF wpc[w] \in {"write", "clear"} THEN "lost" ELSE wpc[w]]
    /\ UNCHANGED <<now, db, call, rows, change, lastSeen>>

-----------------------------------------------------------------------------
CheckStep(c) ==
    \/ \E n \in Instances, u \in Users, names \in Asks : StartCheck(c, n, u, names)
    \/ FetchRoles(c)
    \/ StoreRoles(c)
    \/ Decide(c)
    \/ FailCheck(c)

ChangeStep(w) ==
    \/ \E n \in Instances, u \in Users, g \in Grants, op \in {"grant", "revoke"} :
          StartChange(w, n, u, g, op)
    \/ WriteChange(w)
    \/ FailChange(w)
    \/ ClearUserCache(w)

Next ==
    \/ Tick
    \/ \E c \in Checks : CheckStep(c)
    \/ \E w \in Changes : ChangeStep(w)
    \/ Crash

Spec == Init /\ [][Next]_vars

-----------------------------------------------------------------------------
(* Properties.                                                             *)

\* The last time at which user u had exactly the rows S.
AsOf(u, S) == IF db[u] = S THEN now ELSE lastSeen[u][S]

(* Whatever the caches of all instances hold, a check that answers, answers *)
(* as the policy does for rows its user really had at one instant, less     *)
(* than a TTL before the check began or later.  So a revoked role opens     *)
(* nothing to checks that begin a TTL after the revocation, and a granted   *)
(* one is not denied to them.                                               *)
BoundedStaleness ==
    \A c \in Checks : cpc[c] \in Verdicts =>
        \E S \in SUBSET Grants :
            /\ AsOf(call[c].user, S) > call[c].start - TTL
            /\ cpc[c] = "allow" <=> HasEventRole(S, Event, Org, call[c].names)
=============================================================================
