------------------------- MODULE ServerMemoryProofs ---------------------------
(***************************************************************************)
(* Proofs about what a server process keeps of the tables it read: the     *)
(* roles of RoleCache, and the logger and the strategies of                *)
(* SystemSettings.                                                         *)
(*                                                                         *)
(* The invariant of the cache dates the rows that move through the system: *)
(* rows on their way from the table to a cache were in force when their    *)
(* check began or later, rows in a cache at the time of their stamp or     *)
(* later, and no history grows older (AsOfGrows).                          *)
(*                                                                         *)
(* The settings rest on who can write under whom: two workers in one area  *)
(* have met (SoloInv), so that what an undisturbed one has read, saved or  *)
(* is about to save agrees with the table until it is done (InStep).       *)
(***************************************************************************)
EXTENDS RoleCache, SystemSettings, SequenceTheorems, TLAPS

-----------------------------------------------------------------------------
(* The cache of roles.                                                     *)

\* The history lies between 0 and the clock, and the clock past the first TTL.
ClockInv ==
    /\ TTL <= now
    /\ \A u \in Users, S \in SUBSET Grants : lastSeen[u][S] <= now

\* The rows of a cache entry were in force at its stamp or later.
EntryInv ==
    \A n \in Instances, u \in Users : cache[n][u] # None =>
        /\ cache[n][u].at <= now
        /\ AsOf(u, cache[n][u].rows) >= cache[n][u].at

\* The rows a check works on are as fresh as its progress requires.
RowsInv ==
    \A c \in Checks : cpc[c] # "idle" =>
        /\ call[c].start <= now
        /\ cpc[c] = "store" => AsOf(call[c].user, rows[c]) >= call[c].start
        /\ cpc[c] = "decide" => AsOf(call[c].user, rows[c]) > call[c].start - TTL

IInv == TypeOK /\ ClockInv /\ EntryInv /\ RowsInv /\ BoundedStaleness

-----------------------------------------------------------------------------
(* Types.                                                                  *)

LEMMA InitType == Init => TypeOK
  BY RoleCacheAssumptions DEF Init, TypeOK, CheckRuns, Verdicts, Entry, Call, Change

LEMMA CheckType == ASSUME TypeOK, NEW c \in Checks, CheckStep(c) PROVE TypeOK'
<1>1. ASSUME NEW n \in Instances, NEW u \in Users, NEW names \in Asks,
             StartCheck(c, n, u, names)
      PROVE  TypeOK'
  <2> DEFINE k == [instance |-> n, user |-> u, names |-> names, start |-> now]
  <2>1. k \in Call /\ k # None
    BY RoleCacheAssumptions DEF TypeOK, Call
  <2>2. cache[n][u] \in Entry \cup {None}
    BY DEF TypeOK
  <2>3. Fresh(cache[n][u]) => cache[n][u].rows \in SUBSET Grants
    BY <2>2 DEF Fresh, Entry
  <2>4. rows' \in [Checks -> SUBSET Grants]
    BY <1>1, <2>3 DEF TypeOK, StartCheck
  <2>5. cpc' \in [Checks -> {"idle", "failed", "lost"} \cup CheckRuns \cup Verdicts]
    BY <1>1 DEF TypeOK, StartCheck, CheckRuns
  <2>6. call' = [call EXCEPT ![c] = k]
    BY <1>1 DEF StartCheck
  <2> HIDE DEF k
  <2>7. call' \in [Checks -> Call \cup {None}]
    BY <2>1, <2>6 DEF TypeOK
  <2>8. \A d \in Checks : cpc'[d] # "idle" => call'[d] # None
    BY <1>1, <2>1, <2>6 DEF TypeOK, StartCheck
  <2> QED
    BY <1>1, <2>4, <2>5, <2>7, <2>8 DEF TypeOK, StartCheck, changeVars
<1>2. ASSUME FetchRoles(c) PROVE TypeOK'
  <2>1. db[call[c].user] \in SUBSET Grants
    BY <1>2 DEF TypeOK, FetchRoles, Call
  <2> QED
    BY <1>2, <2>1 DEF TypeOK, FetchRoles, changeVars, CheckRuns
<1>3. ASSUME StoreRoles(c) PROVE TypeOK'
  <2> DEFINE e == [rows |-> rows[c], at |-> call[c].start]
  <2>1. call[c] \in Call
    BY <1>3 DEF TypeOK, StoreRoles
  <2>2. e \in Entry
    BY <2>1 DEF TypeOK, Entry, Call
  <2>3. cache' = [cache EXCEPT ![call[c].instance][call[c].user] = e]
    BY <1>3 DEF StoreRoles
  <2> HIDE DEF e
  <2>4. cache' \in [Instances -> [Users -> Entry \cup {None}]]
    BY <2>1, <2>2, <2>3 DEF TypeOK, Call
  <2> QED
    BY <1>3, <2>4 DEF TypeOK, StoreRoles, changeVars, CheckRuns
<1>4. ASSUME Decide(c) PROVE TypeOK'
  BY <1>4 DEF TypeOK, Decide, changeVars, Verdicts
<1>5. ASSUME FailCheck(c) PROVE TypeOK'
  BY <1>5 DEF TypeOK, FailCheck, changeVars
<1> QED
  BY <1>1, <1>2, <1>3, <1>4, <1>5 DEF CheckStep

LEMMA ChangeType == ASSUME TypeOK, NEW w \in Changes, ChangeStep(w) PROVE TypeOK'
<1>1. ASSUME NEW n \in Instances, NEW u \in Users, NEW g \in Grants,
             NEW op \in {"grant", "revoke"}, StartChange(w, n, u, g, op)
      PROVE  TypeOK'
  <2> DEFINE k == [instance |-> n, user |-> u, grant |-> g, op |-> op]
  <2>1. k \in Change /\ k # None
    BY RoleCacheAssumptions DEF Change
  <2>2. change' = [change EXCEPT ![w] = k]
    BY <1>1 DEF StartChange
  <2> HIDE DEF k
  <2> QED
    BY <1>1, <2>1, <2>2 DEF TypeOK, StartChange, checkVars
<1>2. ASSUME WriteChange(w) PROVE TypeOK'
  <2>1. change[w] \in Change
    BY <1>2 DEF TypeOK, WriteChange
  <2>2. After(db[change[w].user], change[w].op, change[w].grant) \in SUBSET Grants
    BY <2>1 DEF TypeOK, After, Change
  <2>3. db' \in [Users -> SUBSET Grants]
    BY <1>2, <2>1, <2>2 DEF TypeOK, WriteChange, Change
  <2>4. lastSeen' \in [Users -> [SUBSET Grants -> Nat]]
    BY <1>2, <2>1 DEF TypeOK, WriteChange, Change
  <2>5. wpc' \in [Changes -> {"idle", "write", "clear", "done", "failed", "lost"}]
    BY <1>2 DEF TypeOK, WriteChange
  <2>6. \A v \in Changes : wpc'[v] # "idle" => change'[v] # None
    BY <1>2 DEF TypeOK, WriteChange
  <2> QED
    BY <1>2, <2>3, <2>4, <2>5, <2>6 DEF TypeOK, WriteChange, checkVars
<1>3. ASSUME FailChange(w) PROVE TypeOK'
  BY <1>3 DEF TypeOK, FailChange, checkVars
<1>4. ASSUME ClearUserCache(w) PROVE TypeOK'
  <2>1. change[w] \in Change
    BY <1>4 DEF TypeOK, ClearUserCache
  <2>2. cache' \in [Instances -> [Users -> Entry \cup {None}]]
    BY <1>4, <2>1 DEF TypeOK, ClearUserCache, Change
  <2> QED
    BY <1>4, <2>2 DEF TypeOK, ClearUserCache, checkVars
<1> QED
  BY <1>1, <1>2, <1>3, <1>4 DEF ChangeStep

LEMMA NextType == TypeOK /\ [Next]_vars => TypeOK'
<1> SUFFICES ASSUME TypeOK, [Next]_vars PROVE TypeOK'
  OBVIOUS
<1>1. CASE Tick
  <2>1. now' \in Nat
    BY <1>1 DEF TypeOK, Tick
  <2>2. UNCHANGED <<db, cache, checkVars, changeVars, lastSeen>>
    BY <1>1 DEF Tick
  <2> QED
    BY <2>1, <2>2 DEF TypeOK, checkVars, changeVars
<1>2. CASE Crash
  BY <1>2 DEF TypeOK, Crash, CheckRuns
<1>3. CASE UNCHANGED vars
  BY <1>3 DEF TypeOK, vars, checkVars, changeVars
<1> QED
  BY <1>1, <1>2, <1>3, CheckType, ChangeType DEF Next

-----------------------------------------------------------------------------
(* Time.                                                                   *)

\* AsOf after a step, of rows named in the state before it.
AsOfNext(u, S) == IF db'[u] = S THEN now' ELSE lastSeen'[u][S]

\* Nothing that happens makes the last time a user had some rows earlier.
LEMMA AsOfGrows ==
    ASSUME TypeOK, ClockInv, [Next]_vars
    PROVE  /\ now <= now'
           /\ \A u \in Users, S \in SUBSET Grants :
                 /\ AsOf(u, S) \in Nat /\ AsOfNext(u, S) \in Nat
                 /\ AsOf(u, S) <= AsOfNext(u, S)
<1>1. CASE UNCHANGED <<now, db, lastSeen>>
  BY <1>1 DEF TypeOK, AsOf, AsOfNext
<1>2. CASE Tick
  BY <1>2 DEF TypeOK, ClockInv, Tick, AsOf, AsOfNext
<1>3. ASSUME NEW w \in Changes, WriteChange(w)
      PROVE  /\ now <= now'
             /\ \A u \in Users, S \in SUBSET Grants :
                   /\ AsOf(u, S) \in Nat /\ AsOfNext(u, S) \in Nat
                   /\ AsOf(u, S) <= AsOfNext(u, S)
  <2>1. change[w] \in Change
    BY <1>3 DEF TypeOK, WriteChange
  <2> DEFINE v == change[w].user
  <2>2. v \in Users /\ now' = now
    BY <1>3, <2>1 DEF Change, WriteChange
  <2>3. lastSeen' = [lastSeen EXCEPT ![v][db[v]] = now]
    BY <1>3 DEF WriteChange
  <2>4. \A u \in Users : u # v => db'[u] = db[u]
    BY <1>3 DEF WriteChange, TypeOK
  <2> HIDE DEF v
  <2>5. ASSUME NEW u \in Users, NEW S \in SUBSET Grants
        PROVE  /\ lastSeen[u][S] \in Nat /\ lastSeen'[u][S] \in Nat
               /\ lastSeen[u][S] <= lastSeen'[u][S]
               /\ u = v /\ S = db[u] => lastSeen'[u][S] = now
    BY <2>2, <2>3 DEF TypeOK, ClockInv
  <2> QED
    BY <2>2, <2>4, <2>5 DEF AsOf, AsOfNext, ClockInv, TypeOK
<1>4. ASSUME NEW c \in Checks, CheckStep(c) PROVE UNCHANGED <<now, db, lastSeen>>
  BY <1>4 DEF CheckStep, StartCheck, FetchRoles, StoreRoles, Decide, FailCheck
<1>5. ASSUME NEW w \in Changes, ChangeStep(w), ~WriteChange(w)
      PROVE  UNCHANGED <<now, db, lastSeen>>
  BY <1>5 DEF ChangeStep, StartChange, FailChange, ClearUserCache
<1>6. Crash \/ UNCHANGED vars => UNCHANGED <<now, db, lastSeen>>
  BY DEF Crash, vars
<1> QED
  BY <1>1, <1>2, <1>3, <1>4, <1>5, <1>6 DEF Next

LEMMA NextClock == IInv /\ [Next]_vars => ClockInv'
<1> SUFFICES ASSUME IInv, [Next]_vars PROVE ClockInv'
  OBVIOUS
<1>1. TypeOK' /\ now <= now'
  BY NextType, AsOfGrows DEF IInv
<1>2. TTL <= now'
  BY <1>1, RoleCacheAssumptions DEF IInv, TypeOK, ClockInv
<1>3. ASSUME NEW u \in Users, NEW S \in SUBSET Grants PROVE lastSeen'[u][S] <= now'
  <2>1. CASE lastSeen' = lastSeen
    <3>1. now \in Nat /\ now' \in Nat
      BY <1>1 DEF IInv, TypeOK
    <3>2. lastSeen[u][S] \in Nat /\ lastSeen[u][S] <= now
      BY DEF IInv, TypeOK, ClockInv
    <3> QED
      BY <1>1, <2>1, <3>1, <3>2
  <2>2. ASSUME NEW w \in Changes, WriteChange(w) PROVE lastSeen'[u][S] <= now'
    BY <2>2 DEF WriteChange, IInv, TypeOK, ClockInv
  <2>3. \/ lastSeen' = lastSeen
        \/ \E w \in Changes : WriteChange(w)
    BY DEF Next, vars, Tick, Crash, CheckStep, StartCheck, FetchRoles, StoreRoles, Decide,
           FailCheck, ChangeStep, StartChange, FailChange, ClearUserCache
  <2> QED
    BY <2>1, <2>2, <2>3
<1> QED
  BY <1>2, <1>3 DEF ClockInv

-----------------------------------------------------------------------------
(* The rows in the caches and in the hands of the checks.                  *)

LEMMA NextEntry == IInv /\ [Next]_vars => EntryInv'
<1> SUFFICES ASSUME IInv, [Next]_vars,
                    NEW n \in Instances, NEW u \in Users, cache'[n][u] # None
             PROVE  cache'[n][u].at <= now' /\ AsOfNext(u, cache'[n][u].rows) >= cache'[n][u].at
  BY DEF EntryInv, AsOf, AsOfNext
<1>1. TypeOK /\ TypeOK' /\ now <= now'
  BY NextType, AsOfGrows DEF IInv
<1>2. ASSUME NEW S \in SUBSET Grants
      PROVE  AsOf(u, S) \in Nat /\ AsOfNext(u, S) \in Nat /\ AsOf(u, S) <= AsOfNext(u, S)
  BY AsOfGrows DEF IInv
<1>3. CASE cache'[n][u] = cache[n][u]
  <2> DEFINE e == cache[n][u]
  <2>1. e # None /\ e \in Entry
    BY <1>1, <1>3 DEF TypeOK
  <2>2. e.at <= now /\ AsOf(u, e.rows) >= e.at
    BY <2>1 DEF IInv, EntryInv
  <2>3. e.rows \in SUBSET Grants /\ e.at \in Nat
    BY <2>1 DEF Entry
  <2> HIDE DEF e
  <2>4. e.at <= now' /\ AsOfNext(u, e.rows) >= e.at
    BY <1>1, <1>2, <2>2, <2>3 DEF TypeOK
  <2> QED
    BY <1>3, <2>4 DEF e
<1>4. ASSUME NEW c \in Checks, StoreRoles(c), cache'[n][u] # cache[n][u]
      PROVE  cache'[n][u].at <= now' /\ AsOfNext(u, cache'[n][u].rows) >= cache'[n][u].at
  <2>1. call[c] \in Call /\ cpc[c] = "store" /\ now' = now
    BY <1>1, <1>4 DEF TypeOK, StoreRoles
  <2>2. call[c].user = u /\ cache'[n][u] = [rows |-> rows[c], at |-> call[c].start]
    BY <1>1, <1>4, <2>1 DEF TypeOK, StoreRoles, Call
  <2>3. call[c].start <= now /\ AsOf(u, rows[c]) >= call[c].start
    BY <2>1, <2>2 DEF IInv, RowsInv
  <2>4. rows[c] \in SUBSET Grants /\ call[c].start \in Nat
    BY <1>1, <2>1 DEF TypeOK, Call
  <2>5. AsOfNext(u, rows[c]) >= call[c].start
    BY <1>2, <2>3, <2>4
  <2> QED
    BY <2>1, <2>2, <2>3, <2>5
<1>5. ASSUME NEW w \in Changes, ClearUserCache(w), cache'[n][u] # cache[n][u] PROVE FALSE
  <2>1. change[w] \in Change
    BY <1>1, <1>5 DEF TypeOK, ClearUserCache
  <2>2. cache'[n][u] \in {cache[n][u], None}
    BY <1>1, <1>5, <2>1 DEF TypeOK, ClearUserCache, Change
  <2> QED
    BY <1>5, <2>2
<1>6. ~Crash
  BY DEF Crash
<1>7. \/ cache' = cache
      \/ \E c \in Checks : StoreRoles(c)
      \/ \E w \in Changes : ClearUserCache(w)
  BY <1>6 DEF Next, vars, Tick, CheckStep, StartCheck, FetchRoles, Decide,
              FailCheck, ChangeStep, StartChange, WriteChange, FailChange
<1> QED
  BY <1>3, <1>4, <1>5, <1>7

\* What RowsInv says of one check.
RowsFresh(c) ==
    cpc[c] # "idle" =>
        /\ call[c].start <= now
        /\ cpc[c] = "store" => AsOf(call[c].user, rows[c]) >= call[c].start
        /\ cpc[c] = "decide" => AsOf(call[c].user, rows[c]) > call[c].start - TTL

LEMMA OwnStep ==
    ASSUME IInv, NEW c \in Checks, CheckStep(c)
    PROVE  RowsFresh(c)'
<1> USE DEF IInv
<1>0. now \in Nat /\ TTL \in Nat \ {0} /\ TTL <= now
  BY RoleCacheAssumptions DEF TypeOK, ClockInv
<1>1. ASSUME NEW n \in Instances, NEW u \in Users, NEW names \in Asks,
             StartCheck(c, n, u, names)
      PROVE  RowsFresh(c)'
  <2>1. /\ call'[c].start = now /\ call'[c].user = u
        /\ now' = now /\ db' = db /\ lastSeen' = lastSeen
    BY <1>1 DEF TypeOK, StartCheck
  <2>2. CASE Fresh(cache[n][u])
    <3> DEFINE e == cache[n][u]
    <3>1. e # None /\ e \in Entry /\ now - e.at < TTL
      BY <2>2 DEF Fresh, TypeOK
    <3>2. e.at \in Nat /\ e.rows \in SUBSET Grants
      BY <3>1 DEF Entry
    <3>3. AsOf(u, e.rows) >= e.at /\ AsOf(u, e.rows) \in Nat
      BY <3>1, <3>2, <1>0 DEF EntryInv, AsOf, TypeOK
    <3>4. rows'[c] = e.rows /\ cpc'[c] = "decide"
      BY <1>1, <2>2 DEF TypeOK, StartCheck
    <3> HIDE DEF e
    <3>5. AsOf(u, e.rows) > now - TTL
      BY <1>0, <3>1, <3>2, <3>3
    <3>6. AsOf(call[c].user, rows[c])' = AsOf(u, e.rows)
      BY <2>1, <3>4 DEF AsOf
    <3> QED
      BY <1>0, <2>1, <3>4, <3>5, <3>6 DEF RowsFresh
  <2>3. CASE ~Fresh(cache[n][u])
    <3>1. cpc'[c] = "fetch"
      BY <1>1, <2>3 DEF TypeOK, StartCheck
    <3> QED
      BY <1>0, <2>1, <3>1 DEF RowsFresh
  <2> QED
    BY <2>2, <2>3
<1>2. ASSUME FetchRoles(c) PROVE RowsFresh(c)'
  <2>1. cpc[c] = "fetch" /\ cpc'[c] = "store" /\ call' = call /\ now' = now /\ db' = db
    BY <1>2 DEF FetchRoles, TypeOK
  <2>2. call[c].start <= now
    BY <2>1 DEF RowsInv
  <2>3. rows'[c] = db[call[c].user]
    BY <1>2 DEF FetchRoles, TypeOK
  <2>4. AsOf(call[c].user, rows[c])' = now
    BY <2>1, <2>3 DEF AsOf
  <2> QED
    BY <2>1, <2>2, <2>4 DEF RowsFresh
<1>3. ASSUME StoreRoles(c) PROVE RowsFresh(c)'
  <2>1. /\ cpc[c] = "store" /\ cpc'[c] = "decide"
        /\ call' = call /\ now' = now /\ db' = db /\ rows' = rows /\ lastSeen' = lastSeen
    BY <1>3 DEF StoreRoles, TypeOK
  <2>2. call[c].start <= now /\ AsOf(call[c].user, rows[c]) >= call[c].start
    BY <2>1 DEF RowsInv
  <2>3. call[c] \in Call
    BY <2>1 DEF TypeOK
  <2>4. call[c].start \in Nat /\ AsOf(call[c].user, rows[c]) \in Nat
    BY <2>3 DEF Call, AsOf, TypeOK
  <2>5. AsOf(call[c].user, rows[c])' = AsOf(call[c].user, rows[c])
    BY <2>1 DEF AsOf
  <2>6. AsOf(call[c].user, rows[c]) > call[c].start - TTL
    BY <1>0, <2>2, <2>4
  <2> QED
    BY <2>1, <2>2, <2>5, <2>6 DEF RowsFresh
<1>4. ASSUME Decide(c) \/ FailCheck(c) PROVE RowsFresh(c)'
  <2>1. cpc[c] # "idle" /\ cpc'[c] \in {"allow", "deny", "failed"} /\ call' = call /\ now' = now
    BY <1>4 DEF Decide, FailCheck, TypeOK
  <2> QED
    BY <2>1 DEF RowsFresh, RowsInv
<1> QED
  BY <1>1, <1>2, <1>3, <1>4 DEF CheckStep

\* What a step leaves alone of a check stays as fresh as it was.
LEMMA OthersStep ==
    ASSUME IInv, [Next]_vars, NEW c \in Checks,
           call'[c] = call[c], rows'[c] = rows[c], cpc'[c] \in {cpc[c], "lost"},
           cpc[c] = "idle" => cpc'[c] = "idle"
    PROVE  RowsFresh(c)'
<1>1. CASE cpc[c] = "idle"
  BY <1>1 DEF RowsFresh
<1>2. CASE cpc[c] # "idle"
  <2> DEFINE k == call[c]
             before == AsOf(k.user, rows[c])
             after == AsOfNext(k.user, rows[c])
  <2>1. k \in Call /\ rows[c] \in SUBSET Grants
    BY <1>2 DEF IInv, TypeOK
  <2>2. now <= now' /\ before \in Nat /\ after \in Nat /\ before <= after
    BY <2>1, AsOfGrows DEF IInv, Call
  <2>3. /\ k.start <= now
        /\ cpc[c] = "store" => before >= k.start
        /\ cpc[c] = "decide" => before > k.start - TTL
    BY <1>2 DEF IInv, RowsInv
  <2>4. k.start \in Nat /\ now \in Nat /\ now' \in Nat /\ TTL \in Nat
    BY <2>1, NextType, RoleCacheAssumptions DEF IInv, TypeOK, Call
  <2>5. call'[c] = k /\ AsOf(call[c].user, rows[c])' = after
    BY DEF AsOf, AsOfNext
  <2> HIDE DEF k, before, after
  <2>6. /\ k.start <= now'
        /\ cpc[c] = "store" => after >= k.start
        /\ cpc[c] = "decide" => after > k.start - TTL
    BY <2>2, <2>3, <2>4
  <2> QED
    BY <2>5, <2>6 DEF RowsFresh
<1> QED
  BY <1>1, <1>2

\* A step is a check's own, or leaves what RowsInv says of the check alone.
LEMMA OneCheckMoves ==
    ASSUME TypeOK, [Next]_vars, NEW c \in Checks
    PROVE  \/ CheckStep(c)
           \/ /\ call'[c] = call[c] /\ rows'[c] = rows[c] /\ cpc'[c] \in {cpc[c], "lost"}
              /\ cpc[c] \in {"idle", "allow", "deny"} => cpc'[c] = cpc[c]
<1>1. CASE UNCHANGED checkVars
  BY <1>1 DEF checkVars
<1>2. CASE Crash
  BY <1>2 DEF Crash, TypeOK, CheckRuns
<1>3. ASSUME NEW d \in Checks, d # c, CheckStep(d)
      PROVE  call'[c] = call[c] /\ rows'[c] = rows[c] /\ cpc'[c] = cpc[c]
  BY <1>3 DEF CheckStep, StartCheck, FetchRoles, StoreRoles, Decide, FailCheck, TypeOK
<1>4. Tick \/ (\E w \in Changes : ChangeStep(w)) \/ UNCHANGED vars => UNCHANGED checkVars
  BY DEF Tick, ChangeStep, StartChange, WriteChange, FailChange, ClearUserCache, vars
<1> QED
  BY <1>1, <1>2, <1>3, <1>4 DEF Next

LEMMA NextRows == IInv /\ [Next]_vars => RowsInv'
<1> SUFFICES ASSUME IInv, [Next]_vars, NEW c \in Checks PROVE RowsFresh(c)'
  BY DEF RowsInv, RowsFresh
<1> QED
  BY OwnStep, OthersStep, OneCheckMoves DEF IInv

\* What BoundedStaleness says of one check.
Explained(c) ==
    \E S \in SUBSET Grants :
        /\ AsOf(call[c].user, S) > call[c].start - TTL
        /\ cpc[c] = "allow" <=> HasEventRole(S, Event, Org, call[c].names)

LEMMA NextStaleness == IInv /\ [Next]_vars => BoundedStaleness'
<1> SUFFICES ASSUME IInv, [Next]_vars, NEW c \in Checks, cpc'[c] \in Verdicts
             PROVE  Explained(c)'
  BY DEF BoundedStaleness, Explained
<1>1. CASE CheckStep(c)
  <2>1. Decide(c)
    BY <1>1 DEF CheckStep, StartCheck, FetchRoles, StoreRoles, FailCheck, Verdicts, IInv, TypeOK
  <2>2. /\ cpc[c] = "decide" /\ rows[c] \in SUBSET Grants
        /\ cpc'[c] = IF HasEventRole(rows[c], Event, Org, call[c].names) THEN "allow" ELSE "deny"
        /\ UNCHANGED <<now, db, lastSeen, call>>
    BY <2>1 DEF Decide, IInv, TypeOK
  <2>3. AsOf(call[c].user, rows[c]) > call[c].start - TTL
    BY <2>2 DEF IInv, RowsInv
  <2>4. AsOfNext(call[c].user, rows[c]) > call'[c].start - TTL
    BY <2>2, <2>3 DEF AsOf, AsOfNext
  <2>5. cpc'[c] = "allow" <=> HasEventRole(rows[c], Event, Org, call'[c].names)
    BY <2>2
  <2>6. \E S \in SUBSET Grants :
           /\ AsOfNext(call'[c].user, S) > call'[c].start - TTL
           /\ cpc'[c] = "allow" <=> HasEventRole(S, Event, Org, call'[c].names)
    BY <2>2, <2>4, <2>5
  <2> QED
    BY <2>6 DEF Explained, AsOf, AsOfNext
<1>2. CASE ~CheckStep(c)
  <2>1. call'[c] = call[c] /\ cpc'[c] = cpc[c] /\ cpc[c] \in Verdicts
    BY <1>2, OneCheckMoves DEF IInv, Verdicts
  <2>2. PICK S \in SUBSET Grants :
           /\ AsOf(call[c].user, S) > call[c].start - TTL
           /\ cpc[c] = "allow" <=> HasEventRole(S, Event, Org, call[c].names)
    BY <2>1 DEF IInv, BoundedStaleness
  <2>3. call[c] \in Call
    BY <2>1 DEF IInv, TypeOK, Verdicts
  <2>4. call[c].user \in Users /\ call[c].start \in Nat
    BY <2>3 DEF Call
  <2>5. /\ AsOf(call[c].user, S) \in Nat /\ AsOfNext(call[c].user, S) \in Nat
        /\ AsOf(call[c].user, S) <= AsOfNext(call[c].user, S)
    BY <2>4, AsOfGrows DEF IInv
  <2>6. AsOfNext(call[c].user, S) > call[c].start - TTL
    BY <2>2, <2>4, <2>5, RoleCacheAssumptions
  <2>7. AsOfNext(call'[c].user, S) > call'[c].start - TTL
    BY <2>1, <2>6
  <2>8. cpc'[c] = "allow" <=> HasEventRole(S, Event, Org, call'[c].names)
    BY <2>1, <2>2
  <2> QED
    BY <2>7, <2>8 DEF Explained, AsOf, AsOfNext
<1> QED
  BY <1>1, <1>2

-----------------------------------------------------------------------------
LEMMA InitInv == Init => IInv
<1> SUFFICES ASSUME Init PROVE IInv
  OBVIOUS
<1>1. TypeOK
  BY InitType
<1>2. ClockInv
  BY RoleCacheAssumptions DEF Init, ClockInv
<1>3. EntryInv /\ RowsInv /\ BoundedStaleness
  BY DEF Init, EntryInv, RowsInv, BoundedStaleness, Verdicts
<1> QED
  BY <1>1, <1>2, <1>3 DEF IInv

LEMMA NextInv == IInv /\ [Next]_vars => IInv'
<1> SUFFICES ASSUME IInv, [Next]_vars PROVE IInv'
  OBVIOUS
<1>1. TypeOK'
  BY NextType DEF IInv
<1> QED
  BY <1>1, NextClock, NextEntry, NextRows, NextStaleness DEF IInv

(* The values the cache, the checks and the changes pass around keep their  *)
(* types, whatever the instances, users and grants.                         *)
THEOREM TypeCorrect == Spec => []TypeOK
<1>1. TypeOK /\ [Next]_vars => TypeOK'
  BY NextType
<1> QED
  BY <1>1, InitType, PTL DEF Spec

(* For any number of instances, checks and changes, and any TTL: a decision *)
(* of hasEventRole is the policy's on rows its user really had, not longer  *)
(* than the TTL before the check began.                                     *)
THEOREM StalenessBounded == Spec => []BoundedStaleness
<1>1. IInv => BoundedStaleness
  BY DEF IInv
<1> QED
  BY <1>1, InitInv, NextInv, PTL DEF Spec

-----------------------------------------------------------------------------
(* The settings.                                                           *)

\* What a request is given, by its kind.
LogBodies == [kind : {"logging"}, set : UNION {[K -> LogValues] : K \in SUBSET LogSet}]
SetBodies == [kind : {"settings"}, entries : Patches]

\* What a worker has read, by what it reads it for.
LogSettings   == [LogSet -> LogValues]
OAuthSettings == [Providers -> Configs \cup {Off, Null, Unset}]

\* Where a worker is, what it was given and what it has read go together.
RequestPath(r) ==
    /\ pc[r] # "buildLogger"
    /\ pc[r] \in {"readLog", "save"} => body[r] \in LogBodies
    /\ pc[r] \in {"write", "readOAuth", "use"} => body[r] \in SetBodies
    /\ pc[r] = "write" => body[r].entries # <<>>
    /\ at[r] # 0 => pc[r] = "save"
    /\ pc[r] = "save" => at[r] < Len(LogKeys)

WorkerPath(w) ==
    /\ w \in Requests => RequestPath(w)
    /\ w = "loadLogger" => pc[w] \in {"readLog", "buildLogger"} \cup Ended
    /\ w = "loadOAuth" => pc[w] \in {"readOAuth", "use"} \cup Ended
    /\ pc[w] \in {"save", "buildLogger"} => snap[w] \in LogSettings
    /\ pc[w] = "use" => snap[w] \in OAuthSettings

SettingsPath ==
    /\ \A w \in Workers : WorkerPath(w)
    /\ \A k \in Keys : table[k] \in ValuesOf(k) \cup {Unset}

\* Two workers in one area have met.
SoloInv == \A area \in Areas : \A v, w \in Busy(area) : v # w => v \in met

\* What an undisturbed worker holds agrees with the table: the rows it has
\* saved, those it was not given, and all of what it has only read.
InStep(w) ==
    w \notin met =>
        /\ pc[w] = "save" => \A i \in 1..at[w] : table[LogKeys[i]] = snap[w][LogKeys[i]]
        /\ w \notin blind =>
              /\ pc[w] = "save" => \A k \in LogSet \ DOMAIN body[w].set : snap[w][k] = Effective[k]
              /\ pc[w] = "buildLogger" => snap[w] = Effective
              /\ pc[w] = "use" => \A p \in Providers : snap[w][p] = table[p]

InStepInv == \A w \in Workers : InStep(w)

\* What was built is current once the process has loaded and no PATCH is half way.
LiveInv ==
    "logger" \notin torn /\ pc["loadLogger"] \notin Running /\ (\A r \in Requests : at[r] = 0) =>
        live = Effective

StrategyInv ==
    "oauth" \notin torn /\ pc["loadOAuth"] \notin Running =>
        \A p \in Reached(table) : table[p] \in Configs => strategy[p] = table[p]

SettingsInv ==
    /\ SettingsTypeOK /\ SettingsPath /\ SoloInv
    /\ InStepInv /\ LiveInv /\ StrategyInv

-----------------------------------------------------------------------------
(* What is given and what is read.                                         *)

LEMMA WorkerFacts ==
    /\ "loadLogger" \in Workers /\ "loadOAuth" \in Workers
    /\ "loadLogger" \notin Requests /\ "loadOAuth" \notin Requests
    /\ \A w \in Workers : w \in Requests \/ w = "loadLogger" \/ w = "loadOAuth"
    /\ \A w \in Workers : w \in Loads <=> w \notin Requests
  BY SettingsAssumptions DEF Workers, Loads

LEMMA TwoBodies == Bodies = LogBodies \cup SetBodies
  BY DEF Bodies, LogBodies, SetBodies

\* A row written for a key holds a value of that key.
LEMMA EntryFacts ==
    ASSUME NEW e \in SettingEntry, e.value # Bad
    PROVE  /\ e.key \in Keys /\ e.value \in ValuesOf(e.key)
           /\ e.value \in Values
<1>1. PICK k \in Keys : e \in [key : {k}, value : ValuesOf(k)]
  BY DEF SettingEntry
<1>2. e.key = k /\ e.value \in ValuesOf(k)
  BY <1>1
<1>3. ValuesOf(k) \subseteq Values
  BY DEF ValuesOf, Values
<1> QED
  BY <1>2, <1>3, Zenon

LEMMA KeyFacts ==
    /\ \A k \in LogSet : k \in Keys /\ ValuesOf(k) = LogValues /\ KeyArea(k) = "logger" /\ k \notin Providers
    /\ \A p \in Providers : p \in Keys /\ ValuesOf(p) = Configs \cup {Off, Null} /\ KeyArea(p) = "oauth" /\ p \notin LogSet
  BY SettingsAssumptions DEF Keys, ValuesOf, KeyArea

\* Which providers are looked at depends on the settings of providers alone.
LEMMA ReachedSame ==
    ASSUME NEW s, NEW t, \A p \in Providers : s[p] = t[p]
    PROVE  Reached(s) = Reached(t) /\ Reached(s) \subseteq Providers
<1>1. DOMAIN ProviderKeys = 1 .. Len(ProviderKeys) /\ Len(ProviderKeys) \in Nat
  BY SettingsAssumptions, LenProperties
<1>2. \A i \in DOMAIN ProviderKeys : ProviderKeys[i] \in Providers
  BY <1>1, SettingsAssumptions, ElementOfSeq
<1>3. \A n \in DOMAIN ProviderKeys : \A j \in 1 .. n : j \in DOMAIN ProviderKeys
  BY <1>1
<1>4. \A n \in DOMAIN ProviderKeys : \A j \in 1 .. n : s[ProviderKeys[j]] = t[ProviderKeys[j]]
  BY <1>2, <1>3
<1> QED
  BY <1>2, <1>4 DEF Reached

\* What is left of a settings PATCH is one too, with fewer keys.
LEMMA RestOfPatch ==
    ASSUME NEW s \in Patches, s # <<>>
    PROVE  /\ Head(s) \in SettingEntry /\ Head(s) = s[1] /\ 1 \in DOMAIN s
           /\ Tail(s) \in Patches
           /\ \A i \in DOMAIN Tail(s) : i + 1 \in DOMAIN s /\ Tail(s)[i] = s[i + 1]
<1>1. PICK n \in 0..MaxEntries : s \in [1..n -> SettingEntry]
  BY DEF Patches, SeqOf
<1>2. n \in Nat /\ n <= MaxEntries /\ MaxEntries \in Nat /\ s \in Seq(SettingEntry) /\ Len(s) = n
  BY <1>1, SettingsAssumptions, SeqDef
<1>3. n > 0 /\ DOMAIN s = 1..n
  BY <1>1, <1>2, EmptySeq
<1>4. /\ Head(s) = s[1] /\ Tail(s) \in Seq(SettingEntry) /\ Len(Tail(s)) = n - 1
      /\ \A i \in 1..(n - 1) : Tail(s)[i] = s[i + 1]
  BY <1>2, HeadTailProperties
<1>5. Tail(s) \in [1..(n - 1) -> SettingEntry] /\ n - 1 \in 0..MaxEntries
  <2>1. Tail(s) \in [1..Len(Tail(s)) -> SettingEntry]
    BY <1>4, LenProperties
  <2>2. n - 1 \in 0..MaxEntries
    BY <1>2, <1>3
  <2> QED
    BY <1>4, <2>1, <2>2
<1>6. Tail(s) \in SeqOf(SettingEntry, MaxEntries)
  BY <1>5 DEF SeqOf
<1>7. \A i \in DOMAIN Tail(s) : i + 1 \in DOMAIN s /\ Tail(s)[i] = s[i + 1]
  BY <1>2, <1>3, <1>4, <1>5
<1>8. ASSUME NEW i \in DOMAIN Tail(s), NEW j \in DOMAIN Tail(s), Tail(s)[i].key = Tail(s)[j].key
      PROVE  i = j
  <2>1. i + 1 = j + 1 /\ i \in Int /\ j \in Int
    BY <1>2, <1>5, <1>7, <1>8 DEF Patches
  <2> QED
    BY <2>1
<1>9. ASSUME NEW i \in DOMAIN Tail(s), Tail(s)[i].value = Bad
      PROVE  i = Len(Tail(s))
  <2>1. i + 1 = Len(s) /\ i \in Int
    BY <1>2, <1>5, <1>7, <1>9 DEF Patches
  <2> QED
    BY <1>2, <1>4, <2>1
<1>10. Tail(s) \in Patches
  BY <1>6, <1>8, <1>9 DEF Patches
<1>11. 1 \in DOMAIN s
  BY <1>2, <1>3
<1>12. Head(s) \in SettingEntry
  BY <1>1, <1>3, <1>4, <1>11
<1> QED
  BY <1>4, <1>7, <1>10, <1>11, <1>12

LEMMA EffectiveType ==
    ASSUME SettingsPath
    PROVE  Effective \in LogSettings /\ Defaults \in LogSettings
  BY KeyFacts, SettingsAssumptions DEF SettingsPath, Effective, Defaults, LogSettings

LEMMA MergedType ==
    ASSUME NEW w \in Workers, w \in Requests => body[w] \in LogBodies, NEW read \in LogSettings
    PROVE  /\ Merged(w, read) \in LogSettings
           /\ w \in Requests => \A k \in LogSet \ DOMAIN body[w].set : Merged(w, read)[k] = read[k]
           /\ w \notin Requests => Merged(w, read) = read
<1>1. CASE w \notin Requests
  BY <1>1, WorkerFacts DEF Merged
<1>2. CASE w \in Requests
  <2>1. PICK K \in SUBSET LogSet : body[w].set \in [K -> LogValues]
    BY <1>2 DEF LogBodies
  <2>2. Merged(w, read) = [k \in LogSet |-> IF k \in DOMAIN body[w].set THEN body[w].set[k] ELSE read[k]]
    BY <1>2, WorkerFacts DEF Merged
  <2>3. \A k \in LogSet : (IF k \in DOMAIN body[w].set THEN body[w].set[k] ELSE read[k]) \in LogValues
    BY <2>1 DEF LogSettings
  <2> QED
    BY <1>2, <2>2, <2>3 DEF LogSettings
<1> QED
  BY <1>1, <1>2

\* Who is at work in an area, before a step and after it.
LEMMA BusyIs ==
    ASSUME NEW area
    PROVE  /\ \A r \in Requests :
                 /\ r \in Busy(area) <=> pc[r] \in Running /\ area \in AreaOf(body[r])
                 /\ r \in Busy(area)' <=> pc'[r] \in Running /\ area \in AreaOf(body'[r])
           /\ "loadLogger" \in Busy(area) <=> pc["loadLogger"] \in Running /\ area = "logger"
           /\ "loadLogger" \in Busy(area)' <=> pc'["loadLogger"] \in Running /\ area = "logger"
           /\ "loadOAuth" \in Busy(area) <=> pc["loadOAuth"] \in Running /\ area = "oauth"
           /\ "loadOAuth" \in Busy(area)' <=> pc'["loadOAuth"] \in Running /\ area = "oauth"
           /\ Busy(area) \subseteq Workers /\ Busy(area)' \subseteq Workers
<1>1. ASSUME NEW r \in Requests
      PROVE  /\ r \in Busy(area) <=> pc[r] \in Running /\ area \in AreaOf(body[r])
             /\ r \in Busy(area)' <=> pc'[r] \in Running /\ area \in AreaOf(body'[r])
  <2>1. r \in Workers /\ r # "loadLogger" /\ r # "loadOAuth"
    BY WorkerFacts DEF Workers
  <2> QED
    BY <2>1 DEF Busy
<1> QED
  BY <1>1, WorkerFacts DEF Busy

LEMMA AreasOf ==
    /\ \A b \in LogBodies : AreaOf(b) = {"logger"}
    /\ \A b \in SetBodies : "oauth" \in AreaOf(b) /\ AreaOf(b) \subseteq Areas
  BY DEF LogBodies, SetBodies, AreaOf, KeyArea, Areas

\* Whoever holds settings to save, build or use is at work in their area.
LEMMA HoldersBusy ==
    ASSUME SettingsPath, NEW w \in Workers
    PROVE  /\ pc[w] \in {"save", "buildLogger"} => w \in Busy("logger")
           /\ pc[w] = "use" => w \in Busy("oauth")
           /\ pc[w] = "save" => w \in Requests
           /\ pc[w] = "buildLogger" => w = "loadLogger"
<1>1. CASE w \in Requests
  BY <1>1, BusyIs, AreasOf DEF SettingsPath, WorkerPath, RequestPath, Running
<1>2. CASE w = "loadLogger"
  BY <1>2, BusyIs DEF SettingsPath, WorkerPath, Running, Ended
<1>3. CASE w = "loadOAuth"
  BY <1>3, BusyIs DEF SettingsPath, WorkerPath, Running, Ended
<1> QED
  BY <1>1, <1>2, <1>3, WorkerFacts

-----------------------------------------------------------------------------
(* A step of one worker, and what it leaves to the others.                 *)

\* No worker but a moves.
OnlyMoves(a) ==
    /\ \A w \in Workers \ {a} : pc'[w] = pc[w] /\ snap'[w] = snap[w]
    /\ \A r \in Requests \ {a} : body'[r] = body[r] /\ at'[r] = at[r]
    /\ met \subseteq met' /\ blind \subseteq blind'

\* What worker a may write: rows of the areas it is at work in.
WritesOwn(a) ==
    /\ a \notin Busy("logger") => \A k \in LogSet : table'[k] = table[k]
    /\ a \notin Busy("oauth") => \A p \in Providers : table'[p] = table[p]

\* It enters no area.
Narrows(a) ==
    pc'[a] \in Running =>
        pc[a] \in Running /\ (a \in Requests => AreaOf(body'[a]) \subseteq AreaOf(body[a]))

LEMMA PathKept ==
    ASSUME SettingsPath, NEW a \in Workers, OnlyMoves(a), WorkerPath(a)',
           \A k \in Keys : table'[k] \in ValuesOf(k) \cup {Unset}
    PROVE  SettingsPath'
<1>1. ASSUME NEW w \in Workers PROVE WorkerPath(w)'
  <2>1. CASE w = a
    BY <2>1
  <2>2. CASE w # a
    <3>1. WorkerPath(w) /\ pc'[w] = pc[w] /\ snap'[w] = snap[w]
      BY <2>2 DEF SettingsPath, OnlyMoves
    <3>2. w \in Requests => body'[w] = body[w] /\ at'[w] = at[w]
      BY <2>2 DEF OnlyMoves
    <3> QED
      BY <3>1, <3>2 DEF WorkerPath, RequestPath
  <2> QED
    BY <2>1, <2>2
<1> QED
  BY <1>1 DEF SettingsPath

LEMMA SoloKept ==
    ASSUME SoloInv, NEW a \in Workers, OnlyMoves(a), Narrows(a)
    PROVE  SoloInv'
<1>1. ASSUME NEW area \in Areas, NEW w \in Busy(area)' PROVE w \in Busy(area)
  <2>1. w \in Workers
    BY <1>1, BusyIs
  <2>2. CASE w \in Requests
    <3>1. pc'[w] \in Running /\ area \in AreaOf(body'[w])
      BY <1>1, <2>2, BusyIs
    <3>2. pc[w] \in Running /\ area \in AreaOf(body[w])
      BY <2>1, <2>2, <3>1 DEF OnlyMoves, Narrows
    <3> QED
      BY <2>2, <3>2, BusyIs
  <2>3. CASE w = "loadLogger"
    <3>1. pc'[w] \in Running /\ area = "logger"
      BY <1>1, <2>3, BusyIs
    <3>2. pc[w] \in Running
      BY <2>1, <3>1 DEF OnlyMoves, Narrows
    <3> QED
      BY <2>3, <3>1, <3>2, BusyIs
  <2>4. CASE w = "loadOAuth"
    <3>1. pc'[w] \in Running /\ area = "oauth"
      BY <1>1, <2>4, BusyIs
    <3>2. pc[w] \in Running
      BY <2>1, <3>1 DEF OnlyMoves, Narrows
    <3> QED
      BY <2>4, <3>1, <3>2, BusyIs
  <2> QED
    BY <2>1, <2>2, <2>3, <2>4, WorkerFacts
<1>2. met \subseteq met'
  BY DEF OnlyMoves
<1> QED
  BY <1>1, <1>2 DEF SoloInv

\* Whoever holds settings undisturbed shares its area with nobody, so no other
\* worker changes the rows it has seen.
LEMMA InStepKept ==
    ASSUME SettingsTypeOK, SettingsPath, SoloInv, InStepInv,
           NEW a \in Workers, OnlyMoves(a), WritesOwn(a),
           NEW w \in Workers, w # a
    PROVE  InStep(w)'
<1> SUFFICES ASSUME w \notin met'
             PROVE  InStep(w)'
  BY DEF InStep
<1>1. /\ InStep(w) /\ w \notin met /\ pc'[w] = pc[w] /\ snap'[w] = snap[w]
      /\ w \notin blind' => w \notin blind
  BY DEF InStepInv, OnlyMoves
<1>2. w \in Requests => body'[w] = body[w] /\ at'[w] = at[w]
  BY DEF OnlyMoves
<1>3. CASE pc[w] \in {"save", "buildLogger"}
  <2>1. w \in Busy("logger")
    BY <1>3, HoldersBusy
  <2>2. a \notin Busy("logger")
    BY <1>1, <2>1 DEF SoloInv, Areas
  <2>3. \A k \in LogSet : table'[k] = table[k]
    BY <2>2 DEF WritesOwn
  <2>4. Effective' = Effective
    BY <2>3 DEF Effective
  <2>5. \A i \in 1..Len(LogKeys) : LogKeys[i] \in LogSet
    BY SettingsAssumptions, ElementOfSeq
  <2>6. CASE pc[w] = "save"
    <3>1. w \in Requests /\ RequestPath(w)
      BY <2>6, HoldersBusy DEF SettingsPath, WorkerPath
    <3>2. \A i \in 1..at[w] : table'[LogKeys[i]] = table[LogKeys[i]]
      <4>1. at[w] \in Nat /\ at[w] < Len(LogKeys) /\ Len(LogKeys) \in Nat
        BY <2>6, <3>1, LenProperties, SettingsAssumptions DEF RequestPath, SettingsTypeOK
      <4>2. \A i \in 1..at[w] : i \in 1..Len(LogKeys)
        BY <4>1
      <4> QED
        BY <2>3, <2>5, <4>2
    <3> QED
      BY <1>1, <1>2, <2>4, <2>6, <3>1, <3>2 DEF InStep
  <2>7. CASE pc[w] = "buildLogger"
    BY <1>1, <2>4, <2>7 DEF InStep
  <2> QED
    BY <1>3, <2>6, <2>7
<1>4. CASE pc[w] = "use"
  <2>1. w \in Busy("oauth")
    BY <1>4, HoldersBusy
  <2>2. a \notin Busy("oauth")
    BY <1>1, <2>1 DEF SoloInv, Areas
  <2>3. \A p \in Providers : table'[p] = table[p]
    BY <2>2 DEF WritesOwn
  <2> QED
    BY <1>1, <1>4, <2>3 DEF InStep
<1>5. CASE pc[w] \notin {"save", "buildLogger", "use"}
  BY <1>1, <1>5 DEF InStep
<1> QED
  BY <1>3, <1>4, <1>5

LEMMA WorkerStep ==
    ASSUME SettingsInv, NEW a \in Workers, OnlyMoves(a), WritesOwn(a), Narrows(a),
           SettingsTypeOK', WorkerPath(a)', \A k \in Keys : table'[k] \in ValuesOf(k) \cup {Unset},
           InStep(a)', LiveInv', StrategyInv'
    PROVE  SettingsInv'
<1>1. SettingsPath' /\ SoloInv'
  BY PathKept, SoloKept DEF SettingsInv
<1>2. InStepInv'
  BY InStepKept DEF SettingsInv, InStepInv
<1> QED
  BY <1>1, <1>2 DEF SettingsInv

\* A worker that ends gives back all it held.
LEMMA Leaves ==
    ASSUME SettingsTypeOK, NEW w \in Workers, NEW how \in Ended, Leave(w, how),
           met' = met, blind' = blind
    PROVE  /\ pc' \in [Workers -> {"new"} \cup Running \cup Ended]
           /\ body' \in [Requests -> Bodies \cup {Unset}]
           /\ snap' \in [Workers -> [LogSet -> LogValues]
                                     \cup [Providers -> Configs \cup {Off, Null, Unset}] \cup {Unset}]
           /\ at' \in [Requests -> Nat]
           /\ OnlyMoves(w) /\ Narrows(w) /\ WorkerPath(w)' /\ InStep(w)'
           /\ pc'[w] = how /\ (w \in Requests => at'[w] = 0)
<1>1. /\ pc' = [pc EXCEPT ![w] = how] /\ snap' = [snap EXCEPT ![w] = Unset]
      /\ body' = [r \in Requests |-> IF r = w THEN Unset ELSE body[r]]
      /\ at' = [r \in Requests |-> IF r = w THEN 0 ELSE at[r]]
  BY DEF Leave, Goto
<1>2. /\ pc' \in [Workers -> {"new"} \cup Running \cup Ended]
      /\ pc'[w] = how /\ \A v \in Workers \ {w} : pc'[v] = pc[v]
  BY <1>1 DEF SettingsTypeOK
<1>3. /\ snap' \in [Workers -> [LogSet -> LogValues]
                                \cup [Providers -> Configs \cup {Off, Null, Unset}] \cup {Unset}]
      /\ \A v \in Workers \ {w} : snap'[v] = snap[v]
  BY <1>1 DEF SettingsTypeOK
<1>4. /\ body' \in [Requests -> Bodies \cup {Unset}]
      /\ \A r \in Requests \ {w} : body'[r] = body[r]
  BY <1>1 DEF SettingsTypeOK
<1>5. /\ at' \in [Requests -> Nat]
      /\ \A r \in Requests \ {w} : at'[r] = at[r]
      /\ w \in Requests => at'[w] = 0
  BY <1>1 DEF SettingsTypeOK
<1>6. OnlyMoves(w)
  BY <1>2, <1>3, <1>4, <1>5 DEF OnlyMoves
<1>7. how \notin Running \cup {"new"}
  BY DEF Ended, Running
<1>8. Narrows(w)
  BY <1>2, <1>7 DEF Narrows
<1>9. WorkerPath(w)'
  BY <1>2, <1>5, <1>7, WorkerFacts DEF WorkerPath, RequestPath, Running
<1>10. InStep(w)'
  BY <1>2, <1>7 DEF InStep, Running
<1> QED
  BY <1>2, <1>3, <1>4, <1>5, <1>6, <1>8, <1>9, <1>10

-----------------------------------------------------------------------------
(* The logger.                                                             *)

LEMMA ReadLogKeeps ==
    ASSUME SettingsInv, NEW w \in Workers, ReadLog(w)
    PROVE  SettingsInv'
<1>1. PICK read \in LogSettings :
         /\ snap' = [snap EXCEPT ![w] = Merged(w, read)]
         /\ \/ read = Effective /\ blind' = blind
            \/ blind' = blind \cup {w}
  <2>1. Effective \in LogSettings /\ Defaults \in LogSettings
    BY EffectiveType DEF SettingsInv
  <2> QED
    BY <2>1 DEF ReadLog
<1>2. /\ pc[w] = "readLog"
      /\ pc' = [pc EXCEPT ![w] = IF w \in Loads THEN "buildLogger" ELSE "save"]
      /\ UNCHANGED <<table, live, strategy, body, at, met, torn>>
  BY DEF ReadLog, Goto, processVars
<1>3. /\ w \in Requests => RequestPath(w) /\ at[w] = 0 /\ body[w] \in LogBodies
      /\ w # "loadOAuth"
  BY <1>2 DEF SettingsInv, SettingsPath, WorkerPath, RequestPath, Ended
<1>4. SettingsTypeOK /\ SettingsPath /\ WorkerPath(w)
  BY DEF SettingsInv, SettingsPath
<1> DEFINE new == Merged(w, read)
<1>5. /\ new \in LogSettings
      /\ w \in Requests => \A k \in LogSet \ DOMAIN body[w].set : new[k] = read[k]
      /\ w \notin Requests => new = read
  BY <1>3, MergedType
<1>6. snap' = [snap EXCEPT ![w] = new]
  BY <1>1
<1> HIDE DEF new
<1>7. pc'[w] = IF w \in Requests THEN "save" ELSE "buildLogger"
  BY <1>2, <1>4, WorkerFacts DEF SettingsTypeOK
<1>8. snap'[w] = new
  BY <1>4, <1>6 DEF SettingsTypeOK
<1>9. SettingsTypeOK'
  <2>1. snap' \in [Workers -> [LogSet -> LogValues] \cup [Providers -> Configs \cup {Off, Null, Unset}] \cup {Unset}]
    BY <1>4, <1>5, <1>6 DEF SettingsTypeOK, LogSettings
  <2>2. pc' \in [Workers -> {"new"} \cup Running \cup Ended]
    BY <1>2, <1>4 DEF SettingsTypeOK, Running
  <2>3. blind' \subseteq Workers
    BY <1>1, <1>4 DEF SettingsTypeOK
  <2> QED
    BY <1>2, <1>4, <2>1, <2>2, <2>3 DEF SettingsTypeOK
<1>10. OnlyMoves(w)
  BY <1>1, <1>2, <1>4 DEF OnlyMoves, SettingsTypeOK
<1>11. WritesOwn(w) /\ \A k \in Keys : table'[k] \in ValuesOf(k) \cup {Unset}
  BY <1>2, <1>4 DEF WritesOwn, SettingsPath
<1>12. Narrows(w)
  BY <1>2 DEF Narrows, Running
<1>13. WorkerPath(w)'
  <2>1. CASE w \in Requests
    <3>1. RequestPath(w)'
      <4>1. 0 < Len(LogKeys)
        BY SettingsAssumptions, LenProperties, EmptySeq
      <4> QED
        BY <1>2, <1>3, <1>7, <2>1, <4>1 DEF RequestPath
    <3> QED
      BY <1>5, <1>7, <1>8, <2>1, <3>1, WorkerFacts DEF WorkerPath
  <2>2. CASE w \notin Requests
    BY <1>3, <1>5, <1>7, <1>8, <2>2 DEF WorkerPath
  <2> QED
    BY <2>1, <2>2
<1>14. InStep(w)'
  <2>1. Effective' = Effective
    BY <1>2 DEF Effective
  <2>2. CASE w \in Requests
    <3>1. pc'[w] = "save" /\ at'[w] = 0 /\ body'[w] = body[w]
      BY <1>2, <1>3, <1>7, <2>2
    <3>2. w \notin blind' => \A k \in LogSet \ DOMAIN body[w].set : new[k] = Effective[k]
      BY <1>1, <1>5, <2>2
    <3> QED
      BY <1>8, <2>1, <3>1, <3>2 DEF InStep
  <2>3. CASE w \notin Requests
    <3>1. pc'[w] = "buildLogger" /\ (w \notin blind' => new = Effective)
      BY <1>1, <1>5, <1>7, <2>3
    <3> QED
      BY <1>8, <2>1, <3>1 DEF InStep
  <2> QED
    BY <2>2, <2>3
<1>15. LiveInv' /\ StrategyInv'
  <2>1. /\ pc["loadLogger"] \in Running => pc'["loadLogger"] \in Running
        /\ pc'["loadOAuth"] = pc["loadOAuth"]
    BY <1>2, <1>3, <1>4, <1>7, WorkerFacts DEF SettingsTypeOK, Running
  <2>2. LiveInv /\ StrategyInv
    BY DEF SettingsInv
  <2> QED
    BY <1>2, <2>1, <2>2 DEF LiveInv, StrategyInv, Effective
<1> QED
  BY <1>9, <1>10, <1>11, <1>12, <1>13, <1>14, <1>15, WorkerStep

LEMMA BuildLoggerKeeps ==
    ASSUME SettingsInv, BuildLogger
    PROVE  SettingsInv'
<1> DEFINE a == "loadLogger"
<1>1. /\ pc[a] = "buildLogger" /\ Leave(a, "done")
      /\ \/ live' = snap[a] /\ Rebuilt(a, "logger", a \notin blind)
         \/ live' = Defaults /\ Rebuilt(a, "logger", FALSE)
      /\ UNCHANGED <<table, strategy, met, blind>>
  BY DEF BuildLogger
<1>2. /\ SettingsTypeOK /\ SettingsPath /\ a \in Workers /\ a \notin Requests /\ WorkerPath(a) /\ InStep(a)
      /\ LiveInv /\ StrategyInv
  BY WorkerFacts DEF SettingsInv, SettingsPath, InStepInv
<1>3. /\ pc' \in [Workers -> {"new"} \cup Running \cup Ended]
      /\ body' \in [Requests -> Bodies \cup {Unset}]
      /\ snap' \in [Workers -> [LogSet -> LogValues]
                                \cup [Providers -> Configs \cup {Off, Null, Unset}] \cup {Unset}]
      /\ at' \in [Requests -> Nat]
      /\ OnlyMoves(a) /\ Narrows(a) /\ WorkerPath(a)' /\ InStep(a)'
      /\ pc'[a] = "done"
  <2>1. "done" \in Ended
    BY DEF Ended
  <2> QED
    BY <1>1, <1>2, <2>1, Leaves
<1>4. live' \in LogSettings
  BY <1>1, <1>2, EffectiveType DEF WorkerPath
<1>5. torn' \subseteq Areas /\ ("oauth" \in torn' <=> "oauth" \in torn)
      /\ ("logger" \notin torn' => live' = snap[a] /\ a \notin met \cup blind)
  BY <1>1, <1>2 DEF Rebuilt, SettingsTypeOK, Areas
<1>6. SettingsTypeOK'
  BY <1>1, <1>2, <1>3, <1>4, <1>5 DEF SettingsTypeOK, LogSettings
<1>7. LiveInv'
  <2>1. "logger" \notin torn' => snap[a] = Effective
    BY <1>1, <1>2, <1>5 DEF InStep
  <2>2. Effective' = Effective
    BY <1>1 DEF Effective
  <2> QED
    BY <1>5, <2>1, <2>2 DEF LiveInv
<1>8. StrategyInv'
  <2>1. pc'["loadOAuth"] = pc["loadOAuth"]
    BY <1>3, WorkerFacts DEF OnlyMoves
  <2> QED
    BY <1>1, <1>2, <1>5, <2>1 DEF StrategyInv
<1>9. WritesOwn(a) /\ \A k \in Keys : table'[k] \in ValuesOf(k) \cup {Unset}
  BY <1>1, <1>2 DEF WritesOwn, SettingsPath
<1> QED
  BY <1>2, <1>3, <1>6, <1>7, <1>8, <1>9, WorkerStep

\* Once all rows are saved, the table holds the settings that were saved.
LEMMA SaveLogKeeps ==
    ASSUME SettingsInv, NEW r \in Requests, SaveLog(r)
    PROVE  SettingsInv'
<1> DEFINE k == LogKeys[at[r] + 1]
<1>1. /\ pc[r] = "save" /\ table' = [table EXCEPT ![k] = snap[r][k]]
      /\ UNCHANGED <<strategy, met, blind>>
  BY DEF SaveLog
<1>2. /\ SettingsTypeOK /\ SettingsPath /\ r \in Workers /\ WorkerPath(r) /\ RequestPath(r)
      /\ InStep(r) /\ LiveInv /\ StrategyInv
  BY DEF SettingsInv, SettingsPath, InStepInv, WorkerPath, Workers
<1>3. /\ at[r] \in Nat /\ at[r] < Len(LogKeys) /\ Len(LogKeys) \in Nat
      /\ body[r] \in LogBodies /\ snap[r] \in LogSettings
  BY <1>1, <1>2, SettingsAssumptions, LenProperties DEF SettingsTypeOK, RequestPath, WorkerPath
<1>4. \A i \in 1..Len(LogKeys) : LogKeys[i] \in LogSet
  BY SettingsAssumptions, ElementOfSeq
<1>5. k \in LogSet /\ k \in Keys /\ ValuesOf(k) = LogValues /\ snap[r][k] \in LogValues
  BY <1>3, <1>4, KeyFacts DEF LogSettings
<1> HIDE DEF k
<1>6. \A j \in Keys : table'[j] = IF j = k THEN snap[r][k] ELSE table[j]
  BY <1>1, <1>2 DEF SettingsTypeOK
<1>7. /\ table' \in [Keys -> Values \cup {Unset}]
      /\ \A j \in Keys : table'[j] \in ValuesOf(j) \cup {Unset}
  <2>1. snap[r][k] \in Values
    BY <1>5 DEF Values
  <2>2. table' \in [Keys -> Values \cup {Unset}]
    BY <1>1, <1>2, <2>1 DEF SettingsTypeOK
  <2> QED
    BY <1>2, <1>5, <1>6, <2>2 DEF SettingsPath
<1>8. r \in Busy("logger") /\ WritesOwn(r)
  <2>1. r \in Busy("logger")
    BY <1>1, <1>2, HoldersBusy
  <2>2. \A p \in Providers : table'[p] = table[p]
    BY <1>5, <1>6, KeyFacts
  <2> QED
    BY <2>1, <2>2 DEF WritesOwn
<1>10. \A p \in Providers : table'[p] = table[p]
  BY <1>5, <1>6, KeyFacts
<1>11. r \notin met => \A i \in 1..(at[r] + 1) : table'[LogKeys[i]] = snap[r][LogKeys[i]]
  <2> SUFFICES ASSUME r \notin met, NEW i \in 1..(at[r] + 1)
               PROVE  table'[LogKeys[i]] = snap[r][LogKeys[i]]
    OBVIOUS
  <2>1. i \in 1..Len(LogKeys) /\ (i = at[r] + 1 \/ i \in 1..at[r])
    BY <1>3
  <2>2. LogKeys[i] \in Keys
    BY <1>4, <2>1, KeyFacts
  <2>3. CASE LogKeys[i] = k
    BY <1>6, <2>2, <2>3
  <2>4. CASE LogKeys[i] # k
    <3>1. i \in 1..at[r]
      BY <2>1, <2>4 DEF k
    <3>2. table[LogKeys[i]] = snap[r][LogKeys[i]]
      BY <1>1, <1>2, <3>1 DEF InStep
    <3> QED
      BY <1>6, <2>2, <2>4, <3>2
  <2> QED
    BY <2>3, <2>4
<1>12. CASE at[r] + 1 = Len(LogKeys)
  <2>1. PICK how \in {"done", "failed"} :
           /\ Leave(r, how)
           /\ \/ live' = snap[r] /\ Rebuilt(r, "logger", TRUE)
              \/ live' = live /\ Rebuilt(r, "logger", FALSE)
    BY <1>12 DEF SaveLog
  <2>2. /\ pc' \in [Workers -> {"new"} \cup Running \cup Ended]
        /\ body' \in [Requests -> Bodies \cup {Unset}]
        /\ snap' \in [Workers -> [LogSet -> LogValues]
                                  \cup [Providers -> Configs \cup {Off, Null, Unset}] \cup {Unset}]
        /\ at' \in [Requests -> Nat]
        /\ OnlyMoves(r) /\ Narrows(r) /\ WorkerPath(r)' /\ InStep(r)'
    <3>1. how \in Ended
      BY DEF Ended
    <3> QED
      BY <1>1, <1>2, <2>1, <3>1, Leaves
  <2>3. torn' \subseteq Areas /\ ("oauth" \in torn' <=> "oauth" \in torn)
        /\ ("logger" \notin torn' => live' = snap[r] /\ r \notin met)
    BY <1>2, <2>1 DEF Rebuilt, SettingsTypeOK, Areas
  <2>4. SettingsTypeOK'
    BY <1>1, <1>2, <1>3, <1>7, <2>1, <2>2, <2>3 DEF SettingsTypeOK, LogSettings
  <2>5. r \notin met => \A j \in LogSet : table'[j] = snap[r][j]
    <3>1. ASSUME NEW j \in LogSet PROVE \E i \in 1..(at[r] + 1) : LogKeys[i] = j
      BY <1>3, <1>12, SettingsAssumptions, LenProperties DEF LogSet, ToSet
    <3> QED
      BY <1>11, <3>1
  <2>6. r \notin met => Effective' = snap[r]
    <3> SUFFICES ASSUME r \notin met PROVE Effective' = snap[r]
      OBVIOUS
    <3>1. \A j \in LogSet : table'[j] = snap[r][j] /\ snap[r][j] # Unset
      BY <1>3, <2>5, SettingsAssumptions DEF LogSettings, Values
    <3>2. Effective' = [j \in LogSet |-> snap[r][j]]
      BY <3>1 DEF Effective
    <3> QED
      BY <1>3, <3>2 DEF LogSettings
  <2>7. LiveInv'
    BY <2>3, <2>6 DEF LiveInv
  <2>8. StrategyInv'
    <3>1. pc'["loadOAuth"] = pc["loadOAuth"]
      BY <2>2, WorkerFacts DEF OnlyMoves
    <3> QED
      BY <1>1, <1>2, <1>10, <2>3, <3>1, ReachedSame DEF StrategyInv
  <2> QED
    BY <1>2, <1>7, <1>8, <2>2, <2>4, <2>7, <2>8, WorkerStep
<1>13. CASE at[r] + 1 # Len(LogKeys)
  <2>1. at' = [at EXCEPT ![r] = @ + 1] /\ UNCHANGED <<pc, body, snap, live, torn>>
    BY <1>13 DEF SaveLog
  <2>2. at' \in [Requests -> Nat] /\ at'[r] = at[r] + 1 /\ \A q \in Requests \ {r} : at'[q] = at[q]
    BY <1>2, <1>3, <2>1 DEF SettingsTypeOK
  <2>3. SettingsTypeOK'
    BY <1>1, <1>2, <1>7, <2>1, <2>2 DEF SettingsTypeOK
  <2>4. OnlyMoves(r) /\ Narrows(r)
    BY <1>1, <2>1, <2>2 DEF OnlyMoves, Narrows
  <2>5. WorkerPath(r)'
    <3>1. RequestPath(r)'
      BY <1>1, <1>2, <1>3, <1>13, <2>1, <2>2 DEF RequestPath
    <3> QED
      BY <1>2, <2>1, <3>1 DEF WorkerPath
  <2>6. InStep(r)'
    <3>1. \A j \in LogSet : j \in Keys
      BY KeyFacts
    <3>2. snap[r][k] # Unset
      BY <1>5, SettingsAssumptions DEF Values
    <3>3. \A j \in LogSet : Effective[j] = (IF table[j] = Unset THEN Default ELSE table[j])
                         /\ Effective'[j] = (IF table'[j] = Unset THEN Default ELSE table'[j])
      BY DEF Effective
    <3>4. \A j \in LogSet : snap[r][j] = Effective[j] => snap[r][j] = Effective'[j]
      BY <1>6, <3>1, <3>2, <3>3
    <3>5. r \notin met /\ r \notin blind =>
             \A j \in LogSet \ DOMAIN body[r].set : snap[r][j] = Effective'[j]
      BY <1>1, <1>2, <3>4 DEF InStep
    <3> QED
      BY <1>1, <1>11, <2>1, <2>2, <3>5 DEF InStep
  <2>7. LiveInv'
    BY <1>3, <2>2 DEF LiveInv
  <2>8. StrategyInv'
    BY <1>1, <1>2, <1>10, <2>1, ReachedSame DEF StrategyInv
  <2> QED
    BY <1>2, <1>7, <1>8, <2>3, <2>4, <2>5, <2>6, <2>7, <2>8, WorkerStep
<1> QED
  BY <1>12, <1>13

-----------------------------------------------------------------------------
(* Settings and providers.                                                 *)

LEMMA WriteSettingKeeps ==
    ASSUME SettingsInv, NEW r \in Requests, WriteSetting(r)
    PROVE  SettingsInv'
<1> DEFINE e == Head(body[r].entries)
           rest == Tail(body[r].entries)
<1>1. pc[r] = "write" /\ UNCHANGED <<live, strategy, met, blind>>
  BY DEF WriteSetting, processVars
<1>2. /\ SettingsTypeOK /\ SettingsPath /\ r \in Workers /\ WorkerPath(r) /\ RequestPath(r)
      /\ InStep(r) /\ LiveInv /\ StrategyInv
  BY DEF SettingsInv, SettingsPath, InStepInv, WorkerPath, Workers
<1>3. body[r] \in SetBodies /\ body[r].entries \in Patches /\ body[r].entries # <<>> /\ at[r] = 0
  BY <1>1, <1>2 DEF RequestPath, SetBodies
<1>4. /\ e \in SettingEntry /\ e = body[r].entries[1] /\ 1 \in DOMAIN body[r].entries
      /\ rest \in Patches
      /\ \A i \in DOMAIN rest : i + 1 \in DOMAIN body[r].entries /\ rest[i] = body[r].entries[i + 1]
  BY <1>3, RestOfPatch
<1>5. CASE e.value = Bad
  <2>1. Leave(r, "refused") /\ UNCHANGED <<table, torn>>
    BY <1>5 DEF WriteSetting
  <2>2. /\ pc' \in [Workers -> {"new"} \cup Running \cup Ended]
        /\ body' \in [Requests -> Bodies \cup {Unset}]
        /\ snap' \in [Workers -> [LogSet -> LogValues]
                                  \cup [Providers -> Configs \cup {Off, Null, Unset}] \cup {Unset}]
        /\ at' \in [Requests -> Nat] /\ at'[r] = 0
        /\ OnlyMoves(r) /\ Narrows(r) /\ WorkerPath(r)' /\ InStep(r)'
    <3>1. "refused" \in Ended
      BY DEF Ended
    <3> QED
      BY <1>1, <1>2, <2>1, <3>1, Leaves
  <2>3. SettingsTypeOK'
    BY <1>1, <1>2, <2>1, <2>2 DEF SettingsTypeOK
  <2>4. WritesOwn(r) /\ \A k \in Keys : table'[k] \in ValuesOf(k) \cup {Unset}
    BY <1>2, <2>1 DEF WritesOwn, SettingsPath
  <2>5. /\ pc'["loadLogger"] = pc["loadLogger"] /\ pc'["loadOAuth"] = pc["loadOAuth"]
        /\ \A q \in Requests : at'[q] = at[q]
    BY <1>3, <2>2, WorkerFacts DEF OnlyMoves
  <2>6. LiveInv' /\ StrategyInv'
    BY <1>1, <1>2, <2>1, <2>5 DEF LiveInv, StrategyInv, Effective
  <2> QED
    BY <1>2, <2>2, <2>3, <2>4, <2>6, WorkerStep
<1>6. CASE e.value # Bad
  <2>1. /\ table' = [table EXCEPT ![e.key] = e.value]
        /\ torn' = torn \cup {KeyArea(e.key)}
        /\ body' = [body EXCEPT ![r].entries = rest]
        /\ pc' = [pc EXCEPT ![r] = Writing(rest)]
        /\ UNCHANGED <<snap, at>>
    BY <1>6 DEF WriteSetting, Goto
  <2>2. /\ e.key \in Keys /\ e.value \in ValuesOf(e.key) /\ e.value \in Values
    BY <1>4, <1>6, EntryFacts
  <2>3. /\ body'[r] \in SetBodies /\ body'[r].entries = rest
        /\ body' \in [Requests -> Bodies \cup {Unset}]
        /\ \A q \in Requests \ {r} : body'[q] = body[q]
    <3> HIDE DEF rest, e
    <3>1. body' = [body EXCEPT ![r] = [body[r] EXCEPT !.entries = rest]]
      BY <2>1
    <3>2. [body[r] EXCEPT !.entries = rest] \in SetBodies /\ [body[r] EXCEPT !.entries = rest].entries = rest
      BY <1>3, <1>4 DEF SetBodies
    <3>3. [body[r] EXCEPT !.entries = rest] \in Bodies
      BY <3>2, TwoBodies
    <3> DEFINE b == [body[r] EXCEPT !.entries = rest]
    <3> HIDE DEF b
    <3>4. body' = [body EXCEPT ![r] = b] /\ b \in SetBodies /\ b.entries = rest /\ b \in Bodies
      BY <3>1, <3>2, <3>3 DEF b
    <3> QED
      BY <1>2, <3>4 DEF SettingsTypeOK
  <2>4. AreaOf(body'[r]) \subseteq AreaOf(body[r]) /\ KeyArea(e.key) \in AreaOf(body[r])
        /\ "oauth" \in AreaOf(body[r])
    <3>1. body[r].kind = "settings" /\ body'[r].kind = "settings"
      BY <1>3, <2>3 DEF SetBodies
    <3> HIDE DEF rest, e
    <3>2. AreaOf(body[r]) = {"oauth"} \cup {KeyArea(body[r].entries[i].key) : i \in DOMAIN body[r].entries}
      BY <3>1 DEF AreaOf
    <3>3. AreaOf(body'[r]) = {"oauth"} \cup {KeyArea(rest[i].key) : i \in DOMAIN rest}
      BY <2>3, <3>1 DEF AreaOf
    <3> QED
      BY <1>4, <3>2, <3>3
  <2> HIDE DEF rest, e
  <2>5. \A k \in Keys : table'[k] = IF k = e.key THEN e.value ELSE table[k]
    BY <1>2, <2>1 DEF SettingsTypeOK
  <2>6. /\ pc' \in [Workers -> {"new"} \cup Running \cup Ended]
        /\ pc'[r] \in {"write", "readOAuth"} /\ (pc'[r] = "write" => rest # <<>>)
        /\ \A w \in Workers \ {r} : pc'[w] = pc[w]
    BY <1>2, <2>1 DEF SettingsTypeOK, Writing, Running
  <2>7. KeyArea(e.key) \in Areas
    BY DEF KeyArea, Areas
  <2>8. SettingsTypeOK'
    BY <1>1, <1>2, <2>1, <2>2, <2>3, <2>6, <2>7 DEF SettingsTypeOK
  <2>9. OnlyMoves(r)
    BY <1>1, <2>1, <2>3, <2>6 DEF OnlyMoves
  <2>10. Narrows(r)
    BY <1>1, <2>4 DEF Narrows, Running
  <2>11. r \in Busy("oauth") /\ (e.key \in LogSet => r \in Busy("logger"))
    BY <1>1, <2>4, BusyIs, KeyFacts DEF Running
  <2>12. WritesOwn(r)
    BY <2>5, <2>11, KeyFacts DEF WritesOwn
  <2>13. WorkerPath(r)'
    <3>1. RequestPath(r)'
      BY <1>3, <2>1, <2>3, <2>6 DEF RequestPath
    <3> QED
      BY <2>6, <3>1, WorkerFacts DEF WorkerPath
  <2>14. \A k \in Keys : table'[k] \in ValuesOf(k) \cup {Unset}
    BY <1>2, <2>2, <2>5 DEF SettingsPath
  <2>15. InStep(r)'
    BY <2>6 DEF InStep
  <2>16. pc'["loadLogger"] = pc["loadLogger"] /\ pc'["loadOAuth"] = pc["loadOAuth"]
    BY <2>6, WorkerFacts
  <2>17. LiveInv'
    <3>1. CASE e.key \in LogSet
      BY <2>1, <3>1, KeyFacts DEF LiveInv
    <3>2. CASE e.key \notin LogSet
      <4>1. \A k \in LogSet : table'[k] = table[k]
        BY <2>5, <3>2, KeyFacts
      <4>2. Effective' = Effective
        BY <4>1 DEF Effective
      <4> QED
        BY <1>1, <1>2, <2>1, <2>16, <4>2 DEF LiveInv
    <3> QED
      BY <3>1, <3>2
  <2>18. StrategyInv'
    <3>1. CASE e.key \in Providers
      BY <2>1, <3>1, KeyFacts DEF StrategyInv
    <3>2. CASE e.key \notin Providers
      <4>1. \A p \in Providers : table'[p] = table[p]
        BY <2>5, <3>2, KeyFacts
      <4>2. Reached(table') = Reached(table) /\ Reached(table) \subseteq Providers
        BY <4>1, ReachedSame
      <4>3. "oauth" \notin torn' => "oauth" \notin torn
        BY <2>1
      <4> QED
        BY <1>1, <1>2, <2>16, <4>1, <4>2, <4>3 DEF StrategyInv
    <3> QED
      BY <3>1, <3>2
  <2> QED
    BY <1>2, <2>8, <2>9, <2>10, <2>12, <2>13, <2>14, <2>15, <2>17, <2>18, WorkerStep
<1> QED
  BY <1>5, <1>6

LEMMA ReadOAuthKeeps ==
    ASSUME SettingsInv, NEW w \in Workers, ReadOAuth(w)
    PROVE  SettingsInv'
<1>1. /\ pc[w] = "readOAuth" /\ pc' = [pc EXCEPT ![w] = "use"]
      /\ UNCHANGED <<table, live, strategy, body, at, met, torn>>
  BY DEF ReadOAuth, Goto, processVars
<1>2. /\ SettingsTypeOK /\ SettingsPath /\ WorkerPath(w) /\ InStep(w) /\ LiveInv /\ StrategyInv
  BY DEF SettingsInv, SettingsPath, InStepInv
<1>3. PICK read \in OAuthSettings :
         /\ snap' = [snap EXCEPT ![w] = read]
         /\ \/ (\A p \in Providers : read[p] = table[p]) /\ blind' = blind
            \/ blind' = blind \cup {w}
  <2> DEFINE there == [p \in Providers |-> table[p]]
             off == [p \in Providers |-> Off]
  <2>1. \A p \in Providers : table[p] \in Configs \cup {Off, Null, Unset}
    BY <1>2, KeyFacts DEF SettingsPath
  <2>2. there \in OAuthSettings /\ off \in OAuthSettings /\ \A p \in Providers : there[p] = table[p]
    BY <2>1 DEF OAuthSettings
  <2>3. \/ snap' = [snap EXCEPT ![w] = there] /\ blind' = blind
        \/ snap' = [snap EXCEPT ![w] = off] /\ blind' = blind \cup {w}
    BY DEF ReadOAuth
  <2> HIDE DEF there, off
  <2> QED
    BY <2>2, <2>3
<1>4. /\ pc' \in [Workers -> {"new"} \cup Running \cup Ended] /\ pc'[w] = "use"
      /\ \A v \in Workers \ {w} : pc'[v] = pc[v]
  BY <1>1, <1>2 DEF SettingsTypeOK, Running
<1>5. /\ snap' \in [Workers -> [LogSet -> LogValues]
                                \cup [Providers -> Configs \cup {Off, Null, Unset}] \cup {Unset}]
      /\ snap'[w] = read /\ \A v \in Workers \ {w} : snap'[v] = snap[v]
  BY <1>2, <1>3 DEF SettingsTypeOK, OAuthSettings
<1>6. blind' \subseteq Workers /\ blind \subseteq blind'
  BY <1>2, <1>3 DEF SettingsTypeOK
<1>7. SettingsTypeOK'
  BY <1>1, <1>2, <1>4, <1>5, <1>6 DEF SettingsTypeOK
<1>8. OnlyMoves(w) /\ WritesOwn(w) /\ Narrows(w)
  BY <1>1, <1>4, <1>5, <1>6 DEF OnlyMoves, WritesOwn, Narrows, Running
<1>9. WorkerPath(w)'
  <2>1. w \in Requests => RequestPath(w)'
    BY <1>1, <1>2, <1>4 DEF WorkerPath, RequestPath
  <2>2. w # "loadLogger"
    BY <1>1, <1>2 DEF WorkerPath, Ended
  <2> QED
    BY <1>3, <1>4, <1>5, <2>1, <2>2 DEF WorkerPath
<1>10. InStep(w)'
  BY <1>1, <1>3, <1>4, <1>5 DEF InStep
<1>11. LiveInv' /\ StrategyInv'
  <2>1. w # "loadLogger"
    BY <1>1, <1>2 DEF WorkerPath, Ended
  <2>2. /\ pc'["loadLogger"] = pc["loadLogger"]
        /\ pc["loadOAuth"] \in Running => pc'["loadOAuth"] \in Running
    BY <1>4, <2>1, WorkerFacts DEF Running
  <2> QED
    BY <1>1, <1>2, <2>2 DEF LiveInv, StrategyInv, Effective
<1>12. \A k \in Keys : table'[k] \in ValuesOf(k) \cup {Unset}
  BY <1>1, <1>2 DEF SettingsPath
<1> QED
  BY <1>7, <1>8, <1>9, <1>10, <1>11, <1>12, WorkerStep

LEMMA UseStrategiesKeeps ==
    ASSUME SettingsInv, NEW w \in Workers, UseStrategies(w)
    PROVE  SettingsInv'
<1>1. /\ pc[w] = "use"
      /\ strategy' = [p \in Providers |->
                        IF p \in Reached(snap[w]) /\ snap[w][p] \in Configs
                        THEN snap[w][p] ELSE strategy[p]]
      /\ Leave(w, "done") /\ Rebuilt(w, "oauth", w \notin blind)
      /\ UNCHANGED <<table, live, met, blind>>
  BY DEF UseStrategies
<1>2. /\ SettingsTypeOK /\ SettingsPath /\ WorkerPath(w) /\ InStep(w) /\ LiveInv /\ StrategyInv
  BY DEF SettingsInv, SettingsPath, InStepInv
<1>3. /\ pc' \in [Workers -> {"new"} \cup Running \cup Ended]
      /\ body' \in [Requests -> Bodies \cup {Unset}]
      /\ snap' \in [Workers -> [LogSet -> LogValues]
                                \cup [Providers -> Configs \cup {Off, Null, Unset}] \cup {Unset}]
      /\ at' \in [Requests -> Nat]
      /\ OnlyMoves(w) /\ Narrows(w) /\ WorkerPath(w)' /\ InStep(w)'
      /\ w \in Requests => at'[w] = 0
  <2>1. "done" \in Ended
    BY DEF Ended
  <2> QED
    BY <1>1, <1>2, <2>1, Leaves
<1>4. torn' \subseteq Areas /\ ("logger" \in torn' <=> "logger" \in torn)
      /\ ("oauth" \notin torn' => w \notin met \cup blind)
  BY <1>1, <1>2 DEF Rebuilt, SettingsTypeOK, Areas
<1>5. strategy' \in [Providers -> Configs \cup {Unset}]
  BY <1>1, <1>2 DEF SettingsTypeOK
<1>6. SettingsTypeOK'
  BY <1>1, <1>2, <1>3, <1>4, <1>5 DEF SettingsTypeOK
<1>7. WritesOwn(w) /\ \A k \in Keys : table'[k] \in ValuesOf(k) \cup {Unset}
  BY <1>1, <1>2 DEF WritesOwn, SettingsPath
<1>8. LiveInv'
  <2>1. w # "loadLogger"
    BY <1>1, <1>2 DEF WorkerPath, Ended
  <2>2. pc'["loadLogger"] = pc["loadLogger"]
    BY <1>3, <2>1, WorkerFacts DEF OnlyMoves
  <2>3. \A r \in Requests : at'[r] = 0 => at[r] = 0
    <3>1. w \in Requests => at[w] = 0
      BY <1>1, <1>2 DEF WorkerPath, RequestPath
    <3> QED
      BY <1>3, <3>1 DEF OnlyMoves
  <2> QED
    BY <1>1, <1>2, <1>4, <2>2, <2>3 DEF LiveInv, Effective
<1>9. StrategyInv'
  <2> SUFFICES ASSUME "oauth" \notin torn'
               PROVE  \A p \in Reached(table) : table[p] \in Configs => strategy'[p] = table[p]
    BY <1>1 DEF StrategyInv
  <2>1. \A p \in Providers : snap[w][p] = table[p]
    BY <1>1, <1>2, <1>4 DEF InStep
  <2>2. Reached(snap[w]) = Reached(table) /\ Reached(table) \subseteq Providers
    BY <2>1, ReachedSame
  <2> QED
    BY <1>1, <2>1, <2>2
<1> QED
  BY <1>3, <1>6, <1>7, <1>8, <1>9, WorkerStep

-----------------------------------------------------------------------------
(* Requests that start or fail, and a server that dies.                    *)

LEMMA RejectKeeps ==
    ASSUME SettingsInv, NEW r \in Requests, Reject(r)
    PROVE  SettingsInv'
<1>1. /\ pc[r] \in {"save", "write"} /\ Leave(r, "failed")
      /\ torn' = (IF pc[r] = "save" THEN torn \cup {"logger"} ELSE torn)
      /\ UNCHANGED <<table, live, strategy, met, blind>>
  BY DEF Reject, processVars
<1>2. /\ SettingsTypeOK /\ SettingsPath /\ r \in Workers /\ WorkerPath(r) /\ RequestPath(r)
      /\ LiveInv /\ StrategyInv
  BY DEF SettingsInv, SettingsPath, WorkerPath, Workers
<1>3. /\ pc' \in [Workers -> {"new"} \cup Running \cup Ended]
      /\ body' \in [Requests -> Bodies \cup {Unset}]
      /\ snap' \in [Workers -> [LogSet -> LogValues]
                                \cup [Providers -> Configs \cup {Off, Null, Unset}] \cup {Unset}]
      /\ at' \in [Requests -> Nat] /\ at'[r] = 0
      /\ OnlyMoves(r) /\ Narrows(r) /\ WorkerPath(r)' /\ InStep(r)'
  <2>1. "failed" \in Ended
    BY DEF Ended
  <2> QED
    BY <1>1, <1>2, <2>1, Leaves
<1>4. torn' \subseteq Areas /\ torn \subseteq torn'
  BY <1>1, <1>2 DEF SettingsTypeOK, Areas
<1>5. SettingsTypeOK'
  BY <1>1, <1>2, <1>3, <1>4 DEF SettingsTypeOK
<1>6. WritesOwn(r) /\ \A k \in Keys : table'[k] \in ValuesOf(k) \cup {Unset}
  BY <1>1, <1>2 DEF WritesOwn, SettingsPath
<1>7. pc'["loadLogger"] = pc["loadLogger"] /\ pc'["loadOAuth"] = pc["loadOAuth"]
  BY <1>3, WorkerFacts DEF OnlyMoves
<1>8. LiveInv'
  <2>1. CASE pc[r] = "save"
    BY <1>1, <2>1 DEF LiveInv
  <2>2. CASE pc[r] # "save"
    <3>1. \A q \in Requests : at'[q] = at[q]
      BY <1>2, <1>3, <2>2 DEF OnlyMoves, RequestPath
    <3> QED
      BY <1>1, <1>2, <1>4, <1>7, <3>1 DEF LiveInv, Effective
  <2> QED
    BY <2>1, <2>2
<1>9. StrategyInv'
  BY <1>1, <1>2, <1>4, <1>7 DEF StrategyInv
<1> QED
  BY <1>2, <1>3, <1>5, <1>6, <1>8, <1>9, WorkerStep

\* A request that starts meets everyone in its areas.
LEMMA StartKeeps ==
    ASSUME SettingsInv, NEW r \in Requests, NEW b \in Bodies, Start(r, b)
    PROVE  SettingsInv'
<1> DEFINE others == UNION {Busy(area) : area \in AreaOf(b)}
<1>1. /\ pc[r] = "new" /\ body' = [body EXCEPT ![r] = b]
      /\ pc' = [pc EXCEPT ![r] = IF b.kind = "logging" THEN "readLog" ELSE Writing(b.entries)]
      /\ met' = (IF others = {} THEN met ELSE met \cup others \cup {r})
      /\ UNCHANGED <<table, live, strategy, snap, at, blind, torn>>
  BY DEF Start, Goto, processVars
<1>2. /\ SettingsTypeOK /\ SettingsPath /\ SoloInv /\ r \in Workers /\ WorkerPath(r) /\ RequestPath(r)
      /\ LiveInv /\ StrategyInv
  BY DEF SettingsInv, SettingsPath, WorkerPath, Workers
<1>3. others \subseteq Workers
  BY BusyIs
<1>4. \A area \in AreaOf(b) : Busy(area) \subseteq others
  OBVIOUS
<1> HIDE DEF others
<1>5. /\ met' \subseteq Workers /\ met \subseteq met'
      /\ \A v \in others : v \in met' /\ r \in met'
  BY <1>1, <1>2, <1>3 DEF SettingsTypeOK
<1>6. \/ b \in LogBodies /\ pc' = [pc EXCEPT ![r] = "readLog"]
      \/ b \in SetBodies /\ b.entries # <<>> /\ pc' = [pc EXCEPT ![r] = "write"]
      \/ b \in SetBodies /\ pc' = [pc EXCEPT ![r] = "readOAuth"]
  <2>1. CASE b \in LogBodies
    BY <1>1, <2>1 DEF LogBodies
  <2>2. CASE b \in SetBodies
    <3>1. b.kind = "settings"
      BY <2>2 DEF SetBodies
    <3> QED
      BY <1>1, <2>2, <3>1 DEF Writing
  <2> QED
    BY <2>1, <2>2, TwoBodies
<1>7. /\ pc' \in [Workers -> {"new"} \cup Running \cup Ended]
      /\ pc'[r] \in {"readLog", "write", "readOAuth"}
      /\ pc'[r] = "readLog" => b \in LogBodies
      /\ pc'[r] # "readLog" => b \in SetBodies
      /\ pc'[r] = "write" => b.entries # <<>>
      /\ \A w \in Workers \ {r} : pc'[w] = pc[w]
  BY <1>2, <1>6 DEF SettingsTypeOK, Running
<1>8. /\ body' \in [Requests -> Bodies \cup {Unset}] /\ body'[r] = b
      /\ \A q \in Requests \ {r} : body'[q] = body[q]
  BY <1>1, <1>2 DEF SettingsTypeOK
<1>9. SettingsTypeOK'
  BY <1>1, <1>2, <1>5, <1>7, <1>8 DEF SettingsTypeOK
<1>10. OnlyMoves(r) /\ WritesOwn(r)
  BY <1>1, <1>5, <1>7, <1>8 DEF OnlyMoves, WritesOwn
<1>11. WorkerPath(r)'
  <2>1. at'[r] = 0
    BY <1>1, <1>2 DEF RequestPath
  <2>2. RequestPath(r)'
    BY <1>7, <1>8, <2>1 DEF RequestPath
  <2> QED
    BY <1>7, <2>2, WorkerFacts DEF WorkerPath
<1>12. \A k \in Keys : table'[k] \in ValuesOf(k) \cup {Unset}
  BY <1>1, <1>2 DEF SettingsPath
<1>13. SettingsPath'
  BY <1>2, <1>10, <1>11, <1>12, PathKept
<1>14. InStep(r)'
  BY <1>7 DEF InStep
<1>15. InStepInv'
  <2>1. SettingsTypeOK /\ SettingsPath /\ SoloInv /\ InStepInv
    BY DEF SettingsInv
  <2> QED
    BY <1>2, <1>10, <1>14, <2>1, InStepKept DEF InStepInv
<1>16. ASSUME NEW area, NEW w \in Busy(area)', w # r PROVE w \in Busy(area)
  <2>1. w \in Workers
    BY <1>16, BusyIs
  <2>2. pc'[w] = pc[w] /\ (w \in Requests => body'[w] = body[w])
    BY <1>7, <1>8, <1>16, <2>1
  <2> QED
    BY <1>16, <2>1, <2>2, BusyIs, WorkerFacts
<1>17. SoloInv'
  <2> SUFFICES ASSUME NEW area \in Areas, NEW v \in Busy(area)', NEW w \in Busy(area)', v # w
               PROVE  v \in met'
    BY DEF SoloInv
  <2>1. CASE v # r /\ w # r
    <3>1. v \in Busy(area) /\ w \in Busy(area)
      BY <1>16, <2>1
    <3> QED
      BY <1>2, <1>5, <3>1 DEF SoloInv
  <2>2. CASE v = r \/ w = r
    <3>1. r \in Busy(area)'
      BY <2>2
    <3>2. area \in AreaOf(b)
      BY <1>8, <3>1, BusyIs
    <3>3. \A x \in Busy(area)' \ {r} : x \in others
      BY <1>4, <1>16, <3>2
    <3> QED
      BY <1>5, <2>2, <3>3
  <2> QED
    BY <2>1, <2>2
<1>18. LiveInv' /\ StrategyInv'
  <2>1. pc'["loadLogger"] = pc["loadLogger"] /\ pc'["loadOAuth"] = pc["loadOAuth"]
    BY <1>7, WorkerFacts
  <2> QED
    BY <1>1, <1>2, <2>1 DEF LiveInv, StrategyInv, Effective
<1> QED
  BY <1>9, <1>13, <1>15, <1>17, <1>18 DEF SettingsInv

\* A process that starts has only its two loads at work, with nothing read.
FreshProcess ==
    /\ SettingsTypeOK /\ \A k \in Keys : table[k] \in ValuesOf(k) \cup {Unset}
    /\ pc["loadLogger"] = "readLog" /\ pc["loadOAuth"] = "readOAuth"
    /\ \A r \in Requests : pc[r] \notin Running /\ at[r] = 0

LEMMA FreshInv == FreshProcess => SettingsInv
<1> SUFFICES ASSUME FreshProcess PROVE SettingsInv
  OBVIOUS
<1> USE DEF FreshProcess
<1>1. ASSUME NEW w \in Workers PROVE WorkerPath(w) /\ InStep(w)
  <2>1. CASE w \in Requests
    BY <2>1, WorkerFacts DEF WorkerPath, RequestPath, InStep, Running
  <2>2. CASE w = "loadLogger" \/ w = "loadOAuth"
    BY <2>2, WorkerFacts DEF WorkerPath, InStep
  <2> QED
    BY <2>1, <2>2, WorkerFacts
<1>2. SettingsPath /\ InStepInv
  BY <1>1 DEF SettingsPath, InStepInv
<1>3. SoloInv
  <2> SUFFICES ASSUME NEW area \in Areas, NEW v \in Busy(area), NEW w \in Busy(area), v # w
               PROVE  FALSE
    BY DEF SoloInv
  <2>1. v \in {"loadLogger", "loadOAuth"} /\ w \in {"loadLogger", "loadOAuth"}
    BY BusyIs, WorkerFacts
  <2>2. area = "logger" /\ area = "oauth"
    BY <2>1, BusyIs
  <2> QED
    BY <2>2
<1>4. LiveInv /\ StrategyInv
  BY DEF LiveInv, StrategyInv, Running
<1> QED
  BY <1>2, <1>3, <1>4 DEF SettingsInv

LEMMA FreshInvNext == FreshProcess' => SettingsInv'
  BY FreshInv, PTL

LEMMA SettingsInitInv == SettingsInit => SettingsInv
<1> SUFFICES ASSUME SettingsInit PROVE SettingsInv
  OBVIOUS
<1>1. /\ table = [k \in Keys |-> Unset] /\ live = Defaults
      /\ strategy = [p \in Providers |-> Unset]
      /\ pc = [w \in Workers |-> IF w \in Loads THEN FirstRead[w] ELSE "new"]
      /\ body = [r \in Requests |-> Unset] /\ snap = [w \in Workers |-> Unset]
      /\ at = [r \in Requests |-> 0] /\ met = {} /\ blind = {} /\ torn = {}
  BY DEF SettingsInit
<1>2. pc["loadLogger"] = "readLog" /\ pc["loadOAuth"] = "readOAuth"
  BY <1>1, WorkerFacts DEF FirstRead
<1>3. \A r \in Requests : pc[r] = "new" /\ at[r] = 0
  BY <1>1, WorkerFacts DEF Workers
<1>4. pc \in [Workers -> {"new"} \cup Running \cup Ended]
  <2>1. \A w \in Workers : pc[w] \in {"new"} \cup Running \cup Ended
    BY <1>2, <1>3, WorkerFacts DEF Running
  <2> QED
    BY <1>1, <2>1
<1>5. live \in [LogSet -> LogValues]
  BY <1>1, SettingsAssumptions DEF Defaults
<1>6. SettingsTypeOK
  BY <1>1, <1>4, <1>5 DEF SettingsTypeOK
<1>7. \A k \in Keys : table[k] \in ValuesOf(k) \cup {Unset}
  BY <1>1
<1>8. \A r \in Requests : pc[r] \notin Running /\ at[r] = 0
  BY <1>3 DEF Running
<1> QED
  BY <1>2, <1>6, <1>7, <1>8, FreshInv DEF FreshProcess

LEMMA RestartKeeps ==
    ASSUME SettingsInv, Restart
    PROVE  SettingsInv'
<1>1. /\ pc' = [w \in Workers |-> IF w \in Loads THEN FirstRead[w]
                                 ELSE IF pc[w] \in Running THEN "lost" ELSE pc[w]]
      /\ live' = Defaults /\ strategy' = [p \in Providers |-> Unset]
      /\ met' = {} /\ blind' = {} /\ torn' = {}
      /\ snap' = [w \in Workers |-> Unset]
      /\ body' = [r \in Requests |-> Unset] /\ at' = [r \in Requests |-> 0]
      /\ UNCHANGED table
  BY DEF Restart
<1>2. SettingsTypeOK /\ SettingsPath
  BY DEF SettingsInv
<1>3. pc'["loadLogger"] = "readLog" /\ pc'["loadOAuth"] = "readOAuth"
  BY <1>1, WorkerFacts DEF FirstRead
<1>4. ASSUME NEW r \in Requests
      PROVE  pc'[r] \in {"new"} \cup Ended /\ at'[r] = 0
  <2>1. r \in Workers /\ r \notin Loads
    BY WorkerFacts DEF Workers
  <2>2. pc'[r] = IF pc[r] \in Running THEN "lost" ELSE pc[r]
    BY <1>1, <2>1
  <2>3. pc[r] \in {"new"} \cup Running \cup Ended
    BY <1>2, <2>1 DEF SettingsTypeOK
  <2>4. at'[r] = 0
    BY <1>1
  <2> QED
    BY <2>2, <2>3, <2>4 DEF Ended
<1>5. pc' \in [Workers -> {"new"} \cup Running \cup Ended]
  <2>1. \A w \in Workers : pc'[w] \in {"new"} \cup Running \cup Ended
    BY <1>3, <1>4, WorkerFacts DEF Running
  <2> QED
    BY <1>1, <2>1
<1>6. live' \in [LogSet -> LogValues]
  BY <1>1, SettingsAssumptions DEF Defaults
<1>7. SettingsTypeOK'
  BY <1>1, <1>2, <1>5, <1>6 DEF SettingsTypeOK
<1>8. \A k \in Keys : table'[k] \in ValuesOf(k) \cup {Unset}
  BY <1>1, <1>2 DEF SettingsPath
<1>9. \A r \in Requests : pc'[r] \notin Running /\ at'[r] = 0
  BY <1>4 DEF Running, Ended
<1> QED
  BY <1>3, <1>7, <1>8, <1>9, FreshInvNext DEF FreshProcess

-----------------------------------------------------------------------------
(* Theorems.                                                               *)

LEMMA SettingsNextInv == SettingsInv /\ [SettingsNext]_settingsVars => SettingsInv'
<1> SUFFICES ASSUME SettingsInv, [SettingsNext]_settingsVars PROVE SettingsInv'
  OBVIOUS
<1>1. ASSUME NEW r \in Requests, RequestStep(r) PROVE SettingsInv'
  BY <1>1, SaveLogKeeps, WriteSettingKeeps, RejectKeeps DEF RequestStep
<1>2. ASSUME NEW r \in Requests, NEW b \in Bodies, Start(r, b) PROVE SettingsInv'
  BY <1>2, StartKeeps
<1>3. ASSUME NEW w \in Workers, LoadStep(w) PROVE SettingsInv'
  BY <1>3, ReadLogKeeps, ReadOAuthKeeps, UseStrategiesKeeps DEF LoadStep
<1>4. CASE BuildLogger \/ Restart
  BY <1>4, BuildLoggerKeeps, RestartKeeps
<1>5. CASE UNCHANGED settingsVars
  <2>1. SettingsTypeOK' /\ InStepInv' /\ LiveInv' /\ StrategyInv'
    BY <1>5 DEF SettingsInv, SettingsTypeOK, InStepInv, InStep, LiveInv, StrategyInv, Effective,
                settingsVars, processVars, workerVars, historyVars
  <2>2. SettingsPath'
    BY <1>5 DEF SettingsInv, SettingsPath, WorkerPath, RequestPath,
                settingsVars, processVars, workerVars, historyVars
  <2>3. SoloInv'
    BY <1>5 DEF SettingsInv, SoloInv, Busy, settingsVars, processVars, workerVars, historyVars
  <2> QED
    BY <2>1, <2>2, <2>3 DEF SettingsInv
<1> QED
  BY <1>1, <1>2, <1>3, <1>4, <1>5 DEF SettingsNext

LEMMA SettingsInvariant == SettingsSpec => []SettingsInv
  BY SettingsInitInv, SettingsNextInv, PTL DEF SettingsSpec

\* Every state of the settings and of what is built from them is of the
\* declared types.
THEOREM SettingsTypeCorrect == SettingsSpec => []SettingsTypeOK
<1>1. SettingsInv => SettingsTypeOK
  BY DEF SettingsInv
<1> QED
  BY <1>1, SettingsInvariant, PTL

\* Once no logging work is under way the logger is the one of the table, but
\* for the cases named: whoever built it alone had read or written every row.
THEOREM LoggerIsCurrent == SettingsSpec => []LoggerCurrent
<1>1. SettingsInv => LoggerCurrent
  <2> SUFFICES ASSUME SettingsInv, Busy("logger") = {}, "logger" \notin torn
               PROVE  live = Effective
    BY DEF LoggerCurrent
  <2>1. pc["loadLogger"] \notin Running
    BY BusyIs
  <2>2. ASSUME NEW r \in Requests, at[r] # 0 PROVE FALSE
    <3>1. pc[r] = "save" /\ r \in Workers
      BY <2>2 DEF SettingsInv, SettingsPath, WorkerPath, RequestPath, Workers
    <3> QED
      BY <3>1, HoldersBusy DEF SettingsInv
  <2> QED
    BY <2>1, <2>2 DEF SettingsInv, LiveInv
<1> QED
  BY <1>1, SettingsInvariant, PTL

\* The same for the strategies of the providers that are enabled.
THEOREM StrategiesAreCurrent == SettingsSpec => []StrategiesCurrent
<1>1. SettingsInv => StrategiesCurrent
  <2> SUFFICES ASSUME SettingsInv, Busy("oauth") = {}, "oauth" \notin torn
               PROVE  \A p \in Reached(table) : table[p] \in Configs => strategy[p] = table[p]
    BY DEF StrategiesCurrent
  <2>1. pc["loadOAuth"] \notin Running
    BY BusyIs
  <2> QED
    BY <2>1 DEF SettingsInv, StrategyInv
<1> QED
  BY <1>1, SettingsInvariant, PTL

\* No step changes a setting under a PATCH of the logging settings that was not
\* given it and that nobody disturbed: its own writes put back what is there.
LEMMA KeepsStep ==
    ASSUME SettingsInv, [SettingsNext]_settingsVars, NEW r \in Requests,
           pc[r] = "save", r \notin met \cup blind,
           NEW k \in LogSet \ DOMAIN body[r].set
    PROVE  Effective'[k] = Effective[k]
<1>1. /\ SettingsTypeOK /\ SettingsPath /\ SoloInv /\ r \in Workers /\ WorkerPath(r) /\ RequestPath(r)
      /\ InStep(r)
  BY DEF SettingsInv, SettingsPath, InStepInv, WorkerPath, Workers
<1>2. r \in Busy("logger")
  BY <1>1, HoldersBusy
<1>3. k \in Keys /\ Effective[k] = (IF table[k] = Unset THEN Default ELSE table[k])
      /\ Effective'[k] = (IF table'[k] = Unset THEN Default ELSE table'[k])
  BY KeyFacts DEF Effective
<1>4. snap[r] \in LogSettings /\ snap[r][k] = Effective[k] /\ snap[r][k] # Unset
  <2>1. snap[r] \in LogSettings
    BY <1>1 DEF WorkerPath
  <2>2. snap[r][k] \in Values
    BY <2>1 DEF LogSettings, Values
  <2> QED
    BY <1>1, <2>1, <2>2, SettingsAssumptions DEF InStep
<1>5. ASSUME NEW q \in Requests, SaveLog(q) PROVE Effective'[k] = Effective[k]
  <2>1. q = r
    <3>1. q \in Workers /\ q \in Busy("logger")
      BY <1>1, <1>5, HoldersBusy DEF SaveLog, Workers
    <3> QED
      BY <1>1, <1>2, <3>1 DEF SoloInv, Areas
  <2> DEFINE j == LogKeys[at[r] + 1]
  <2>2. table' = [table EXCEPT ![j] = snap[r][j]]
    BY <1>5, <2>1 DEF SaveLog
  <2> HIDE DEF j
  <2>3. table'[k] = IF j = k THEN snap[r][k] ELSE table[k]
    BY <1>1, <1>3, <2>2 DEF SettingsTypeOK
  <2> QED
    BY <1>3, <1>4, <2>3
<1>6. ASSUME NEW q \in Requests, WriteSetting(q) PROVE Effective'[k] = Effective[k]
  <2> DEFINE e == Head(body[q].entries)
  <2>1. pc[q] = "write" /\ (UNCHANGED table \/ table' = [table EXCEPT ![e.key] = e.value])
    BY <1>6 DEF WriteSetting
  <2>2. CASE UNCHANGED table
    BY <1>3, <2>2
  <2>3. CASE table' = [table EXCEPT ![e.key] = e.value] /\ e.key # k
    BY <1>1, <1>3, <2>3 DEF SettingsTypeOK
  <2>4. CASE e.key = k
    <3>1. q \in Workers /\ RequestPath(q)
      BY <1>1 DEF SettingsPath, WorkerPath, Workers
    <3>2. body[q] \in SetBodies /\ body[q].entries \in Patches /\ body[q].entries # <<>>
      BY <2>1, <3>1 DEF RequestPath, SetBodies
    <3>3. e = body[q].entries[1] /\ 1 \in DOMAIN body[q].entries /\ body[q].kind = "settings"
      BY <3>2, RestOfPatch DEF SetBodies
    <3>4. "logger" \in AreaOf(body[q])
      <4>1. KeyArea(body[q].entries[1].key) = "logger"
        BY <2>4, <3>3, KeyFacts
      <4> QED
        BY <3>3, <4>1 DEF AreaOf
    <3>5. q \in Busy("logger")
      BY <2>1, <3>4, BusyIs DEF Running
    <3>6. q # r
      BY <2>1
    <3> QED
      BY <1>1, <1>2, <3>5, <3>6 DEF SoloInv, Areas
  <2> QED
    BY <2>1, <2>2, <2>3, <2>4
<1>7. CASE UNCHANGED table
  BY <1>3, <1>7
<1>8. \/ UNCHANGED table
      \/ \E q \in Requests : SaveLog(q) \/ WriteSetting(q)
  <2>1. ASSUME NEW q \in Requests, RequestStep(q) PROVE UNCHANGED table \/ SaveLog(q) \/ WriteSetting(q)
    BY <2>1 DEF RequestStep, Reject
  <2>2. ASSUME NEW q \in Requests, NEW b \in Bodies, Start(q, b) PROVE UNCHANGED table
    BY <2>2 DEF Start
  <2>3. ASSUME NEW w \in Workers, LoadStep(w) PROVE UNCHANGED table
    BY <2>3 DEF LoadStep, ReadLog, ReadOAuth, UseStrategies
  <2>4. CASE BuildLogger \/ Restart \/ UNCHANGED settingsVars
    BY <2>4 DEF BuildLogger, Restart, settingsVars
  <2> QED
    BY <2>1, <2>2, <2>3, <2>4 DEF SettingsNext
<1> QED
  BY <1>5, <1>6, <1>7, <1>8

\* A PATCH of the logging settings changes what it was given and nothing else,
\* unless it met another writer or its read failed.
THEOREM PatchKeeps == SettingsSpec => PatchKeepsTheRest
<1>1. SettingsInv /\ [SettingsNext]_settingsVars =>
         [\A r \in Requests :
             pc[r] = "save" /\ r \notin met \cup blind =>
                 \A k \in LogSet \ DOMAIN body[r].set : Effective'[k] = Effective[k]]_settingsVars
  BY KeepsStep
<1> QED
  BY <1>1, SettingsInvariant, PTL DEF SettingsSpec, PatchKeepsTheRest
=============================================================================
