--------------------------- MODULE PasswordReset ---------------------------
(***************************************************************************)
(* Password reset for one account: checkResetRateLimit,                    *)
(* requestPasswordReset and resetPassword of services/auth.service.ts.     *)
(*                                                                         *)
(* An ask counts the recent attempts, records its own and makes a token;   *)
(* a reset reads a token, hashes the new password and in one transaction   *)
(* stores it and marks the token used.  A step is one awaited call; time   *)
(* is counted in ticks.  A token is named by the ask that made it and a    *)
(* password by the reset that set it.  Token strings are never guessed.    *)
(***************************************************************************)
EXTENDS Naturals, FiniteSets

CONSTANTS Asks,        \* calls of requestPasswordReset, each runs once
          Resets,      \* calls of resetPassword, each runs once
          MaxAttempts, \* maxAttempts
          Window,      \* the 15 minutes of the rate limit, in ticks
          Lifetime,    \* the 30 minutes a token is valid, in ticks
          MaxTime,     \* bound on the clock
          None         \* no value

ASSUME ResetAssumptions ==
    /\ IsFiniteSet(Asks)
    /\ MaxAttempts \in Nat \ {0}
    /\ Window \in Nat /\ Lifetime \in Nat /\ MaxTime \in Nat
    /\ None \notin Asks \cup Resets
    /\ None \notin [created : Nat, expires : Nat] \cup [expires : Nat, used : BOOLEAN]

VARIABLES now,       \* the clock
          attempts,  \* the RateLimitAttempt rows, named by the ask that made them
          token,     \* the PasswordResetToken rows, named likewise
          password,  \* the reset that set the password, None for the one before
          apc, since,   \* an ask: what it awaits or how it ended, the time it last read
          rpc, uses,    \* a reset: likewise, and the token it presents
          made,      \* history: the time from which each recorded attempt counts
          load,      \* history: most asks ever between their count and their attempt
          uncounted, \* history: asks let in because their count failed
          met        \* history: per reset, those in flight with its token as it wrote

askVars   == <<apc, since>>
resetVars == <<rpc, uses>>
histories == <<made, load, uncounted, met>>
vars == <<now, attempts, token, password, askVars, resetVars, histories>>

Attempt == [created : Nat, expires : Nat]
Token   == [expires : Nat, used : BOOLEAN]

AskRuns   == {"clean", "count", "findUser", "attempt", "sweep", "token", "send"}
ResetRuns == {"read", "write"}
Ended     == {"done", "refused", "failed", "lost"}

TypeOK ==
    /\ now \in Nat
    /\ attempts \in [Asks -> Attempt \cup {None}]
    /\ token \in [Asks -> Token \cup {None}]
    /\ password \in Resets \cup {None}
    /\ apc \in [Asks -> {"new"} \cup AskRuns \cup Ended]
    /\ since \in [Asks -> Nat]
    /\ rpc \in [Resets -> {"new"} \cup ResetRuns \cup Ended]
    /\ uses \in [Resets -> Asks \cup {None}]
    /\ \A r \in Resets : rpc[r] # "new" => uses[r] \in Asks
    /\ made \in [Asks -> Nat \cup {None}]
    /\ load \in Nat
    /\ uncounted \subseteq Asks
    /\ met \in [Resets -> SUBSET Resets]

\* The clock starts late enough for a window to lie behind it.
Init ==
    /\ now = Window
    /\ attempts = [a \in Asks |-> None]
    /\ token = [a \in Asks |-> None]
    /\ password = None
    /\ apc = [a \in Asks |-> "new"]
    /\ since = [a \in Asks |-> 0]
    /\ rpc = [r \in Resets |-> "new"]
    /\ uses = [r \in Resets |-> None]
    /\ made = [a \in Asks |-> None]
    /\ load = 0
    /\ uncounted = {}
    /\ met = [r \in Resets |-> {}]

Tick ==
    /\ now < MaxTime
    /\ now' = now + 1
    /\ UNCHANGED <<attempts, token, password, askVars, resetVars, histories>>

-----------------------------------------------------------------------------
(* requestPasswordReset.                                                   *)

AskGoto(a, next) == apc' = [apc EXCEPT ![a] = next]

\* The attempts recorded at time t or later: createdAt >= t.
Attempted(t) == {a \in Asks : attempts[a] # None /\ attempts[a].created >= t}

\* Asks that were let in and have not recorded their attempt.
LetIn == {a \in Asks : apc[a] \in {"findUser", "attempt"}}

Larger(m, n) == IF m >= n THEN m ELSE n

\* The address is well formed; both queries of checkResetRateLimit use this time.
StartAsk(a) ==
    /\ apc[a] = "new"
    /\ since' = [since EXCEPT ![a] = now]
    /\ AskGoto(a, "clean")
    /\ UNCHANGED <<now, attempts, token, password, resetVars, histories>>

\* Mutant of CleanAttempts: the wrong side of the expiry goes.
CleanAttemptsRecent(a) ==
    /\ apc[a] = "clean"
    /\ attempts' = [b \in Asks |-> IF attempts[b] # None /\ attempts[b].expires >= since[a]
                                     THEN None ELSE attempts[b]]
    /\ AskGoto(a, "count")
    /\ UNCHANGED <<now, token, password, since, resetVars, histories>>

\* Attempts whose expiresAt is before that time go, whoever made them.
CleanAttempts(a) ==
    /\ apc[a] = "clean"
    /\ attempts' = [b \in Asks |-> IF attempts[b] # None /\ attempts[b].expires < since[a]
                                     THEN None ELSE attempts[b]]
    /\ AskGoto(a, "count")
    /\ UNCHANGED <<now, token, password, since, resetVars, histories>>

\* Let in or refused by the attempts of the window before the time that was read.
CountAttempts(a) ==
    /\ apc[a] = "count"
    /\ IF Cardinality(Attempted(since[a] - Window)) < MaxAttempts
       THEN /\ AskGoto(a, "findUser")
            /\ load' = Larger(load, Cardinality(LetIn \cup {a}))
       ELSE AskGoto(a, "refused") /\ UNCHANGED load
    /\ UNCHANGED <<now, attempts, token, password, since, resetVars, made, uncounted, met>>

\* checkResetRateLimit allows the ask when one of its queries fails.
FailOpen(a) ==
    /\ apc[a] \in {"clean", "count"}
    /\ AskGoto(a, "findUser")
    /\ load' = Larger(load, Cardinality(LetIn \cup {a}))
    /\ uncounted' = uncounted \cup {a}
    /\ UNCHANGED <<now, attempts, token, password, since, resetVars, made, met>>

\* The time is read for the expiry of the attempt.
FindUser(a) ==
    /\ apc[a] = "findUser"
    /\ since' = [since EXCEPT ![a] = now]
    /\ AskGoto(a, "attempt")
    /\ UNCHANGED <<now, attempts, token, password, resetVars, histories>>

\* The database stamps the row with its own time; since is when it answered.
RecordAttempt(a) ==
    /\ apc[a] = "attempt"
    /\ attempts' = [attempts EXCEPT ![a] = [created |-> now, expires |-> since[a] + Window]]
    /\ made' = [made EXCEPT ![a] = since[a]]
    /\ since' = [since EXCEPT ![a] = now]
    /\ AskGoto(a, "sweep")
    /\ UNCHANGED <<now, token, password, resetVars, load, uncounted, met>>

\* Tokens that had expired go, used or not, by a time read since the attempt was stored.
SweepTokens(a) ==
    /\ apc[a] = "sweep"
    /\ \E t \in since[a] .. now :
          /\ since' = [since EXCEPT ![a] = t]
          /\ token' = [b \in Asks |-> IF token[b] # None /\ token[b].expires < t
                                        THEN None ELSE token[b]]
    /\ AskGoto(a, "token")
    /\ UNCHANGED <<now, attempts, password, resetVars, histories>>

\* The token's expiry counts from the same time.
CreateToken(a) ==
    /\ apc[a] = "token"
    /\ token' = [token EXCEPT ![a] = [expires |-> since[a] + Lifetime, used |-> FALSE]]
    /\ AskGoto(a, "send")
    /\ UNCHANGED <<now, attempts, password, since, resetVars, histories>>

\* Whether or not the mail goes out.
SendMail(a) ==
    /\ apc[a] = "send"
    /\ AskGoto(a, "done")
    /\ UNCHANGED <<now, attempts, token, password, since, resetVars, histories>>

-----------------------------------------------------------------------------
(* resetPassword.                                                          *)

ResetGoto(r, next) == rpc' = [rpc EXCEPT ![r] = next]

StartReset(r, a) ==
    /\ rpc[r] = "new"
    /\ uses' = [uses EXCEPT ![r] = a]
    /\ ResetGoto(r, "read")
    /\ UNCHANGED <<now, attempts, token, password, askVars, histories>>

\* Mutant of Valid: a used token is good until it expires.
ValidUsed(row) == row # None /\ now <= row.expires

\* The tests resetPassword makes on the row it has just read.
Valid(row) == row # None /\ ~row.used /\ now <= row.expires

\* A password that is not strong enough is refused after the tests of the token.
ReadToken(r) ==
    /\ rpc[r] = "read"
    /\ \/ Valid(token[uses[r]]) /\ ResetGoto(r, "write")
       \/ ResetGoto(r, "refused")
    /\ UNCHANGED <<now, attempts, token, password, askVars, uses, histories>>

\* Mutant of WritePassword: two writes, and the second may not come.
WritePasswordApart(r) ==
    LET a == uses[r] IN
    /\ rpc[r] = "write"
    /\ password' = r
    /\ token' \in {token, [token EXCEPT ![a].used = TRUE]}
    /\ met' = [met EXCEPT ![r] =
                  {s \in Resets \ {r} : rpc[s] = "write" /\ uses[s] = a}]
    /\ ResetGoto(r, "done")
    /\ UNCHANGED <<now, attempts, askVars, uses, made, load, uncounted>>

\* The transaction fails as a whole when the token's row has been swept away.
WritePassword(r) ==
    LET a == uses[r] IN
    /\ rpc[r] = "write"
    /\ IF token[a] = None
       THEN ResetGoto(r, "failed") /\ UNCHANGED <<token, password, met>>
       ELSE /\ password' = r
            /\ token' = [token EXCEPT ![a] = [@ EXCEPT !.used = TRUE]]
            /\ met' = [met EXCEPT ![r] =
                          {s \in Resets \ {r} : rpc[s] = "write" /\ uses[s] = a}]
            /\ ResetGoto(r, "done")
    /\ UNCHANGED <<now, attempts, askVars, uses, made, load, uncounted>>

-----------------------------------------------------------------------------
\* An awaited call rejects; the errors of "clean", "count" and "send" are caught.
RejectAsk(a) ==
    /\ apc[a] \in {"findUser", "attempt", "sweep", "token"}
    /\ AskGoto(a, "failed")
    /\ UNCHANGED <<now, attempts, token, password, since, resetVars, histories>>

RejectReset(r) ==
    /\ rpc[r] \in ResetRuns
    /\ ResetGoto(r, "failed")
    /\ UNCHANGED <<now, attempts, token, password, askVars, uses, histories>>

\* The server process dies.
Crash ==
    /\ \/ \E a \in Asks : apc[a] \in AskRuns
       \/ \E r \in Resets : rpc[r] \in ResetRuns
    /\ apc' = [a \in Asks |-> IF apc[a] \in AskRuns THEN "lost" ELSE apc[a]]
    /\ rpc' = [r \in Resets |-> IF rpc[r] \in ResetRuns THEN "lost" ELSE rpc[r]]
    /\ UNCHANGED <<now, attempts, token, password, since, uses, histories>>

AskStep(a) ==
    \/ StartAsk(a)
    \/ CleanAttempts(a)
    \/ CountAttempts(a)
    \/ FailOpen(a)
    \/ FindUser(a)
    \/ RecordAttempt(a)
    \/ SweepTokens(a)
    \/ CreateToken(a)
    \/ SendMail(a)
    \/ RejectAsk(a)

ResetStep(r) ==
    \/ \E a \in Asks : StartReset(r, a)
    \/ ReadToken(r)
    \/ WritePassword(r)
    \/ RejectReset(r)

Next ==
    \/ Tick
    \/ \E a \in Asks : AskStep(a)
    \/ \E r \in Resets : ResetStep(r)
    \/ Crash

Spec == Init /\ [][Next]_vars

-----------------------------------------------------------------------------
(* Properties.                                                             *)

(* The attempts made in any one window exceed the limit only by as many   *)
(* asks as were let in at the same time, or because their count failed: one *)
(* ask at a time, on a database that answers, keeps the limit.              *)
OverrunOnlyByOverlap ==
    Cardinality({a \in Asks : made[a] # None /\ made[a] + Window >= now})
        <= (MaxAttempts - 1) + load + Cardinality(uncounted)

(* Two resets succeed with one token only if one was past its check when    *)
(* the other wrote: a token that is seen to be used is good for nothing.    *)
TokenReusedOnlyByOverlap ==
    \A r, s \in Resets :
        rpc[r] = "done" /\ rpc[s] = "done" /\ uses[r] = uses[s]
            => r = s \/ s \in met[r] \/ r \in met[s]

(* A password that came from a reset has spent its token: the row is marked *)
(* used, or has been swept away since, whatever fails in between.           *)
ChangeSpendsToken ==
    password # None => token[uses[password]] = None \/ token[uses[password]].used
=============================================================================
