------------------------- MODULE PasswordResetProofs -------------------------
(* Theorems about PasswordReset, for any asks, resets, limits and periods.  *)
EXTENDS PasswordReset, FiniteSetTheorems, TLAPS

(* The inductive invariant.  An attempt that still counts has its row, and  *)
(* that row is seen by every count; the attempts that count and the asks    *)
(* let in stay within the limit together.  A reset that is done has spent a *)
(* token that will not be made again, and whoever holds that token too met  *)
(* it.                                                                      *)
ClockInv == \A a \in Asks : since[a] <= now

RowInv ==
    \A a \in Asks : made[a] # None =>
        /\ made[a] + Window >= now => attempts[a] # None
        /\ attempts[a] # None => /\ attempts[a].expires = made[a] + Window
                                 /\ attempts[a].created >= made[a]

Recent == {a \in Asks : made[a] # None /\ made[a] + Window >= now}

EarlyInv == \A a \in Asks : apc[a] \in {"new", "clean", "count"} => a \notin uncounted

LimitInv ==
    Cardinality(Recent \cup LetIn) <= (MaxAttempts - 1) + load + Cardinality(uncounted)

SentInv ==
    \A a \in Asks, r \in Resets :
        /\ token[a] # None => apc[a] \in {"send", "done", "lost"}
        /\ rpc[r] \in {"write", "done"} => apc[uses[r]] \in {"send", "done", "lost"}

SpentInv ==
    \A r \in Resets : rpc[r] = "done" => token[uses[r]] = None \/ token[uses[r]].used

MetInv ==
    /\ \A r \in Resets : rpc[r] \in {"new", "read", "write"} => met[r] = {}
    /\ \A r, s \in Resets :
          rpc[r] = "done" /\ rpc[s] \in {"write", "done"} /\ uses[r] = uses[s]
              => r = s \/ s \in met[r] \/ r \in met[s]

PasswordInv == password # None => rpc[password] = "done"

AskInv   == ClockInv /\ RowInv /\ EarlyInv /\ LimitInv
ResetInv == SentInv /\ SpentInv /\ MetInv /\ PasswordInv
IInv     == TypeOK /\ AskInv /\ ResetInv

-----------------------------------------------------------------------------
(* Types.                                                                  *)

LEMMA InitType == Init => TypeOK
  BY ResetAssumptions DEF Init, TypeOK, AskRuns, ResetRuns, Ended

LEMMA GotoType ==
    ASSUME TypeOK
    PROVE  /\ \A a \in Asks, p \in AskRuns \cup Ended :
                 AskGoto(a, p) => apc' \in [Asks -> {"new"} \cup AskRuns \cup Ended]
           /\ \A r \in Resets, p \in ResetRuns \cup Ended :
                 ResetGoto(r, p) => rpc' \in [Resets -> {"new"} \cup ResetRuns \cup Ended]
  BY DEF TypeOK, AskGoto, ResetGoto

LEMMA CountType == ASSUME TypeOK, NEW a \in Asks PROVE Cardinality(LetIn \cup {a}) \in Nat
<1>1. IsFiniteSet(LetIn \cup {a})
  BY ResetAssumptions, FS_Subset DEF LetIn
<1> QED
  BY <1>1, FS_CardinalityType

LEMMA AskType == ASSUME TypeOK, NEW a \in Asks, AskStep(a) PROVE TypeOK'
<1> USE DEF AskRuns, Ended
<1>1. CASE StartAsk(a)
  BY <1>1, GotoType DEF TypeOK, StartAsk, resetVars, histories
<1>2. CASE CleanAttempts(a)
  <2>1. attempts' \in [Asks -> Attempt \cup {None}]
    BY <1>2 DEF TypeOK, CleanAttempts
  <2> QED
    BY <1>2, <2>1, GotoType DEF TypeOK, CleanAttempts, resetVars, histories
<1>3. CASE CountAttempts(a)
  <2>1. load' \in Nat
    BY <1>3, CountType DEF TypeOK, CountAttempts, Larger
  <2>2. apc' \in [Asks -> {"new"} \cup AskRuns \cup Ended]
    BY <1>3, GotoType DEF CountAttempts
  <2> QED
    BY <1>3, <2>1, <2>2 DEF TypeOK, CountAttempts, resetVars
<1>4. CASE FailOpen(a)
  <2>1. load' \in Nat
    BY <1>4, CountType DEF TypeOK, FailOpen, Larger
  <2> QED
    BY <1>4, <2>1, GotoType DEF TypeOK, FailOpen, resetVars
<1>5. CASE FindUser(a)
  BY <1>5, GotoType DEF TypeOK, FindUser, resetVars, histories
<1>6. CASE RecordAttempt(a)
  <2> DEFINE row == [created |-> now, expires |-> since[a] + Window]
  <2>1. row \in Attempt
    BY <1>6, ResetAssumptions DEF TypeOK, Attempt
  <2>2. attempts' = [attempts EXCEPT ![a] = row]
    BY <1>6 DEF RecordAttempt
  <2> HIDE DEF row
  <2>3. attempts' \in [Asks -> Attempt \cup {None}]
    BY <2>1, <2>2 DEF TypeOK
  <2> QED
    BY <1>6, <2>3, GotoType DEF TypeOK, RecordAttempt, resetVars
<1>7. CASE SweepTokens(a)
  <2>1. PICK t \in since[a] .. now :
            /\ since' = [since EXCEPT ![a] = t]
            /\ token' = [b \in Asks |-> IF token[b] # None /\ token[b].expires < t
                                          THEN None ELSE token[b]]
    BY <1>7 DEF SweepTokens
  <2>2. since' \in [Asks -> Nat]
    BY <2>1 DEF TypeOK
  <2>3. token' \in [Asks -> Token \cup {None}]
    BY <2>1 DEF TypeOK
  <2> QED
    BY <1>7, <2>2, <2>3, GotoType DEF TypeOK, SweepTokens, resetVars, histories
<1>8. CASE CreateToken(a)
  <2> DEFINE row == [expires |-> since[a] + Lifetime, used |-> FALSE]
  <2>1. row \in Token
    BY <1>8, ResetAssumptions DEF TypeOK, Token
  <2>2. token' = [token EXCEPT ![a] = row]
    BY <1>8 DEF CreateToken
  <2> HIDE DEF row
  <2>3. token' \in [Asks -> Token \cup {None}]
    BY <2>1, <2>2 DEF TypeOK
  <2> QED
    BY <1>8, <2>3, GotoType DEF TypeOK, CreateToken, resetVars, histories
<1>9. CASE SendMail(a)
  BY <1>9, GotoType DEF TypeOK, SendMail, resetVars, histories
<1>10. CASE RejectAsk(a)
  BY <1>10, GotoType DEF TypeOK, RejectAsk, resetVars, histories
<1> QED
  BY <1>1, <1>2, <1>3, <1>4, <1>5, <1>6, <1>7, <1>8, <1>9, <1>10 DEF AskStep

\* The token a reset that writes has found: its row is only marked.
LEMMA MarkedToken ==
    ASSUME TypeOK, NEW r \in Resets, rpc[r] = "write", token[uses[r]] # None,
           token' = [token EXCEPT ![uses[r]] = [@ EXCEPT !.used = TRUE]]
    PROVE  /\ token' \in [Asks -> Token \cup {None}]
           /\ token'[uses[r]] # None /\ token'[uses[r]].used
           /\ \A b \in Asks \ {uses[r]} : token'[b] = token[b]
<1> DEFINE row == [token[uses[r]] EXCEPT !.used = TRUE]
<1>1. uses[r] \in Asks /\ token[uses[r]] \in Token
  BY DEF TypeOK
<1>2. row \in Token /\ row.used
  BY <1>1 DEF Token
<1>3. row # None
  BY <1>2, ResetAssumptions DEF Token
<1>4. token' = [token EXCEPT ![uses[r]] = row]
  OBVIOUS
<1> HIDE DEF row
<1>5. token' \in [Asks -> Token \cup {None}]
  BY <1>1, <1>2, <1>4 DEF TypeOK
<1>6. token'[uses[r]] = row
  BY <1>1, <1>4 DEF TypeOK
<1>7. \A b \in Asks \ {uses[r]} : token'[b] = token[b]
  BY <1>4 DEF TypeOK
<1> QED
  BY <1>2, <1>3, <1>5, <1>6, <1>7

LEMMA ResetType == ASSUME TypeOK, NEW r \in Resets, ResetStep(r) PROVE TypeOK'
<1> USE DEF ResetRuns, Ended
<1>1. ASSUME NEW a \in Asks, StartReset(r, a) PROVE TypeOK'
  <2>1. /\ rpc' \in [Resets -> {"new"} \cup ResetRuns \cup Ended]
        /\ uses' \in [Resets -> Asks \cup {None}]
    BY <1>1, GotoType DEF TypeOK, StartReset
  <2>2. \A s \in Resets : rpc'[s] # "new" => uses'[s] \in Asks
    BY <1>1 DEF TypeOK, StartReset, ResetGoto
  <2> QED
    BY <1>1, <2>1, <2>2 DEF TypeOK, StartReset, askVars, histories
<1>2. CASE ReadToken(r)
  <2>1. /\ rpc' \in [Resets -> {"new"} \cup ResetRuns \cup Ended]
        /\ \A s \in Resets : rpc'[s] # "new" => uses'[s] \in Asks
    BY <1>2 DEF TypeOK, ReadToken, ResetGoto
  <2> QED
    BY <1>2, <2>1 DEF TypeOK, ReadToken, askVars, histories
<1>3. CASE WritePassword(r)
  <2>1. token' \in [Asks -> Token \cup {None}]
    BY <1>3, MarkedToken DEF TypeOK, WritePassword
  <2>2. /\ rpc' \in [Resets -> {"new"} \cup ResetRuns \cup Ended]
        /\ \A s \in Resets : rpc'[s] # "new" => uses'[s] \in Asks
    BY <1>3 DEF TypeOK, WritePassword, ResetGoto
  <2>3. password' \in Resets \cup {None} /\ met' \in [Resets -> SUBSET Resets]
    BY <1>3 DEF TypeOK, WritePassword
  <2> QED
    BY <1>3, <2>1, <2>2, <2>3 DEF TypeOK, WritePassword, askVars
<1>4. CASE RejectReset(r)
  <2>1. /\ rpc' \in [Resets -> {"new"} \cup ResetRuns \cup Ended]
        /\ \A s \in Resets : rpc'[s] # "new" => uses'[s] \in Asks
    BY <1>4 DEF TypeOK, RejectReset, ResetGoto
  <2> QED
    BY <1>4, <2>1 DEF TypeOK, RejectReset, askVars, histories
<1> QED
  BY <1>1, <1>2, <1>3, <1>4 DEF ResetStep

LEMMA NextType == TypeOK /\ [Next]_vars => TypeOK'
<1> SUFFICES ASSUME TypeOK, [Next]_vars PROVE TypeOK'
  OBVIOUS
<1>1. CASE Tick
  BY <1>1 DEF TypeOK, Tick, askVars, resetVars, histories
<1>2. CASE Crash
  BY <1>2 DEF TypeOK, Crash, AskRuns, ResetRuns, Ended, histories
<1>3. CASE UNCHANGED vars
  BY <1>3 DEF TypeOK, vars, askVars, resetVars, histories
<1> QED
  BY <1>1, <1>2, <1>3, AskType, ResetType DEF Next

-----------------------------------------------------------------------------
(* Resets.                                                                 *)

Sent == {"send", "done", "lost"}

Spent(row) == row = None \/ row.used

\* What a step of an ask does to the tokens: it makes its own, once, and spoils none.
LEMMA AskTokens ==
    ASSUME TypeOK, NEW a \in Asks, AskStep(a)
    PROVE  /\ apc[a] \notin {"done", "lost"}
           /\ apc[a] = "send" => apc'[a] = "done"
           /\ \A b \in Asks \ {a} : apc'[b] = apc[b]
           /\ \A b \in Asks : token'[b] # None => token[b] # None \/ (b = a /\ apc'[a] = "send")
           /\ \A b \in Asks : Spent(token[b]) => Spent(token'[b]) \/ (b = a /\ apc[a] = "token")
           /\ UNCHANGED <<password, resetVars, met>>
<1> USE DEF AskGoto, Spent, resetVars
<1>1. CASE StartAsk(a)
  BY <1>1 DEF TypeOK, StartAsk, histories
<1>2. CASE CleanAttempts(a)
  BY <1>2 DEF TypeOK, CleanAttempts, histories
<1>3. CASE CountAttempts(a)
  BY <1>3 DEF TypeOK, CountAttempts
<1>4. CASE FailOpen(a)
  BY <1>4 DEF TypeOK, FailOpen
<1>5. CASE FindUser(a)
  BY <1>5 DEF TypeOK, FindUser, histories
<1>6. CASE RecordAttempt(a)
  BY <1>6 DEF TypeOK, RecordAttempt
<1>7. CASE SweepTokens(a)
  <2>1. \A b \in Asks : token'[b] = token[b] \/ token'[b] = None
    BY <1>7 DEF TypeOK, SweepTokens
  <2> QED
    BY <1>7, <2>1 DEF TypeOK, SweepTokens, histories
<1>8. CASE CreateToken(a)
  <2>1. \A b \in Asks \ {a} : token'[b] = token[b]
    BY <1>8 DEF TypeOK, CreateToken
  <2> QED
    BY <1>8, <2>1 DEF TypeOK, CreateToken, histories
<1>9. CASE SendMail(a)
  BY <1>9 DEF TypeOK, SendMail, histories
<1>10. CASE RejectAsk(a)
  BY <1>10 DEF TypeOK, RejectAsk, histories
<1> QED
  BY <1>1, <1>2, <1>3, <1>4, <1>5, <1>6, <1>7, <1>8, <1>9, <1>10 DEF AskStep

LEMMA AskKeepsResetInv ==
    ASSUME TypeOK, ResetInv, NEW a \in Asks, AskStep(a)
    PROVE  ResetInv'
<1>1. SentInv'
  <2> SUFFICES ASSUME NEW b \in Asks, NEW r \in Resets
               PROVE  /\ token'[b] # None => apc'[b] \in Sent
                      /\ rpc'[r] \in {"write", "done"} => apc'[uses'[r]] \in Sent
    BY DEF SentInv, Sent
  <2>1. token'[b] # None => apc'[b] \in Sent
    BY AskTokens DEF ResetInv, SentInv, Sent
  <2>2. rpc[r] \in {"write", "done"} => uses[r] \in Asks
    BY DEF TypeOK
  <2>3. rpc'[r] \in {"write", "done"} => apc'[uses'[r]] \in Sent
    BY <2>2, AskTokens DEF ResetInv, SentInv, Sent, resetVars
  <2> QED
    BY <2>1, <2>3
<1>2. SpentInv'
  <2> SUFFICES ASSUME NEW r \in Resets, rpc[r] = "done" PROVE Spent(token'[uses[r]])
    BY AskTokens DEF SpentInv, Spent, resetVars
  <2>1. uses[r] \in Asks /\ apc[uses[r]] # "token" /\ Spent(token[uses[r]])
    BY DEF TypeOK, ResetInv, SentInv, SpentInv, Spent
  <2> QED
    BY <2>1, AskTokens
<1>3. MetInv' /\ PasswordInv'
  BY AskTokens DEF ResetInv, MetInv, PasswordInv, resetVars
<1> QED
  BY <1>1, <1>2, <1>3 DEF ResetInv

LEMMA ResetKeepsResetInv ==
    ASSUME TypeOK, ResetInv, NEW r \in Resets, ResetStep(r)
    PROVE  ResetInv'
<1> USE DEF ResetGoto, ResetRuns
<1>1. ASSUME NEW a \in Asks, StartReset(r, a) PROVE ResetInv'
  <2>1. /\ rpc'[r] = "read" /\ rpc[r] = "new"
        /\ \A s \in Resets \ {r} : rpc'[s] = rpc[s] /\ uses'[s] = uses[s]
        /\ UNCHANGED <<password, token, apc, met>>
    BY <1>1 DEF TypeOK, StartReset, askVars, histories
  <2> QED
    BY <2>1 DEF TypeOK, ResetInv, SentInv, SpentInv, MetInv, PasswordInv
<1>2. CASE ReadToken(r)
  <2>1. /\ \/ rpc'[r] = "refused"
           \/ /\ rpc'[r] = "write"
              /\ token[uses[r]] # None /\ ~token[uses[r]].used
        /\ rpc[r] = "read"
        /\ \A s \in Resets \ {r} : rpc'[s] = rpc[s]
        /\ UNCHANGED <<password, token, apc, uses, met>>
    BY <1>2 DEF TypeOK, ReadToken, Valid, askVars, histories
  <2>2. uses[r] \in Asks
    BY <2>1 DEF TypeOK
  <2>3. SentInv' /\ SpentInv' /\ PasswordInv'
    BY <2>1, <2>2 DEF TypeOK, ResetInv, SentInv, SpentInv, PasswordInv
  <2>4. MetInv'
    BY <2>1 DEF ResetInv, SpentInv, MetInv
  <2> QED
    BY <2>3, <2>4 DEF ResetInv
<1>3. CASE WritePassword(r)
  <2> DEFINE same == {s \in Resets \ {r} : rpc[s] = "write" /\ uses[s] = uses[r]}
  <2>1. /\ rpc[r] = "write" /\ uses[r] \in Asks
        /\ \A s \in Resets \ {r} : rpc'[s] = rpc[s]
        /\ UNCHANGED <<apc, uses>>
    BY <1>3 DEF TypeOK, WritePassword, askVars
  <2>2. CASE token[uses[r]] = None
    <3>1. rpc'[r] = "failed" /\ UNCHANGED <<token, password, met>>
      BY <1>3, <2>2 DEF TypeOK, WritePassword
    <3> QED
      BY <2>1, <3>1 DEF TypeOK, ResetInv, SentInv, SpentInv, MetInv, PasswordInv
  <2>3. CASE token[uses[r]] # None
    <3>1. /\ rpc'[r] = "done" /\ password' = r
          /\ met'[r] = same /\ \A s \in Resets \ {r} : met'[s] = met[s]
      BY <1>3, <2>3 DEF TypeOK, WritePassword
    <3>2. /\ token'[uses[r]] # None /\ token'[uses[r]].used
          /\ \A b \in Asks \ {uses[r]} : token'[b] = token[b]
      BY <1>3, <2>1, <2>3, MarkedToken DEF WritePassword
    <3>3. SentInv'
      BY <2>1, <2>3, <3>1, <3>2 DEF TypeOK, ResetInv, SentInv
    <3>4. SpentInv'
      BY <2>1, <3>1, <3>2 DEF TypeOK, ResetInv, SpentInv
    <3>5. MetInv'
      <4>1. \A s \in Resets : rpc'[s] \in {"new", "read", "write"} => met'[s] = {}
        BY <2>1, <3>1 DEF ResetInv, MetInv
      <4>2. ASSUME NEW s \in Resets \ {r}, rpc[s] \in {"write", "done"}, uses[s] = uses[r]
            PROVE  s \in met'[r] \/ r \in met'[s]
        BY <2>1, <3>1, <4>2 DEF ResetInv, MetInv
      <4>3. ASSUME NEW s \in Resets, NEW t \in Resets, rpc'[s] = "done",
                   rpc'[t] \in {"write", "done"}, uses'[s] = uses'[t]
            PROVE  s = t \/ t \in met'[s] \/ s \in met'[t]
        <5>1. CASE s # r /\ t # r
          BY <2>1, <3>1, <4>3, <5>1 DEF ResetInv, MetInv
        <5>2. CASE s = r \/ t = r
          BY <2>1, <4>2, <4>3, <5>2
        <5> QED
          BY <5>1, <5>2
      <4> QED
        BY <4>1, <4>3 DEF MetInv
    <3>6. PasswordInv'
      BY <3>1 DEF PasswordInv
    <3> QED
      BY <3>3, <3>4, <3>5, <3>6 DEF ResetInv
  <2> QED
    BY <2>2, <2>3
<1>4. CASE RejectReset(r)
  <2>1. /\ rpc'[r] = "failed" /\ rpc[r] \in {"read", "write"}
        /\ \A s \in Resets \ {r} : rpc'[s] = rpc[s]
        /\ UNCHANGED <<password, token, apc, uses, met>>
    BY <1>4 DEF TypeOK, RejectReset, askVars, histories
  <2> QED
    BY <2>1 DEF TypeOK, ResetInv, SentInv, SpentInv, MetInv, PasswordInv
<1> QED
  BY <1>1, <1>2, <1>3, <1>4 DEF ResetStep

LEMMA ResetInvStep ==
    ASSUME TypeOK, ResetInv, [Next]_vars PROVE ResetInv'
<1>1. CASE Tick
  BY <1>1 DEF Tick, ResetInv, SentInv, SpentInv, MetInv, PasswordInv, askVars, resetVars, histories
<1>2. CASE Crash
  <2>1. /\ \A a \in Asks : apc[a] \in Sent => apc'[a] \in Sent
        /\ \A r \in Resets : rpc'[r] \notin ResetRuns
                          /\ (rpc'[r] \in {"new", "done"} => rpc[r] = rpc'[r])
                          /\ (rpc[r] = "done" => rpc'[r] = "done")
        /\ UNCHANGED <<token, password, uses, met>>
    BY <1>2 DEF TypeOK, Crash, Sent, AskRuns, ResetRuns, histories
  <2>2. \A r \in Resets : rpc[r] = "done" => uses[r] \in Asks
    BY DEF TypeOK
  <2>3. SentInv'
    BY <2>1, <2>2 DEF ResetInv, SentInv, Sent, ResetRuns
  <2>4. SpentInv' /\ MetInv' /\ PasswordInv'
    BY <2>1 DEF TypeOK, ResetInv, SpentInv, MetInv, PasswordInv, ResetRuns
  <2> QED
    BY <2>3, <2>4 DEF ResetInv
<1>3. CASE UNCHANGED vars
  BY <1>3 DEF vars, ResetInv, SentInv, SpentInv, MetInv, PasswordInv, askVars, resetVars, histories
<1> QED
  BY <1>1, <1>2, <1>3, AskKeepsResetInv, ResetKeepsResetInv DEF Next

-----------------------------------------------------------------------------
(* Asks.                                                                   *)

\* A step of an ask, reduced to what the clock, the rows and the counters see of it.
LEMMA AskRows ==
    ASSUME TypeOK, NEW a \in Asks, AskStep(a)
    PROVE  /\ now' = now
           /\ \A b \in Asks \ {a} : since'[b] = since[b] /\ apc'[b] = apc[b]
           /\ since'[a] <= now \/ since'[a] = since[a]
           /\ ~RecordAttempt(a) => made' = made
           /\ ~RecordAttempt(a) /\ ~CleanAttempts(a) => attempts' = attempts
<1> USE DEF AskGoto
<1>1. CASE StartAsk(a)
  BY <1>1 DEF TypeOK, StartAsk, histories
<1>2. CASE CleanAttempts(a)
  BY <1>2 DEF TypeOK, CleanAttempts, histories
<1>3. CASE CountAttempts(a)
  BY <1>3 DEF TypeOK, CountAttempts
<1>4. CASE FailOpen(a)
  BY <1>4 DEF TypeOK, FailOpen
<1>5. CASE FindUser(a)
  BY <1>5 DEF TypeOK, FindUser, histories
<1>6. CASE RecordAttempt(a)
  BY <1>6 DEF TypeOK, RecordAttempt
<1>7. CASE SweepTokens(a)
  BY <1>7 DEF TypeOK, SweepTokens, histories
<1>8. CASE CreateToken(a)
  BY <1>8 DEF TypeOK, CreateToken, histories
<1>9. CASE SendMail(a)
  BY <1>9 DEF TypeOK, SendMail, histories
<1>10. CASE RejectAsk(a)
  BY <1>10 DEF TypeOK, RejectAsk, histories
<1> QED
  BY <1>1, <1>2, <1>3, <1>4, <1>5, <1>6, <1>7, <1>8, <1>9, <1>10 DEF AskStep

LEMMA AskKeepsRows ==
    ASSUME TypeOK, ClockInv, RowInv, NEW a \in Asks, AskStep(a)
    PROVE  ClockInv' /\ RowInv'
<1>1. ClockInv'
  BY AskRows DEF ClockInv
<1>2. CASE RecordAttempt(a)
  <2> DEFINE row == [created |-> now, expires |-> since[a] + Window]
  <2>1. row \in Attempt /\ row.created = now /\ row.expires = since[a] + Window
    BY ResetAssumptions DEF TypeOK, Attempt
  <2>2. attempts' = [attempts EXCEPT ![a] = row] /\ made' = [made EXCEPT ![a] = since[a]]
    BY <1>2 DEF RecordAttempt
  <2>3. row # None
    BY <2>1, ResetAssumptions DEF Attempt
  <2> HIDE DEF row
  <2>4. attempts'[a] = row /\ made'[a] = since[a]
    BY <2>2 DEF TypeOK
  <2>5. \A b \in Asks \ {a} : attempts'[b] = attempts[b] /\ made'[b] = made[b]
    BY <2>2 DEF TypeOK
  <2>6. since[a] <= now
    BY DEF ClockInv
  <2> QED
    BY <1>1, <2>1, <2>3, <2>4, <2>5, <2>6, AskRows DEF RowInv
<1>3. CASE CleanAttempts(a)
  <2>1. made' = made /\ now' = now
    BY <1>3 DEF CleanAttempts, histories
  <2>2. ASSUME NEW b \in Asks, made[b] # None
        PROVE  /\ made[b] + Window >= now => attempts'[b] # None
               /\ attempts'[b] # None => attempts'[b] = attempts[b]
    <3>1. attempts'[b] = IF attempts[b] # None /\ attempts[b].expires < since[a]
                         THEN None ELSE attempts[b]
      BY <1>3 DEF CleanAttempts
    <3>2. since[a] <= now /\ since[a] \in Nat /\ now \in Nat
      BY DEF ClockInv, TypeOK
    <3>3. made[b] \in Nat
      BY <2>2 DEF TypeOK
    <3>4. attempts[b] # None => attempts[b].expires = made[b] + Window
      BY <2>2 DEF RowInv
    <3>5. made[b] + Window >= now => attempts[b] # None
      BY <2>2 DEF RowInv
    <3> QED
      BY <3>1, <3>2, <3>3, <3>4, <3>5, ResetAssumptions
  <2> QED
    BY <1>1, <2>1, <2>2 DEF RowInv
<1>4. CASE ~RecordAttempt(a) /\ ~CleanAttempts(a)
  <2>1. UNCHANGED <<now, made, attempts>>
    BY <1>4, AskRows
  <2> QED
    BY <1>1, <2>1 DEF RowInv
<1> QED
  BY <1>2, <1>3, <1>4

\* The asks that count against the limit.
Counted == Recent \cup LetIn

LEMMA CountedFinite ==
    /\ IsFiniteSet(Counted) /\ IsFiniteSet(LetIn)
    /\ \A S \in SUBSET Asks : IsFiniteSet(S) /\ Cardinality(S) \in Nat
  BY ResetAssumptions, FS_Subset, FS_CardinalityType DEF Counted, Recent, LetIn

\* A step that counts no further ask, and forgets none, keeps the limit.
LEMMA NoMoreCounted ==
    ASSUME TypeOK, LimitInv, Counted' \subseteq Counted, UNCHANGED <<load, uncounted>>
    PROVE  LimitInv'
<1>1. Cardinality(Counted') <= Cardinality(Counted)
  BY CountedFinite, FS_Subset
<1>2. Counted \in SUBSET Asks /\ Counted' \in SUBSET Asks /\ uncounted \in SUBSET Asks
  BY DEF TypeOK, Counted, Recent, LetIn
<1>3. /\ Cardinality(Counted) \in Nat /\ Cardinality(Counted') \in Nat
      /\ Cardinality(uncounted) \in Nat /\ load \in Nat
  BY <1>2, CountedFinite DEF TypeOK
<1>4. Cardinality(Counted) <= (MaxAttempts - 1) + load + Cardinality(uncounted)
  BY DEF LimitInv, Counted
<1>5. Cardinality(Counted') <= (MaxAttempts - 1) + load' + Cardinality(uncounted')
  BY <1>1, <1>3, <1>4, ResetAssumptions
<1> QED
  BY <1>5 DEF LimitInv, Counted

\* The ask the count lets in: fewer recent attempts than the limit, and the load.
LEMMA CountKeepsLimit ==
    ASSUME TypeOK, ClockInv, RowInv, NEW a \in Asks, CountAttempts(a),
           apc' = [apc EXCEPT ![a] = "findUser"],
           Cardinality(Attempted(since[a] - Window)) < MaxAttempts,
           load' = Larger(load, Cardinality(LetIn \cup {a}))
    PROVE  LimitInv'
<1> DEFINE seen == Attempted(since[a] - Window)
           open == LetIn \cup {a}
<1>1. /\ Recent' = Recent /\ LetIn' \subseteq open /\ uncounted' = uncounted
  BY DEF TypeOK, CountAttempts, Recent, LetIn
<1>2. Recent \subseteq seen
  <2> SUFFICES ASSUME NEW b \in Recent PROVE b \in seen
    OBVIOUS
  <2>1. b \in Asks /\ made[b] \in Nat /\ made[b] # None /\ made[b] + Window >= now
    BY DEF TypeOK, Recent
  <2>2. attempts[b] # None /\ attempts[b].created >= made[b] /\ attempts[b] \in Attempt
    BY <2>1 DEF TypeOK, RowInv
  <2>3. attempts[b].created \in Nat /\ since[a] \in Nat /\ since[a] <= now /\ now \in Nat
    BY <2>2 DEF TypeOK, ClockInv, Attempt
  <2> QED
    BY <2>1, <2>2, <2>3, ResetAssumptions DEF Attempted
<1>3. /\ seen \in SUBSET Asks /\ open \in SUBSET Asks /\ Recent \in SUBSET Asks
      /\ Counted' \in SUBSET Asks /\ uncounted \in SUBSET Asks
  BY DEF TypeOK, Attempted, LetIn, Recent, Counted
<1> HIDE DEF seen, open
<1>4. /\ Cardinality(Recent) <= Cardinality(seen)
      /\ Cardinality(Counted') <= Cardinality(Recent \cup open)
      /\ Recent \cup open \in SUBSET Asks
  BY <1>1, <1>2, <1>3, CountedFinite, FS_Subset DEF Counted
<1>5. Cardinality(Recent \cup open) <= Cardinality(Recent) + Cardinality(open)
  <2>1. Recent \cap open \in SUBSET Asks
    BY <1>3
  <2>2. Cardinality(Recent \cap open) \in Nat
    BY <2>1, CountedFinite
  <2>3. Cardinality(Recent \cup open)
            = Cardinality(Recent) + Cardinality(open) - Cardinality(Recent \cap open)
    BY <1>3, CountedFinite, FS_Union
  <2> QED
    BY <1>3, <2>2, <2>3, CountedFinite
<1>6. load' >= Cardinality(open) /\ Cardinality(seen) < MaxAttempts /\ load' \in Nat
  BY <1>3, CountedFinite DEF open, seen, TypeOK, Larger
<1>7. /\ Cardinality(seen) \in Nat /\ Cardinality(open) \in Nat /\ Cardinality(Recent) \in Nat
      /\ Cardinality(Counted') \in Nat /\ Cardinality(uncounted) \in Nat
      /\ Cardinality(Recent \cup open) \in Nat
  BY <1>3, <1>4, CountedFinite
<1>8. Cardinality(Counted') <= (MaxAttempts - 1) + load' + Cardinality(uncounted)
  BY <1>4, <1>5, <1>6, <1>7, ResetAssumptions
<1> QED
  BY <1>1, <1>8 DEF LimitInv, Counted

\* The ask a failed count lets in is one more that was not counted.
LEMMA FailOpenKeepsLimit ==
    ASSUME TypeOK, EarlyInv, LimitInv, NEW a \in Asks, FailOpen(a)
    PROVE  LimitInv'
<1>1. Counted' \subseteq Counted \cup {a} /\ uncounted' = uncounted \cup {a}
  BY DEF TypeOK, FailOpen, AskGoto, Counted, Recent, LetIn
<1>2. a \notin uncounted
  BY DEF FailOpen, EarlyInv
<1>3. /\ Counted \in SUBSET Asks /\ Counted \cup {a} \in SUBSET Asks
      /\ Counted' \in SUBSET Asks /\ uncounted \in SUBSET Asks
  BY DEF TypeOK, LetIn, Recent, Counted
<1>4. Cardinality(uncounted') = Cardinality(uncounted) + 1
  BY <1>1, <1>2, <1>3, CountedFinite, FS_AddElement
<1>5. Cardinality(Counted') <= Cardinality(Counted \cup {a})
  BY <1>1, <1>3, CountedFinite, FS_Subset
<1>6. Cardinality(Counted \cup {a}) <= Cardinality(Counted) + 1
  BY <1>3, CountedFinite, FS_AddElement
<1>7. load' >= load /\ load' \in Nat /\ load \in Nat
  BY CountType DEF TypeOK, FailOpen, Larger
<1>8. /\ Cardinality(Counted') \in Nat /\ Cardinality(Counted) \in Nat
      /\ Cardinality(Counted \cup {a}) \in Nat /\ Cardinality(uncounted) \in Nat
  BY <1>3, CountedFinite
<1>9. Cardinality(Counted) <= (MaxAttempts - 1) + load + Cardinality(uncounted)
  BY DEF LimitInv, Counted
<1>10. Cardinality(Counted') <= (MaxAttempts - 1) + load' + Cardinality(uncounted')
  BY <1>4, <1>5, <1>6, <1>7, <1>8, <1>9, ResetAssumptions
<1> QED
  BY <1>10 DEF LimitInv, Counted

LEMMA AskKeepsLimit ==
    ASSUME TypeOK, AskInv, NEW a \in Asks, AskStep(a)
    PROVE  EarlyInv' /\ LimitInv'
<1> USE DEF AskGoto
<1>1. CASE CountAttempts(a)
  <2>1. EarlyInv'
    BY <1>1 DEF TypeOK, CountAttempts, AskInv, EarlyInv
  <2>2. CASE Cardinality(Attempted(since[a] - Window)) < MaxAttempts
    BY <1>1, <2>1, <2>2, CountKeepsLimit DEF CountAttempts, AskInv
  <2>3. CASE ~(Cardinality(Attempted(since[a] - Window)) < MaxAttempts)
    <3>1. Counted' \subseteq Counted /\ UNCHANGED <<load, uncounted>>
      BY <1>1, <2>3 DEF TypeOK, CountAttempts, Counted, Recent, LetIn
    <3> QED
      BY <2>1, <3>1, NoMoreCounted DEF AskInv
  <2> QED
    BY <2>2, <2>3
<1>2. CASE FailOpen(a)
  <2>1. EarlyInv'
    BY <1>2 DEF TypeOK, FailOpen, AskInv, EarlyInv
  <2> QED
    BY <1>2, <2>1, FailOpenKeepsLimit DEF AskInv
<1>3. CASE RecordAttempt(a)
  <2>1. Counted' \subseteq Counted /\ UNCHANGED <<load, uncounted>>
    BY <1>3 DEF TypeOK, RecordAttempt, Counted, Recent, LetIn
  <2>2. EarlyInv'
    BY <1>3 DEF TypeOK, RecordAttempt, AskInv, EarlyInv
  <2> QED
    BY <2>1, <2>2, NoMoreCounted DEF AskInv
<1>4. CASE ~CountAttempts(a) /\ ~FailOpen(a) /\ ~RecordAttempt(a)
  <2>1. /\ UNCHANGED <<now, made, load, uncounted>>
        /\ \A b \in Asks \ {a} : apc'[b] = apc[b]
        /\ apc'[a] \in {"new", "clean", "count"} => apc[a] \in {"new", "clean", "count"}
        /\ apc'[a] \in {"findUser", "attempt"} => apc[a] \in {"findUser", "attempt"}
    BY <1>4 DEF TypeOK, AskStep, StartAsk, CleanAttempts, FindUser, SweepTokens, CreateToken,
                SendMail, RejectAsk, histories
  <2>2. Counted' \subseteq Counted
    BY <2>1 DEF Counted, Recent, LetIn
  <2>3. EarlyInv'
    BY <2>1 DEF AskInv, EarlyInv
  <2> QED
    BY <2>1, <2>2, <2>3, NoMoreCounted DEF AskInv
<1> QED
  BY <1>1, <1>2, <1>3, <1>4

LEMMA AskInvStep ==
    ASSUME TypeOK, AskInv, [Next]_vars PROVE AskInv'
<1>1. ASSUME NEW a \in Asks, AskStep(a) PROVE AskInv'
  BY <1>1, AskKeepsRows, AskKeepsLimit DEF AskInv
<1>2. CASE Tick
  <2>1. /\ now' = now + 1 /\ now \in Nat
        /\ UNCHANGED <<apc, since, attempts, made, load, uncounted>>
    BY <1>2 DEF Tick, TypeOK, askVars, histories
  <2>2. ClockInv'
    BY <2>1 DEF TypeOK, AskInv, ClockInv
  <2>3. \A a \in Asks : made[a] # None =>
            /\ made[a] \in Nat
            /\ made[a] + Window >= now + 1 => made[a] + Window >= now
    BY <2>1, ResetAssumptions DEF TypeOK
  <2>4. RowInv' /\ Counted' \subseteq Counted
    BY <2>1, <2>3 DEF AskInv, RowInv, Counted, Recent, LetIn
  <2>5. EarlyInv'
    BY <2>1 DEF AskInv, EarlyInv
  <2> QED
    BY <2>1, <2>2, <2>4, <2>5, NoMoreCounted DEF AskInv
<1>3. ASSUME NEW r \in Resets, ResetStep(r) PROVE AskInv'
  <2>1. UNCHANGED <<now, apc, since, attempts, made, load, uncounted>>
    BY <1>3 DEF ResetStep, StartReset, ReadToken, WritePassword, RejectReset, askVars, histories
  <2> QED
    BY <2>1 DEF AskInv, ClockInv, RowInv, EarlyInv, LimitInv, Recent, LetIn
<1>4. CASE Crash
  <2>1. /\ UNCHANGED <<now, since, attempts, made, load, uncounted>>
        /\ \A a \in Asks : apc'[a] \in {"new", "lost", apc[a]} \ AskRuns
                           /\ (apc'[a] = "new" => apc[a] = "new")
    BY <1>4 DEF TypeOK, Crash, AskRuns, Ended, histories
  <2>2. Counted' \subseteq Counted /\ EarlyInv'
    BY <2>1 DEF AskInv, EarlyInv, Counted, Recent, LetIn, AskRuns
  <2> QED
    BY <2>1, <2>2, NoMoreCounted DEF AskInv, ClockInv, RowInv
<1>5. CASE UNCHANGED vars
  BY <1>5 DEF vars, askVars, histories, AskInv, ClockInv, RowInv, EarlyInv, LimitInv, Recent, LetIn
<1> QED
  BY <1>1, <1>2, <1>3, <1>4, <1>5 DEF Next

-----------------------------------------------------------------------------
(* The theorems.                                                           *)

LEMMA InitInv == Init => IInv
<1> SUFFICES ASSUME Init PROVE IInv
  OBVIOUS
<1>1. TypeOK
  BY InitType
<1>2. /\ \A a \in Asks : since[a] = 0 /\ made[a] = None /\ apc[a] = "new" /\ token[a] = None
      /\ \A r \in Resets : rpc[r] = "new" /\ met[r] = {}
      /\ load = 0 /\ uncounted = {} /\ password = None
  BY DEF Init
<1>3. Recent \cup LetIn = {}
  BY <1>2 DEF Recent, LetIn
<1>4. LimitInv
  <2>1. Cardinality(Recent \cup LetIn) = 0 /\ Cardinality(uncounted) = 0 /\ load = 0
    BY <1>2, <1>3, FS_EmptySet
  <2> QED
    BY <2>1, ResetAssumptions DEF LimitInv
<1>5. ClockInv /\ RowInv /\ EarlyInv
  BY <1>1, <1>2 DEF TypeOK, ClockInv, RowInv, EarlyInv
<1>6. ResetInv
  BY <1>2 DEF ResetInv, SentInv, SpentInv, MetInv, PasswordInv
<1> QED
  BY <1>1, <1>4, <1>5, <1>6 DEF IInv, AskInv

LEMMA NextInv == IInv /\ [Next]_vars => IInv'
  BY NextType, AskInvStep, ResetInvStep DEF IInv

LEMMA Invariant == Spec => []IInv
  BY InitInv, NextInv, PTL DEF Spec

(* Every state of the protocol has its type. *)
THEOREM TypeCorrect == Spec => []TypeOK
<1>1. IInv => TypeOK
  BY DEF IInv
<1> QED
  BY <1>1, Invariant, PTL

(* However many ask at once, and whichever counts fail: the attempts of any *)
(* window exceed the limit by no more than the asks let in together and     *)
(* those whose count failed.                                                *)
THEOREM LimitHolds == Spec => []OverrunOnlyByOverlap
<1>1. IInv => OverrunOnlyByOverlap
  <2> SUFFICES ASSUME IInv PROVE OverrunOnlyByOverlap
    OBVIOUS
  <2>1. Recent \in SUBSET Asks /\ Counted \in SUBSET Asks /\ uncounted \in SUBSET Asks
    BY DEF IInv, TypeOK, Recent, Counted, LetIn
  <2>2. Cardinality(Recent) <= Cardinality(Counted)
    BY <2>1, CountedFinite, FS_Subset DEF Counted
  <2>3. /\ Cardinality(Recent) \in Nat /\ Cardinality(Counted) \in Nat
        /\ Cardinality(uncounted) \in Nat /\ load \in Nat
    BY <2>1, CountedFinite DEF IInv, TypeOK
  <2>4. Cardinality(Counted) <= (MaxAttempts - 1) + load + Cardinality(uncounted)
    BY DEF IInv, AskInv, LimitInv, Counted
  <2>5. Cardinality(Recent) <= (MaxAttempts - 1) + load + Cardinality(uncounted)
    BY <2>2, <2>3, <2>4, ResetAssumptions
  <2> QED
    BY <2>5 DEF OverrunOnlyByOverlap, Recent
<1> QED
  BY <1>1, Invariant, PTL

(* Two resets succeed with one token only if they overlapped. *)
THEOREM ReuseNeedsOverlap == Spec => []TokenReusedOnlyByOverlap
<1>1. IInv => TokenReusedOnlyByOverlap
  BY DEF IInv, ResetInv, MetInv, TokenReusedOnlyByOverlap
<1> QED
  BY <1>1, Invariant, PTL

(* A password that a reset set has spent its token, through crashes and failures. *)
THEOREM ChangeIsPaidFor == Spec => []ChangeSpendsToken
<1>1. IInv => ChangeSpendsToken
  BY DEF IInv, TypeOK, ResetInv, PasswordInv, SpentInv, ChangeSpendsToken
<1> QED
  BY <1>1, Invariant, PTL
=============================================================================
