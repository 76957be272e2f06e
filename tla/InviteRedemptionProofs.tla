----------------------- MODULE InviteRedemptionProofs -----------------------
(***************************************************************************)
(* Theorems about InviteRedemption, for every finite set of requests and   *)
(* every set of users, links, roles and limits.                            *)
(***************************************************************************)
EXTENDS InviteRedemption, FiniteSetTheorems, TLAPS

(* Every variable keeps its type. *)
LEMMA TypeInitially == Init => TypeOK
  BY InviteAssumptions DEF Init, TypeOK, InviteRow, Limits

LEMMA TypeStep == TypeOK /\ [Next]_vars => TypeOK'
<1> SUFFICES ASSUME TypeOK, [Next]_vars PROVE TypeOK'
  OBVIOUS
<1> USE InviteAssumptions DEF TypeOK, InviteRow, Limits, requestVars, historyVars
<1>1. ASSUME NEW i \in Invites, AdminStep(i) PROVE TypeOK'
  <2>1. ASSUME NEW limit \in Limits, NEW expired \in BOOLEAN, CreateInvite(i, limit, expired)
        PROVE  TypeOK'
    BY <2>1 DEF CreateInvite
  <2>2. ASSUME NEW disabled \in BOOLEAN, NEW limit \in Limits, NEW expired \in BOOLEAN,
               UpdateInvite(i, disabled, limit, expired)
        PROVE  TypeOK'
    <3> DEFINE row == [invite[i] EXCEPT !.disabled = disabled, !.maxUses = limit,
                                        !.expired = expired]
    <3>0. row \in InviteRow
      <4>1. invite[i] \in InviteRow
        OBVIOUS
      <4> HIDE DEF TypeOK
      <4> QED
        BY <4>1
    <3>1. invite' \in [Invites -> InviteRow]
      BY <2>2, <3>0 DEF UpdateInvite
    <3>2. peak' \in [Invites -> Limits]
      BY <2>2 DEF UpdateInvite, Larger
    <3> QED
      BY <2>2, <3>1, <3>2 DEF UpdateInvite
  <2>3. CASE DeleteInvite(i)
    BY <2>3 DEF DeleteInvite
  <2>4. CASE ExpiryPasses(i)
    <3> DEFINE row == [invite[i] EXCEPT !.expired = TRUE]
    <3>1. row \in InviteRow
      <4>1. invite[i] \in InviteRow
        OBVIOUS
      <4> QED
        BY <4>1
    <3>2. invite' = [invite EXCEPT ![i] = row] /\ UNCHANGED <<accounts, roles, pc, arg, did, peak, load>>
      BY <2>4 DEF ExpiryPasses
    <3> QED
      BY <3>1, <3>2
  <2> QED
    BY <1>1, <2>1, <2>2, <2>3, <2>4 DEF AdminStep
<1>2. ASSUME NEW u \in Users, MemberLeaves(u) PROVE TypeOK'
  BY <1>2 DEF MemberLeaves
<1>3. ASSUME NEW r \in Requests, RequestStep(r) PROVE TypeOK'
  <2>1. ASSUME NEW u \in Users, NEW i \in Invites, NEW kind \in Kinds,
               NEW next \in {"checkMember", "checkEmail"}, ReadInvite(r, kind, u, i, next)
        PROVE  TypeOK'
    <3>1. Cardinality(InFlight(i) \cup {r}) \in Nat
      BY FS_Subset, FS_CardinalityType, InFlight(i) \cup {r} \subseteq Requests DEF InFlight
    <3>2. load' \in [Invites -> Nat]
      BY <2>1, <3>1 DEF ReadInvite, Larger
    <3> QED
      BY <2>1, <3>2 DEF ReadInvite, Goto, Running, Admitted, Ended
  <2>2. ASSUME NEW u \in Users, NEW i \in Invites, StartRedeem(r, u, i) \/ StartRegister(r, u, i)
        PROVE  TypeOK'
    BY <2>1, <2>2 DEF StartRedeem, StartRegister
  <2>3. CASE CheckMember(r)
    BY <2>3 DEF CheckMember, Goto, Running, Admitted, Ended
  <2>4. CASE CheckEmail(r)
    BY <2>4 DEF CheckEmail, Goto, Running, Admitted, Ended
  <2>5. CASE CreateAccount(r)
    BY <2>5 DEF CreateAccount, Goto, Does, Running, Admitted, Ended, Effects
  <2>10. CASE FindRole(r)
    BY <2>10 DEF FindRole, Goto, Running, Admitted, Ended
  <2>6. CASE GrantRole(r)
    <3> DEFINE steps == {"new"} \cup Running \cup Ended
    <3>1. pc' \in [Requests -> steps]
      <4>1. "countUse" \in steps
        BY DEF Running, Admitted
      <4> HIDE DEF steps
      <4>2. pc \in [Requests -> steps] /\ pc' = [pc EXCEPT ![r] = "countUse"]
        BY <2>6 DEF GrantRole, Goto, steps
      <4> QED
        BY <4>1, <4>2
    <3>2. /\ did' \in [Requests -> SUBSET Effects]
          /\ roles' \in [Users -> SUBSET Roles]
      <4>1. arg[r].user \in Users /\ RoleOf[arg[r].invite] \in Roles
        BY <2>6, InviteAssumptions DEF GrantRole
      <4>2. roles[arg[r].user] \cup {RoleOf[arg[r].invite]} \in SUBSET Roles
        BY <4>1
      <4>3. did[r] \cup {"role"} \in SUBSET Effects
        BY DEF Effects
      <4> QED
        BY <2>6, <4>1, <4>2, <4>3 DEF GrantRole, Does
    <3>3. \A q \in Requests : pc'[q] # "new" => arg'[q] # None
      BY <2>6 DEF GrantRole, Goto
    <3> QED
      BY <2>6, <3>1, <3>2, <3>3 DEF GrantRole
  <2>7. CASE CountUse(r)
    <3> DEFINE i == arg[r].invite
               row == [invite[i] EXCEPT !.useCount = @ + 1]
    <3>1. i \in Invites
      BY <2>7 DEF CountUse
    <3>2. row \in InviteRow
      <4> DEFINE old == invite[i]
      <4>1. old \in InviteRow /\ old.useCount + 1 \in Nat
        BY <3>1
      <4> HIDE DEF old
      <4>2. [old EXCEPT !.useCount = @ + 1] \in InviteRow
        BY <4>1
      <4> QED
        BY <4>2 DEF old
    <3>3. invite' \in [Invites -> InviteRow]
      BY <2>7, <3>1, <3>2 DEF CountUse
    <3> DEFINE steps == {"new"} \cup Running \cup Ended
    <3>4. pc' \in [Requests -> steps]
      <4>1. {"findEvent", "joined", "failed"} \subseteq steps
        BY DEF Running, Ended
      <4>2. PICK next \in steps : pc' = [pc EXCEPT ![r] = next]
        BY <2>7, <4>1 DEF CountUse, Goto
      <4> HIDE DEF steps
      <4>3. pc \in [Requests -> steps]
        BY DEF steps
      <4> QED
        BY <4>2, <4>3
    <3>5. did' \in [Requests -> SUBSET Effects]
      BY <2>7 DEF CountUse, Does, Effects
    <3>6. \A q \in Requests : pc'[q] # "new" => arg'[q] # None
      BY <2>7 DEF CountUse, Goto
    <3> QED
      BY <2>7, <3>3, <3>4, <3>5, <3>6 DEF CountUse
  <2>8. CASE FindEvent(r)
    BY <2>8 DEF FindEvent, Goto, Running, Admitted, Ended
  <2>9. CASE Reject(r)
    BY <2>9 DEF Reject, Goto, Running, Admitted, Ended
  <2> QED
    BY <1>3, <2>2, <2>3, <2>4, <2>5, <2>6, <2>7, <2>8, <2>9, <2>10 DEF RequestStep
<1>4. CASE Crash
  BY <1>4, SMTT(60) DEF Crash, Running, Admitted, Ended
<1>5. CASE UNCHANGED vars
  BY <1>5 DEF vars
<1> QED
  BY <1>1, <1>2, <1>3, <1>4, <1>5 DEF Next

THEOREM TypeCorrect == Spec => []TypeOK
  BY TypeInitially, TypeStep, PTL DEF Spec
-----------------------------------------------------------------------------
(* The inductive invariant.                                                *)
IInv == TypeOK /\ ProgressInv /\ AbsentInv /\ UseCountExact /\ LimitInv

LEMMA RequestSetsFinite ==
  ASSUME NEW S \in SUBSET Requests
  PROVE  IsFiniteSet(S) /\ Cardinality(S) \in Nat
  BY FS_Subset, FS_CardinalityType, InviteAssumptions

(* A step that leaves the requests alone leaves both counts alone. *)
LEMMA QuietSets ==
  ASSUME UNCHANGED requestVars, NEW i \in Invites
  PROVE  InFlight(i)' = InFlight(i) /\ Spent(i)' = Spent(i)
  BY DEF InFlight, Spent, requestVars

LEMMA InvInitially == Init => IInv
<1> SUFFICES ASSUME Init PROVE IInv
  OBVIOUS
<1>1. TypeOK
  BY TypeInitially
<1>2. ProgressInv
  BY DEF Init, ProgressInv, Admitted
<1>3. \A i \in Invites : InFlight(i) = {} /\ Spent(i) = {}
  BY DEF Init, InFlight, Spent, Admitted
<1>4. UseCountExact
  BY <1>3, FS_EmptySet DEF Init, UseCountExact
<1> QED
  BY <1>1, <1>2, <1>3, <1>4 DEF IInv, AbsentInv, LimitInv, Init

LEMMA AdminKeepsInv ==
  ASSUME IInv, NEW i \in Invites, AdminStep(i)
  PROVE  IInv'
<1> USE DEF IInv
<1>1. TypeOK'
  BY TypeStep DEF Next
<1>2. UNCHANGED requestVars
  BY DEF AdminStep, CreateInvite, UpdateInvite, DeleteInvite, ExpiryPasses
<1>3. ProgressInv'
  BY <1>2 DEF ProgressInv, requestVars
<1>4. \A j \in Invites : InFlight(j)' = InFlight(j) /\ Spent(j)' = Spent(j)
  BY <1>2, QuietSets
<1>5. \A j \in Invites : j # i => invite'[j] = invite[j] /\ peak'[j] = peak[j]
  BY DEF AdminStep, CreateInvite, UpdateInvite, DeleteInvite, ExpiryPasses,
         TypeOK, historyVars
<1>6. UNCHANGED load
  BY DEF AdminStep, CreateInvite, UpdateInvite, DeleteInvite, ExpiryPasses, historyVars
<1>7. Cardinality(InFlight(i)) \in Nat /\ Cardinality(Spent(i)) \in Nat
  BY RequestSetsFinite DEF InFlight, Spent
<1>8. /\ invite'[i].status # "absent"
      /\ invite'[i].useCount = Cardinality(Spent(i))
      /\ peak'[i] # 0 =>
           /\ invite'[i].status = "stored" => invite'[i].maxUses \in 1 .. peak'[i]
           /\ invite'[i].useCount + Cardinality(InFlight(i)) <= (peak'[i] - 1) + load[i]
  <2> invite[i] \in InviteRow /\ peak[i] \in Limits /\ load[i] \in Nat
    BY DEF TypeOK
  <2> invite[i].useCount = Cardinality(Spent(i))
    BY DEF UseCountExact
  <2> peak[i] # 0 =>
        /\ invite[i].status = "stored" => invite[i].maxUses \in 1 .. peak[i]
        /\ invite[i].useCount + Cardinality(InFlight(i)) <= (peak[i] - 1) + load[i]
    BY DEF LimitInv
  <2> MaxLimit \in Nat
    BY InviteAssumptions
  <2>1. ASSUME NEW limit \in Limits, NEW expired \in BOOLEAN, CreateInvite(i, limit, expired)
        PROVE  <1>8!:
    <3>1. InFlight(i) = {} /\ Spent(i) = {}
      BY <2>1 DEF CreateInvite, AbsentInv
    <3>2. Cardinality(InFlight(i)) = 0 /\ Cardinality(Spent(i)) = 0
      BY <3>1, FS_EmptySet
    <3>3. /\ invite'[i].status = "stored" /\ invite'[i].useCount = 0
          /\ invite'[i].maxUses = limit /\ peak'[i] = limit
      BY <2>1 DEF CreateInvite, TypeOK
    <3> QED
      BY <3>2, <3>3 DEF Limits
  <2>2. ASSUME NEW disabled \in BOOLEAN, NEW limit \in Limits, NEW expired \in BOOLEAN,
               UpdateInvite(i, disabled, limit, expired)
        PROVE  <1>8!:
    <3>1. /\ invite'[i] = [invite[i] EXCEPT !.disabled = disabled, !.maxUses = limit,
                                           !.expired = expired]
          /\ peak'[i] = IF peak[i] = 0 \/ limit = 0 THEN 0 ELSE Larger(peak[i], limit)
      BY <2>2 DEF UpdateInvite, TypeOK
    <3>2. /\ invite'[i].status = invite[i].status /\ invite'[i].useCount = invite[i].useCount
          /\ invite'[i].maxUses = limit
      BY <3>1 DEF InviteRow
    <3>3. invite[i].status = "stored"
      BY <2>2 DEF UpdateInvite
    <3> QED
      BY <3>1, <3>2, <3>3, <1>7 DEF Limits, Larger
  <2>3. CASE DeleteInvite(i)
    <3>1. /\ invite'[i].status = "deleted" /\ invite'[i].useCount = invite[i].useCount
          /\ peak'[i] = peak[i]
      BY <2>3 DEF DeleteInvite, TypeOK, historyVars
    <3> QED
      BY <3>1
  <2>4. CASE ExpiryPasses(i)
    <3>1. /\ invite'[i] = [invite[i] EXCEPT !.expired = TRUE] /\ peak'[i] = peak[i]
          /\ invite[i].status = "stored"
      BY <2>4 DEF ExpiryPasses, TypeOK, historyVars
    <3>2. /\ invite'[i].status = invite[i].status /\ invite'[i].useCount = invite[i].useCount
          /\ invite'[i].maxUses = invite[i].maxUses
      BY <3>1 DEF InviteRow
    <3> QED
      BY <3>1, <3>2
  <2> QED
    BY <2>1, <2>2, <2>3, <2>4 DEF AdminStep
<1>9. AbsentInv'
  BY <1>4, <1>5, <1>8 DEF AbsentInv
<1>10. UseCountExact'
  BY <1>4, <1>5, <1>8 DEF UseCountExact
<1>11. LimitInv'
  BY <1>4, <1>5, <1>6, <1>8 DEF LimitInv
<1> QED
  BY <1>1, <1>3, <1>9, <1>10, <1>11

(* A request is let in or refused on the row it has just read. *)
LEMMA ReadInviteKeepsInv ==
  ASSUME IInv, NEW r \in Requests, NEW kind \in Kinds, NEW u \in Users, NEW i \in Invites,
         NEW next \in {"checkMember", "checkEmail"}, ReadInvite(r, kind, u, i, next), TypeOK'
  PROVE  IInv'
<1> USE DEF IInv
<1>1. /\ pc[r] = "new" /\ did[r] = {} /\ did' = did
      /\ invite' = invite /\ peak' = peak
      /\ arg'[r].invite = i
      /\ \A q \in Requests \ {r} : arg'[q] = arg[q] /\ pc'[q] = pc[q]
  BY DEF ReadInvite, ProgressInv, TypeOK, Goto
<1>2. \A j \in Invites : Spent(j)' = Spent(j)
  BY <1>1 DEF Spent
<1>3. pc'[r] \in {next, "refused"}
  BY DEF ReadInvite, Goto, TypeOK
<1>4. ProgressInv'
  BY <1>1, <1>3 DEF ProgressInv, Admitted
<1>5. \A j \in Invites \ {i} : InFlight(j)' = InFlight(j)
  BY <1>1 DEF InFlight, Admitted
<1>6. AbsentInv' /\ LimitInv'
  <2>1. CASE Usable(invite[i])
    <3>1. pc'[r] = next /\ load' = [load EXCEPT ![i] = Larger(@, Cardinality(InFlight(i) \cup {r}))]
      BY <2>1 DEF ReadInvite, Goto, TypeOK
    <3>2. InFlight(i)' = InFlight(i) \cup {r} /\ r \notin InFlight(i)
      BY <1>1, <3>1 DEF InFlight, Admitted
    <3>3. /\ Cardinality(InFlight(i)') = Cardinality(InFlight(i)) + 1
          /\ Cardinality(InFlight(i)) \in Nat
      BY <3>2, RequestSetsFinite, FS_AddElement DEF InFlight
    <3>4. load'[i] = Larger(load[i], Cardinality(InFlight(i)'))
      BY <3>1, <3>2 DEF TypeOK
    <3>5. \A j \in Invites \ {i} : load'[j] = load[j]
      BY <3>1 DEF TypeOK
    <3>6. /\ load[i] \in Nat /\ peak[i] \in Nat /\ invite[i].useCount \in Nat
          /\ invite[i].maxUses \in Nat
      BY InviteAssumptions DEF TypeOK, InviteRow, Limits
    <3>7. peak'[i] # 0 =>
             invite'[i].useCount + Cardinality(InFlight(i)') <= (peak'[i] - 1) + load'[i]
      BY <1>1, <2>1, <3>3, <3>4, <3>6 DEF Larger, Usable, LimitInv
    <3>8. AbsentInv'
      BY <1>1, <1>2, <1>5, <2>1 DEF AbsentInv, Usable
    <3>9. LimitInv'
      BY <1>1, <1>5, <3>5, <3>7 DEF LimitInv
    <3> QED
      BY <3>8, <3>9
  <2>2. CASE ~Usable(invite[i])
    <3>1. pc'[r] = "refused" /\ load' = load
      BY <2>2 DEF ReadInvite, Goto, TypeOK
    <3>2. InFlight(i)' = InFlight(i)
      BY <1>1, <3>1 DEF InFlight, Admitted
    <3> QED
      BY <1>1, <1>2, <1>5, <3>1, <3>2 DEF AbsentInv, LimitInv
  <2> QED
    BY <2>1, <2>2
<1>7. UseCountExact'
  BY <1>1, <1>2 DEF UseCountExact
<1> QED
  BY <1>4, <1>6, <1>7

(* Steps that touch no link: requests may only leave the set on their way to it. *)
LEMMA FewerInFlight ==
  ASSUME IInv, UNCHANGED <<invite, historyVars>>,
         \A i \in Invites : Spent(i)' = Spent(i) /\ InFlight(i)' \subseteq InFlight(i)
  PROVE  AbsentInv' /\ UseCountExact' /\ LimitInv'
<1> USE DEF IInv
<1>1. AbsentInv'
  BY DEF AbsentInv
<1>2. UseCountExact'
  BY DEF UseCountExact
<1>3. ASSUME NEW i \in Invites
      PROVE  /\ Cardinality(InFlight(i)') <= Cardinality(InFlight(i))
             /\ Cardinality(InFlight(i)') \in Nat /\ Cardinality(InFlight(i)) \in Nat
  <2>1. InFlight(i) \in SUBSET Requests /\ InFlight(i)' \subseteq InFlight(i)
    BY DEF InFlight
  <2>2. IsFiniteSet(InFlight(i))
    BY <2>1, RequestSetsFinite
  <2> QED
    BY <2>1, <2>2, FS_Subset, FS_CardinalityType
<1>4. LimitInv'
  <2> SUFFICES ASSUME NEW i \in Invites, peak[i] # 0
               PROVE  /\ invite[i].status = "stored" => invite[i].maxUses \in 1 .. peak[i]
                      /\ invite[i].useCount + Cardinality(InFlight(i)')
                             <= (peak[i] - 1) + load[i]
    BY DEF LimitInv, historyVars
  <2>1. invite[i].useCount \in Nat /\ peak[i] \in Nat /\ load[i] \in Nat
    BY InviteAssumptions DEF TypeOK, InviteRow, Limits
  <2> QED
    BY <1>3, <2>1 DEF LimitInv
<1> QED
  BY <1>1, <1>2, <1>4

LEMMA CountUseKeepsInv ==
  ASSUME IInv, NEW r \in Requests, CountUse(r), TypeOK'
  PROVE  IInv'
<1> USE DEF IInv
<1> DEFINE i == arg[r].invite
<1>1. /\ i \in Invites /\ pc[r] = "countUse" /\ "use" \notin did[r] /\ r \in InFlight(i)
      /\ arg' = arg /\ UNCHANGED historyVars
      /\ \A q \in Requests \ {r} : pc'[q] = pc[q] /\ did'[q] = did[q]
  BY DEF CountUse, ProgressInv, TypeOK, Admitted, Goto, Does, InFlight
<1>2. pc'[r] \in {"findEvent", "joined", "failed"}
  BY DEF CountUse, Goto, TypeOK
<1>3. ProgressInv'
  BY <1>1, <1>2 DEF ProgressInv, Admitted
<1>4. \A j \in Invites \ {i} : InFlight(j)' = InFlight(j)
  BY <1>1, <1>2 DEF InFlight, Admitted
<1>5. InFlight(i)' = InFlight(i) \ {r}
  BY <1>1, <1>2 DEF InFlight, Admitted
<1>6. CASE invite[i].status = "stored"
  <2>1. /\ invite'[i].useCount = invite[i].useCount + 1
        /\ invite'[i].status = "stored" /\ invite'[i].maxUses = invite[i].maxUses
        /\ \A j \in Invites \ {i} : invite'[j] = invite[j]
        /\ did'[r] = did[r] \cup {"use"}
    <3>1. /\ invite' = [invite EXCEPT ![i].useCount = @ + 1]
          /\ did' = [did EXCEPT ![r] = @ \cup {"use"}]
      BY <1>6 DEF CountUse, Does
    <3>2. invite[i] \in InviteRow
      BY <1>1 DEF TypeOK
    <3>3. invite'[i] = [invite[i] EXCEPT !.useCount = @ + 1]
      BY <1>1, <3>1 DEF TypeOK
    <3>4. /\ invite'[i].useCount = invite[i].useCount + 1
          /\ invite'[i].status = invite[i].status /\ invite'[i].maxUses = invite[i].maxUses
      BY <3>2, <3>3 DEF InviteRow
    <3> QED
      BY <1>1, <1>6, <3>1, <3>4 DEF TypeOK
  <2>2. Spent(i)' = Spent(i) \cup {r} /\ r \notin Spent(i)
    BY <1>1, <2>1 DEF Spent
  <2>3. \A j \in Invites \ {i} : Spent(j)' = Spent(j)
    BY <1>1, <2>1 DEF Spent
  <2>4. Cardinality(Spent(i)') = Cardinality(Spent(i)) + 1
    BY <2>2, RequestSetsFinite, FS_AddElement DEF Spent
  <2>5. /\ Cardinality(InFlight(i)') = Cardinality(InFlight(i)) - 1
        /\ Cardinality(InFlight(i)) \in Nat
    BY <1>1, <1>5, RequestSetsFinite, FS_RemoveElement DEF InFlight
  <2>6. AbsentInv'
    BY <1>4, <2>1, <2>3 DEF AbsentInv
  <2>7. UseCountExact'
    BY <1>1, <2>1, <2>3, <2>4 DEF UseCountExact
  <2>8. invite[i].useCount \in Nat /\ peak[i] \in Nat /\ load[i] \in Nat
    BY <1>1, InviteAssumptions DEF TypeOK, InviteRow, Limits
  <2>9. peak[i] # 0 =>
          /\ invite'[i].status = "stored" => invite'[i].maxUses \in 1 .. peak[i]
          /\ invite'[i].useCount + Cardinality(InFlight(i)') <= (peak[i] - 1) + load[i]
    BY <1>1, <1>6, <2>1, <2>5, <2>8 DEF LimitInv
  <2>10. LimitInv'
    BY <1>1, <1>4, <2>1, <2>9 DEF LimitInv, historyVars
  <2> QED
    BY <1>3, <2>6, <2>7, <2>10
<1>7. CASE invite[i].status # "stored"
  <2>1. invite' = invite /\ did' = did
    BY <1>7 DEF CountUse
  <2>2. \A j \in Invites : Spent(j)' = Spent(j) /\ InFlight(j)' \subseteq InFlight(j)
    BY <1>1, <1>4, <1>5, <2>1 DEF Spent
  <2> QED
    BY <1>1, <1>3, <2>1, <2>2, FewerInFlight
<1> QED
  BY <1>6, <1>7

LEMMA RequestKeepsInv ==
  ASSUME IInv, NEW r \in Requests, RequestStep(r)
  PROVE  IInv'
<1> USE DEF IInv
<1>1. TypeOK'
  BY TypeStep DEF Next
<1>2. ASSUME NEW u \in Users, NEW i \in Invites, StartRedeem(r, u, i) \/ StartRegister(r, u, i)
      PROVE  IInv'
  BY <1>1, <1>2, ReadInviteKeepsInv DEF StartRedeem, StartRegister
<1>3. CASE CountUse(r)
  BY <1>1, <1>3, CountUseKeepsInv
<1>4. CASE \/ CheckMember(r) \/ CheckEmail(r) \/ CreateAccount(r) \/ FindRole(r)
           \/ GrantRole(r) \/ FindEvent(r) \/ Reject(r)
  <2>1. /\ UNCHANGED <<invite, arg, historyVars>>
        /\ \A q \in Requests \ {r} : pc'[q] = pc[q] /\ did'[q] = did[q]
    BY <1>4 DEF CheckMember, CheckEmail, CreateAccount, FindRole, GrantRole, FindEvent, Reject,
                Goto, Does, TypeOK, historyVars
  <2>2. ("use" \in did'[r]) = ("use" \in did[r])
    BY <1>4 DEF CheckMember, CheckEmail, CreateAccount, FindRole, GrantRole, FindEvent, Reject,
                Does, TypeOK
  <2>3. pc'[r] \in Admitted => pc[r] \in Admitted
    BY <1>4 DEF CheckMember, CheckEmail, CreateAccount, FindRole, GrantRole, FindEvent, Reject,
                Goto, Admitted, TypeOK
  <2>4. \A i \in Invites : Spent(i)' = Spent(i) /\ InFlight(i)' \subseteq InFlight(i)
    BY <2>1, <2>2, <2>3 DEF Spent, InFlight
  <2>5. /\ pc'[r] \in {"new", "checkMember", "checkEmail", "createAccount"} => did'[r] = {}
        /\ pc'[r] = "findRole" => did'[r] \subseteq {"account"}
    <3>1. CASE CreateAccount(r)
      <4>1. pc'[r] \in {"failed", "findRole"} /\ did[r] = {}
        BY <3>1 DEF CreateAccount, Goto, TypeOK, ProgressInv
      <4>2. did'[r] \subseteq {"account"}
        BY <3>1, <4>1 DEF CreateAccount, Does, TypeOK
      <4> QED
        BY <4>1, <4>2
    <3>2. CASE CheckMember(r) \/ CheckEmail(r)
      BY <3>2 DEF CheckMember, CheckEmail, Goto, TypeOK, ProgressInv
    <3>3. CASE FindRole(r) \/ GrantRole(r) \/ FindEvent(r) \/ Reject(r)
      BY <3>3 DEF FindRole, GrantRole, FindEvent, Reject, Goto, TypeOK
    <3> QED
      BY <1>4, <3>1, <3>2, <3>3
  <2>6. ProgressInv'
    BY <2>1, <2>2, <2>3, <2>5 DEF ProgressInv
  <2> QED
    BY <1>1, <2>1, <2>4, <2>6, FewerInFlight
<1> QED
  BY <1>2, <1>3, <1>4 DEF RequestStep

LEMMA InvStep == IInv /\ [Next]_vars => IInv'
<1> SUFFICES ASSUME IInv, [Next]_vars PROVE IInv'
  OBVIOUS
<1> USE DEF IInv
<1>1. TypeOK'
  BY TypeStep
<1>2. ASSUME UNCHANGED <<invite, historyVars, requestVars>> PROVE IInv'
  <2>1. \A i \in Invites : Spent(i)' = Spent(i) /\ InFlight(i)' \subseteq InFlight(i)
    BY <1>2, QuietSets
  <2>2. ProgressInv'
    BY <1>2 DEF ProgressInv, requestVars
  <2> QED
    BY <1>1, <1>2, <2>1, <2>2, FewerInFlight
<1>3. CASE Crash
  <2>1. \A i \in Invites : Spent(i)' = Spent(i) /\ InFlight(i)' \subseteq InFlight(i)
    BY <1>3 DEF Crash, Spent, InFlight, Running, Admitted, TypeOK
  <2>2. ProgressInv'
    BY <1>3 DEF Crash, ProgressInv, Running, Admitted, TypeOK
  <2> QED
    BY <1>1, <1>3, <2>1, <2>2, FewerInFlight DEF Crash
<1>4. ASSUME NEW u \in Users, MemberLeaves(u) PROVE IInv'
  BY <1>2, <1>4 DEF MemberLeaves
<1>5. CASE UNCHANGED vars
  BY <1>2, <1>5 DEF vars
<1> QED
  BY <1>3, <1>4, <1>5, AdminKeepsInv, RequestKeepsInv DEF Next

LEMMA Invariance == Spec => []IInv
  BY InvInitially, InvStep, PTL DEF Spec

(* For any number of requests, the counter of a link is the number of uses  *)
(* that were counted: no interleaving loses or repeats an increment.        *)
THEOREM UseCountCorrect == Spec => []UseCountExact
<1>1. IInv => UseCountExact
  BY DEF IInv
<1> QED
  BY <1>1, Invariance, PTL

(* For any number of requests, a link is used beyond its limit only by as   *)
(* many uses as redemptions overlapped on it.                               *)
THEOREM OverrunBounded == Spec => []OverrunOnlyByOverlap
<1>1. IInv => OverrunOnlyByOverlap
  <2> SUFFICES ASSUME IInv, NEW i \in Invites, peak[i] # 0
               PROVE  invite[i].useCount <= (peak[i] - 1) + load[i]
    BY DEF OverrunOnlyByOverlap
  <2>1. Cardinality(InFlight(i)) \in Nat
    BY RequestSetsFinite DEF InFlight
  <2>2. invite[i].useCount \in Nat /\ peak[i] \in Nat /\ load[i] \in Nat
    BY InviteAssumptions DEF IInv, TypeOK, InviteRow, Limits
  <2> QED
    BY <2>1, <2>2 DEF IInv, LimitInv
<1> QED
  BY <1>1, Invariance, PTL

\* A refusal comes before any write, or from the lookup of the role of a link that
\* is deleted; a deleted link never comes back.
LEMMA RefusalStep ==
  ASSUME IInv, RefusalLeavesOnlyAccount, [Next]_vars
  PROVE  RefusalLeavesOnlyAccount'
<1> USE DEF IInv
<1> SUFFICES ASSUME NEW r \in Requests, pc'[r] = "refused", did'[r] # {}
             PROVE  did'[r] = {"account"} /\ invite'[arg'[r].invite].status = "deleted"
  BY DEF RefusalLeavesOnlyAccount
<1>1. ASSUME NEW i \in Invites, invite[i].status = "deleted"
      PROVE  invite'[i].status = "deleted"
  <2>1. ASSUME NEW q \in Requests, RequestStep(q) PROVE invite'[i].status = "deleted"
    BY <1>1, <2>1 DEF RequestStep, StartRedeem, StartRegister, ReadInvite, CheckMember, CheckEmail,
                      CreateAccount, FindRole, GrantRole, CountUse, FindEvent, Reject, TypeOK
  <2>2. ASSUME NEW j \in Invites, AdminStep(j) PROVE invite'[i].status = "deleted"
    BY <1>1, <2>2 DEF AdminStep, CreateInvite, UpdateInvite, DeleteInvite, ExpiryPasses, TypeOK
  <2>3. CASE (\E u \in Users : MemberLeaves(u)) \/ Crash \/ UNCHANGED vars
    BY <1>1, <2>3 DEF MemberLeaves, Crash, vars
  <2> QED
    BY <2>1, <2>2, <2>3 DEF Next
<1>2. CASE RequestStep(r)
  <2>1. ASSUME NEW u \in Users, NEW i \in Invites, StartRedeem(r, u, i) \/ StartRegister(r, u, i)
        PROVE  FALSE
    BY <2>1 DEF StartRedeem, StartRegister, ReadInvite, ProgressInv
  <2>2. CASE FindRole(r)
    <3>1. pc[r] = "findRole" /\ invite[arg[r].invite].status = "deleted" /\ UNCHANGED <<invite, arg, did>>
      BY <2>2 DEF FindRole, Goto, TypeOK
    <3> QED
      BY <3>1 DEF ProgressInv
  <2>3. CASE CheckMember(r) \/ CheckEmail(r)
    BY <2>3 DEF CheckMember, CheckEmail, ProgressInv
  <2>4. CASE CreateAccount(r) \/ GrantRole(r) \/ CountUse(r) \/ FindEvent(r) \/ Reject(r)
    BY <2>4 DEF CreateAccount, GrantRole, CountUse, FindEvent, Reject, Goto, TypeOK
  <2> QED
    BY <1>2, <2>1, <2>2, <2>3, <2>4 DEF RequestStep
<1>3. CASE ~RequestStep(r)
  <2>1. pc[r] = "refused" /\ did'[r] = did[r] /\ arg'[r] = arg[r]
    <3>1. ASSUME NEW q \in Requests, q # r, RequestStep(q)
          PROVE  pc[r] = "refused" /\ did'[r] = did[r] /\ arg'[r] = arg[r]
      BY <3>1 DEF RequestStep, StartRedeem, StartRegister, ReadInvite, CheckMember, CheckEmail,
                  CreateAccount, FindRole, GrantRole, CountUse, FindEvent, Reject, Goto, Does, TypeOK
    <3>2. CASE \E i \in Invites : AdminStep(i)
      BY <3>2 DEF AdminStep, CreateInvite, UpdateInvite, DeleteInvite, ExpiryPasses, requestVars
    <3>3. CASE (\E u \in Users : MemberLeaves(u)) \/ Crash \/ UNCHANGED vars
      BY <3>3 DEF MemberLeaves, Crash, vars, requestVars, TypeOK
    <3> QED
      BY <1>3, <3>1, <3>2, <3>3 DEF Next
  <2>2. arg[r].invite \in Invites
    BY <2>1 DEF TypeOK
  <2> QED
    BY <1>1, <2>1, <2>2 DEF RefusalLeavesOnlyAccount
<1> QED
  BY <1>2, <1>3

(* A refused request has granted and counted nothing, and has left no       *)
(* account unless its link was deleted under it.                            *)
THEOREM RefusalIsClean == Spec => []RefusalLeavesOnlyAccount
<1>1. Init => RefusalLeavesOnlyAccount
  BY DEF Init, RefusalLeavesOnlyAccount
<1> QED
  BY <1>1, RefusalStep, Invariance, PTL DEF Spec

\* What a request has done stays done, for the user and the link it began with.
LEMMA DeedsStay ==
    ASSUME TypeOK, ProgressInv, [Next]_vars, NEW r \in Requests, "role" \in did[r]
    PROVE  "role" \in did'[r] /\ arg'[r] = arg[r]
<1>1. ASSUME NEW s \in Requests, RequestStep(s) PROVE "role" \in did'[r] /\ arg'[r] = arg[r]
  <2>1. pc[r] # "new"
    BY DEF ProgressInv
  <2>2. ASSUME NEW u \in Users, NEW i \in Invites, StartRedeem(s, u, i) \/ StartRegister(s, u, i)
        PROVE  "role" \in did'[r] /\ arg'[r] = arg[r]
    BY <2>1, <2>2 DEF StartRedeem, StartRegister, ReadInvite, TypeOK
  <2>3. CASE CheckMember(s) \/ CheckEmail(s) \/ FindRole(s) \/ FindEvent(s) \/ Reject(s)
    BY <2>3 DEF CheckMember, CheckEmail, FindRole, FindEvent, Reject
  <2>4. CASE CreateAccount(s) \/ GrantRole(s) \/ CountUse(s)
    BY <2>4 DEF CreateAccount, GrantRole, CountUse, Does, TypeOK
  <2> QED
    BY <1>1, <2>2, <2>3, <2>4 DEF RequestStep
<1>2. ASSUME NEW i \in Invites, AdminStep(i) PROVE "role" \in did'[r] /\ arg'[r] = arg[r]
  BY <1>2 DEF AdminStep, CreateInvite, UpdateInvite, DeleteInvite, ExpiryPasses, requestVars
<1>3. CASE (\E u \in Users : MemberLeaves(u)) \/ Crash \/ UNCHANGED vars
  BY <1>3 DEF MemberLeaves, Crash, vars, requestVars
<1> QED
  BY <1>1, <1>2, <1>3 DEF Next

\* A role a user did not have comes from a grant, through that user's link.
LEMMA RolesAreGranted ==
    ASSUME TypeOK, [Next]_vars, NEW u \in Users, NEW role \in roles'[u], role \notin roles[u]
    PROVE  \E r \in Requests : /\ "role" \in did'[r]
                               /\ arg'[r].user = u
                               /\ RoleOf[arg'[r].invite] = role
<1>1. ASSUME NEW i \in Invites, AdminStep(i) PROVE roles' = roles
  BY <1>1 DEF AdminStep, CreateInvite, UpdateInvite, DeleteInvite, ExpiryPasses
<1>2. ASSUME NEW v \in Users, MemberLeaves(v) PROVE roles'[u] \subseteq roles[u]
  BY <1>2 DEF MemberLeaves, TypeOK
<1>3. Crash \/ UNCHANGED vars => roles' = roles
  BY DEF Crash, vars
<1>4. ASSUME NEW r \in Requests, RequestStep(r), ~GrantRole(r) PROVE roles' = roles
  BY <1>4 DEF RequestStep, StartRedeem, StartRegister, ReadInvite, CheckMember, CheckEmail,
              CreateAccount, FindRole, CountUse, FindEvent, Reject
<1>5. PICK r \in Requests : GrantRole(r)
  <2>1. roles' # roles /\ ~(roles'[u] \subseteq roles[u])
    OBVIOUS
  <2>2. \E r \in Requests : RequestStep(r)
    BY <1>1, <1>2, <1>3, <2>1 DEF Next
  <2> QED
    BY <1>4, <2>1, <2>2
<1>6. arg[r].user = u /\ RoleOf[arg[r].invite] = role /\ "role" \in did'[r] /\ arg' = arg
  BY <1>5 DEF GrantRole, Does, TypeOK
<1> QED
  BY <1>6

(* Every role gained through this component is that of a link its holder    *)
(* redeemed or registered with, whatever else happens to link and member.   *)
THEOREM RolesAreInvited == Spec => []RolesComeFromInvites
<1>1. IInv /\ RolesComeFromInvites /\ [Next]_vars => RolesComeFromInvites'
  <2> SUFFICES ASSUME IInv, RolesComeFromInvites, [Next]_vars, NEW u \in Users, NEW role \in roles'[u]
               PROVE  \E r \in Requests : /\ "role" \in did'[r]
                                          /\ arg'[r].user = u
                                          /\ RoleOf[arg'[r].invite] = role
    BY DEF RolesComeFromInvites
  <2>1. TypeOK /\ ProgressInv
    BY DEF IInv
  <2>2. CASE role \in roles[u]
    BY <2>1, <2>2, DeedsStay DEF RolesComeFromInvites
  <2>3. CASE role \notin roles[u]
    BY <2>1, <2>3, RolesAreGranted
  <2> QED
    BY <2>2, <2>3
<1>2. Init => RolesComeFromInvites
  BY DEF Init, RolesComeFromInvites
<1> QED
  BY <1>1, <1>2, Invariance, PTL DEF Spec

-----------------------------------------------------------------------------
(* Refinement of the contract.                                             *)

LEMMA ContractInitially == Init => Contract!ContractInit
<1> SUFFICES ASSUME Init PROVE Contract!ContractInit
  OBVIOUS
<1>1. \A i \in Invites : ~Open(i)
  BY DEF Init, Open
<1>2. \A r \in Requests : PhaseOf(r) = <<"idle">>
  BY DEF Init, PhaseOf, Admitted
<1> QED
  BY <1>1, <1>2 DEF Init, Contract!ContractInit, Contract!Idle

(* The links stay open or closed, and only r's phase changes: it leaves.    *)
LEMMA OneLeaves ==
  ASSUME UNCHANGED invite, NEW r \in Requests,
         PhaseOf(r) = <<"idle">> \/ \E i \in Invites : PhaseOf(r) = <<"admitted", i>>,
         PhaseOf(r)' = <<"closed">>,
         \A q \in Requests \ {r} : PhaseOf(q)' = PhaseOf(q)
  PROVE  Contract!Leave({r})
<1>1. \A i \in Invites : Open(i)' = Open(i)
  BY DEF Open
<1> QED
  BY <1>1 DEF Contract!Leave, Contract!Idle, Contract!Closed, Contract!Stage

LEMMA NobodyMoves ==
  ASSUME UNCHANGED invite, \A r \in Requests : PhaseOf(r)' = PhaseOf(r)
  PROVE  UNCHANGED Contract!contractVars
<1>1. \A i \in Invites : Open(i)' = Open(i)
  BY DEF Open
<1> QED
  BY <1>1 DEF Contract!contractVars

LEMMA AdminReconfigures ==
  ASSUME IInv, NEW i \in Invites, AdminStep(i)
  PROVE  Contract!Reconfigure
<1>1. UNCHANGED requestVars
  BY DEF AdminStep, CreateInvite, UpdateInvite, DeleteInvite, ExpiryPasses
<1>2. \A r \in Requests : PhaseOf(r)' = PhaseOf(r)
  BY <1>1 DEF PhaseOf, requestVars
<1>3. invite'[i].useCount = invite[i].useCount
  <2>1. invite[i] \in InviteRow
    BY DEF IInv, TypeOK
  <2>2. ASSUME NEW limit \in Limits, NEW expired \in BOOLEAN, CreateInvite(i, limit, expired)
        PROVE  <1>3!:
    <3>1. Spent(i) = {} /\ invite'[i].useCount = 0
      BY <2>2 DEF CreateInvite, IInv, TypeOK, AbsentInv
    <3> QED
      BY <3>1, FS_EmptySet DEF IInv, UseCountExact
  <2>3. ASSUME NEW disabled \in BOOLEAN, NEW limit \in Limits, NEW expired \in BOOLEAN,
               UpdateInvite(i, disabled, limit, expired)
        PROVE  <1>3!:
    BY <2>1, <2>3 DEF UpdateInvite, IInv, TypeOK, InviteRow
  <2>4. CASE DeleteInvite(i)
    BY <2>4 DEF DeleteInvite, IInv, TypeOK
  <2>5. CASE ExpiryPasses(i)
    BY <2>1, <2>5 DEF ExpiryPasses, IInv, TypeOK, InviteRow
  <2> QED
    BY <2>2, <2>3, <2>4, <2>5 DEF AdminStep
<1>4. \A j \in Invites : invite'[j].useCount = invite[j].useCount
  BY <1>3 DEF AdminStep, CreateInvite, UpdateInvite, DeleteInvite, ExpiryPasses, IInv, TypeOK
<1> QED
  BY <1>2, <1>4 DEF Contract!Reconfigure

LEMMA ReadInviteAdmits ==
  ASSUME IInv, NEW r \in Requests, NEW kind \in Kinds, NEW u \in Users, NEW i \in Invites,
         NEW next \in {"checkMember", "checkEmail"}, ReadInvite(r, kind, u, i, next)
  PROVE  Contract!Admit(r, i) \/ Contract!Leave({r})
<1>1. /\ pc[r] = "new" /\ did[r] = {} /\ did' = did /\ invite' = invite
      /\ arg'[r].invite = i
      /\ \A q \in Requests \ {r} : arg'[q] = arg[q] /\ pc'[q] = pc[q]
  BY DEF ReadInvite, IInv, ProgressInv, TypeOK, Goto
<1>2. PhaseOf(r) = <<"idle">> /\ \A q \in Requests \ {r} : PhaseOf(q)' = PhaseOf(q)
  BY <1>1 DEF PhaseOf, Admitted
<1>3. CASE Usable(invite[i])
  <2>1. pc'[r] = next
    BY <1>3 DEF ReadInvite, Goto, IInv, TypeOK
  <2>2. PhaseOf(r)' = <<"admitted", i>>
    BY <1>1, <2>1 DEF PhaseOf, Admitted
  <2>3. Open(i)
    BY <1>3 DEF Usable, Open
  <2>4. \A j \in Invites : Open(j)' = Open(j)
    BY <1>1 DEF Open
  <2> QED
    BY <1>1, <1>2, <2>2, <2>3, <2>4 DEF Contract!Admit, Contract!Idle
<1>4. CASE ~Usable(invite[i])
  <2>1. pc'[r] = "refused"
    BY <1>4 DEF ReadInvite, Goto, IInv, TypeOK
  <2>2. PhaseOf(r)' = <<"closed">>
    BY <1>1, <2>1 DEF PhaseOf, Admitted
  <2> QED
    BY <1>1, <1>2, <2>2, OneLeaves
<1> QED
  BY <1>3, <1>4

LEMMA CountUseSpends ==
  ASSUME IInv, NEW r \in Requests, CountUse(r)
  PROVE  (\E i \in Invites : Contract!Spend(r, i)) \/ Contract!Leave({r})
<1> DEFINE i == arg[r].invite
<1>1. /\ i \in Invites /\ pc[r] = "countUse" /\ "use" \notin did[r] /\ arg' = arg
      /\ \A q \in Requests \ {r} : pc'[q] = pc[q] /\ did'[q] = did[q]
  BY DEF CountUse, IInv, ProgressInv, TypeOK, Admitted, Goto, Does
<1>2. /\ PhaseOf(r) = <<"admitted", i>>
      /\ \A q \in Requests \ {r} : PhaseOf(q)' = PhaseOf(q)
  BY <1>1 DEF PhaseOf, Admitted
<1>3. CASE invite[i].status = "stored"
  <2>1. /\ invite' = [invite EXCEPT ![i].useCount = @ + 1]
        /\ "use" \in did'[r]
    BY <1>3 DEF CountUse, Does, IInv, TypeOK
  <2>2. PhaseOf(r)' = <<"spent", i>>
    BY <1>1, <2>1 DEF PhaseOf
  <2>3. invite[i] \in InviteRow /\ \A j \in Invites : invite'[j] =
            IF j = i THEN [invite[i] EXCEPT !.useCount = @ + 1] ELSE invite[j]
    BY <1>1, <2>1 DEF IInv, TypeOK
  <2>4. \A j \in Invites : invite'[j].useCount = IF j = i THEN invite[j].useCount + 1
                                                           ELSE invite[j].useCount
    BY <2>3 DEF InviteRow
  <2>5. \A j \in Invites : Open(j)' => Open(j)
    <3>1. /\ invite'[i].status = invite[i].status /\ invite'[i].disabled = invite[i].disabled
          /\ invite'[i].expired = invite[i].expired /\ invite'[i].maxUses = invite[i].maxUses
          /\ invite'[i].useCount = invite[i].useCount + 1
          /\ invite[i].useCount \in Nat /\ invite[i].maxUses \in Nat
      BY <1>1, <2>3, InviteAssumptions DEF InviteRow, Limits
    <3>2. Open(i)' => Open(i)
      BY <1>1, <3>1 DEF Open
    <3> QED
      BY <1>1, <2>3, <3>2 DEF Open
  <2> QED
    BY <1>1, <1>2, <2>2, <2>4, <2>5 DEF Contract!Spend
<1>4. CASE invite[i].status # "stored"
  <2>1. invite' = invite /\ did' = did /\ pc'[r] = "failed"
    BY <1>4 DEF CountUse, Goto, IInv, TypeOK
  <2>2. PhaseOf(r)' = <<"closed">>
    BY <1>1, <2>1 DEF PhaseOf, Admitted
  <2> QED
    BY <1>1, <1>2, <2>1, <2>2, OneLeaves
<1> QED
  BY <1>3, <1>4

(* Every other step of a request keeps its phase or leaves.                 *)
LEMMA OtherStepsLeave ==
  ASSUME IInv, NEW r \in Requests,
         \/ CheckMember(r) \/ CheckEmail(r) \/ CreateAccount(r) \/ FindRole(r)
         \/ GrantRole(r) \/ FindEvent(r) \/ Reject(r)
  PROVE  Contract!Leave({r}) \/ UNCHANGED Contract!contractVars
<1>1. /\ UNCHANGED <<invite, arg>>
      /\ \A q \in Requests \ {r} : pc'[q] = pc[q] /\ did'[q] = did[q]
      /\ pc[r] \in Running /\ arg[r].invite \in Invites
      /\ ("use" \in did'[r]) = ("use" \in did[r])
      /\ pc'[r] \in Running \cup Ended
  BY DEF CheckMember, CheckEmail, CreateAccount, FindRole, GrantRole, FindEvent, Reject,
         Goto, Does, IInv, TypeOK, Running, Admitted, Ended
<1>2. pc[r] = "findEvent" => pc'[r] \notin Admitted
  BY DEF CheckMember, CheckEmail, CreateAccount, FindRole, GrantRole, FindEvent, Reject,
         Goto, IInv, TypeOK, Admitted
<1>3. \A q \in Requests \ {r} : PhaseOf(q)' = PhaseOf(q)
  BY <1>1 DEF PhaseOf
<1>4. CASE "use" \in did[r] \/ pc'[r] \in Admitted
  <2>1. PhaseOf(r)' = PhaseOf(r)
    BY <1>1, <1>2, <1>4 DEF PhaseOf, Running, Admitted
  <2> QED
    BY <1>1, <1>3, <2>1, NobodyMoves
<1>5. CASE "use" \notin did[r] /\ pc'[r] \notin Admitted
  <2>1. PhaseOf(r)' = <<"closed">>
    BY <1>1, <1>5 DEF PhaseOf, Running, Ended, Admitted
  <2>2. PhaseOf(r) = <<"closed">> \/ PhaseOf(r) = <<"admitted", arg[r].invite>>
    BY <1>1, <1>5 DEF PhaseOf, Running, Admitted
  <2> QED
    BY <1>1, <1>3, <2>1, <2>2, OneLeaves, NobodyMoves
<1> QED
  BY <1>4, <1>5

LEMMA CrashLeaves ==
  ASSUME IInv, Crash
  PROVE  (\E R \in SUBSET Requests : Contract!Leave(R)) \/ UNCHANGED Contract!contractVars
<1> DEFINE R == {r \in Requests : pc[r] \in Admitted}
<1>1. UNCHANGED <<invite, arg, did>>
  BY DEF Crash
<1>2. \A r \in Requests : pc'[r] = IF pc[r] \in Running THEN "lost" ELSE pc[r]
  BY DEF Crash
<1>3. \A r \in R : /\ arg[r].invite \in Invites
                   /\ PhaseOf(r) = <<"admitted", arg[r].invite>>
                   /\ PhaseOf(r)' = <<"closed">>
  BY <1>1, <1>2 DEF IInv, ProgressInv, TypeOK, PhaseOf, Running, Admitted
<1>4. \A r \in Requests \ R : PhaseOf(r)' = PhaseOf(r)
  BY <1>1, <1>2 DEF PhaseOf, Running, Admitted
<1>5. \A i \in Invites : Open(i)' = Open(i)
  BY <1>1 DEF Open
<1>6. CASE R = {}
  BY <1>1, <1>4, <1>6, NobodyMoves
<1>7. CASE R # {}
  <2>1. Contract!Leave(R)
    BY <1>1, <1>3, <1>4, <1>5, <1>7 DEF Contract!Leave, Contract!Closed, Contract!Stage
  <2> QED
    BY <2>1
<1> QED
  BY <1>6, <1>7

LEMMA ContractStep == IInv /\ [Next]_vars => [Contract!ContractNext]_(Contract!contractVars)
<1> SUFFICES ASSUME IInv, [Next]_vars
             PROVE  Contract!ContractNext \/ UNCHANGED Contract!contractVars
  OBVIOUS
<1>1. ASSUME NEW r \in Requests, RequestStep(r)
      PROVE  Contract!ContractNext \/ UNCHANGED Contract!contractVars
  <2>1. ASSUME NEW u \in Users, NEW i \in Invites, StartRedeem(r, u, i) \/ StartRegister(r, u, i)
        PROVE  Contract!Admit(r, i) \/ Contract!Leave({r})
    BY <2>1, ReadInviteAdmits DEF StartRedeem, StartRegister
  <2> QED
    BY <1>1, <2>1, CountUseSpends, OtherStepsLeave DEF RequestStep, Contract!ContractNext
<1>2. ASSUME UNCHANGED <<invite, requestVars>> PROVE UNCHANGED Contract!contractVars
  <2>1. \A r \in Requests : PhaseOf(r)' = PhaseOf(r)
    BY <1>2 DEF PhaseOf, requestVars
  <2> QED
    BY <1>2, <2>1, NobodyMoves
<1>3. ASSUME NEW u \in Users, MemberLeaves(u) PROVE UNCHANGED Contract!contractVars
  BY <1>2, <1>3 DEF MemberLeaves
<1>4. CASE UNCHANGED vars
  BY <1>2, <1>4 DEF vars
<1> QED
  BY <1>1, <1>3, <1>4, AdminReconfigures, CrashLeaves DEF Next, Contract!ContractNext

(* The handlers implement the contract of a link, for every number of      *)
(* requests, links and users.                                              *)
THEOREM RefinesContract == Spec => ImplementsContract
  BY ContractInitially, ContractStep, Invariance, PTL
     DEF Spec, ImplementsContract, Contract!ContractSpec
=============================================================================
