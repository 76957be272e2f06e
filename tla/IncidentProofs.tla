--------------------------- MODULE IncidentProofs -----------------------------
(***************************************************************************)
(* Proofs about IncidentLifecycle and about IncidentListView.              *)
(*                                                                         *)
(* The history of an incident ends at its state, and breaks only by a race *)
(* or a bypass; an incident under investigation is assigned, to somebody   *)
(* who has been a responder; and evidence keeps its incident. The          *)
(* invariant adds to these what a request has checked by the time it       *)
(* writes (CheckedInv), and that the state it read is still there unless   *)
(* it was overtaken (SeenInv).                                             *)
(*                                                                         *)
(* A list shows what was asked for last because the newest call stands at  *)
(* the end of those in flight until its answer overtakes them all          *)
(* (NewestInv), whatever order they are answered in.                       *)
(***************************************************************************)
EXTENDS IncidentLifecycle, IncidentListView, SequenceTheorems, TLAPS

-----------------------------------------------------------------------------
(* Incidents.                                                              *)

\* What one request may rely on when it writes.
Checked(r) ==
    /\ pc[r] # "new" => call[r] \in Calls
    /\ pc[r] \in {"check", "write"} /\ call[r].kind = "state" => MeetsRequirements(call[r])
    /\ pc[r] = "write" /\ ChecksAssignee(call[r]) => call[r].assignee \in responders

CheckedInv == \A r \in Requests : Checked(r)

SeenCurrent(r) ==
    pc[r] \in {"check", "write"} /\ call[r].kind = "state" /\ r \notin overtaken
        => \A i \in call[r].targets : seen[r] = incident[i].state

SeenInv == \A r \in Requests : SeenCurrent(r)

\* What the properties say of one incident.
Sound(i) ==
    /\ "state" \notin around[i] => incident[i].state = HistoryEnd(i)
    /\ incident[i].state = "investigating" /\ incident[i].assignee = None => around[i] # {}
    /\ incident[i].assignee \in responders \cup {None} \/ "assignee" \in around[i]
    /\ incident[i].linked => Stored(i)

SoundInv == \A i \in Incidents : Sound(i)

IInv == TypeOK /\ CheckedInv /\ SeenInv /\ SoundInv

-----------------------------------------------------------------------------
(* Operators.                                                              *)

LEMMA UpdatedRow ==
    ASSUME NEW row \in Row, NEW c \in Call
    PROVE  /\ Updated(row, c) \in Row
           /\ Updated(row, c).status = row.status
           /\ Updated(row, c).linked = (row.linked \/ c.notes)
           /\ Updated(row, c).state = IF "state" \in c.sets THEN c.state ELSE row.state
           /\ Updated(row, c).assignee = IF "assignee" \in c.sets THEN c.assignee ELSE row.assignee
  BY DEF Updated, Row, Call

LEMMA LinkedRow ==
    ASSUME NEW row \in Row, NEW b \in BOOLEAN
    PROVE  /\ [row EXCEPT !.linked = b] \in Row
           /\ [row EXCEPT !.linked = b].status = row.status
           /\ [row EXCEPT !.linked = b].linked = b
           /\ [row EXCEPT !.linked = b].state = row.state
           /\ [row EXCEPT !.linked = b].assignee = row.assignee
  BY DEF Row

LEMMA StatusRow ==
    ASSUME NEW row \in Row, NEW s \in {"absent", "stored", "deleted"}
    PROVE  /\ [row EXCEPT !.status = s] \in Row
           /\ [row EXCEPT !.status = s].status = s
           /\ [row EXCEPT !.status = s].linked = row.linked
           /\ [row EXCEPT !.status = s].state = row.state
           /\ [row EXCEPT !.status = s].assignee = row.assignee
  BY DEF Row

LEMMA CallsAreCalls == Calls \subseteq Call
  BY DEF Calls

\* The one incident of a call that names one.
LEMMA OneTarget ==
    ASSUME NEW c \in Calls, c.kind \in {"create", "state", "update"}
    PROVE  \E i \in Incidents : c.targets = {i}
  BY DEF Calls

-----------------------------------------------------------------------------
(* Types.                                                                  *)

LEMMA InitType == Init => TypeOK
<1> SUFFICES ASSUME Init PROVE TypeOK
  OBVIOUS
<1>1. incident \in [Incidents -> Row]
  BY IncidentAssumptions DEF Init, Row
<1>2. trail \in [Incidents -> Seq([from : States, to : States])]
  BY DEF Init
<1> QED
  BY <1>1, <1>2, IncidentAssumptions DEF Init, TypeOK

LEMMA BeginType ==
    ASSUME TypeOK, NEW r \in Requests, NEW c \in Calls, Begin(r, c)
    PROVE  TypeOK'
<1>1. c \in Call
  BY CallsAreCalls
<1>2. pc' \in [Requests -> {"new"} \cup Running \cup Ended]
  BY DEF Begin, Goto, TypeOK, Running, Ended
<1>3. call' \in [Requests -> Call \cup {None}] /\ \A s \in Requests : pc'[s] # "new" => call'[s] \in Call
  BY <1>1 DEF Begin, Goto, TypeOK
<1>4. seen' \in [Requests -> States]
  <2>1. c.targets \subseteq Incidents
    BY <1>1 DEF Call
  <2>2. \A i \in c.targets : incident[i].state \in States
    BY <2>1 DEF TypeOK, Row
  <2> QED
    BY <2>2 DEF Begin, TypeOK
<1> QED
  BY <1>2, <1>3, <1>4 DEF Begin, TypeOK

\* What a step of a running request leaves well typed in pc and call.
LEMMA PcType ==
    ASSUME TypeOK, NEW r \in Requests, pc[r] # "new", call' = call,
           NEW next \in Running \cup Ended, Goto(r, next)
    PROVE  /\ pc' \in [Requests -> {"new"} \cup Running \cup Ended]
           /\ call' \in [Requests -> Call \cup {None}]
           /\ \A s \in Requests : pc'[s] # "new" => call'[s] \in Call
  BY DEF Goto, TypeOK

LEMMA WriteStateType == ASSUME TypeOK, NEW r \in Requests, WriteState(r) PROVE TypeOK'
<1>1. call[r] \in Call /\ pc[r] # "new"
  BY DEF WriteState, TypeOK
<1>2. PICK i \in call[r].targets :
         IF Stored(i)
         THEN /\ incident' = [incident EXCEPT ![i] = Updated(@, call[r])]
              /\ trail' = [trail EXCEPT ![i] =
                     Append(@, [from |-> seen[r], to |-> call[r].state])]
              /\ around' = [around EXCEPT ![i] = @ \ call[r].sets]
              /\ overtaken' = overtaken \cup Readers(r, {i})
              /\ wrote' = wrote \cup {r}
              /\ Goto(r, "done")
         ELSE Goto(r, "failed") /\ UNCHANGED <<incident, trail, around, overtaken, wrote>>
  BY DEF WriteState
<1>3. UNCHANGED <<responders, call, seen>>
  BY DEF WriteState
<1>4. /\ pc' \in [Requests -> {"new"} \cup Running \cup Ended]
      /\ call' \in [Requests -> Call \cup {None}]
      /\ \A s \in Requests : pc'[s] # "new" => call'[s] \in Call
  BY <1>1, <1>2, <1>3, PcType DEF Ended
<1>5. CASE Stored(i)
  <2>1. i \in Incidents /\ incident[i] \in Row
    BY <1>1 DEF TypeOK, Call
  <2> DEFINE step == [from |-> seen[r], to |-> call[r].state]
  <2>2. Updated(incident[i], call[r]) \in Row
    BY <1>1, <2>1, UpdatedRow
  <2>3. step \in [from : States, to : States]
    BY <1>1 DEF TypeOK, Call
  <2>31. trail[i] \in Seq([from : States, to : States]) /\ around[i] \in SUBSET Fields
    BY <2>1 DEF TypeOK
  <2>4. incident' = [incident EXCEPT ![i] = Updated(incident[i], call[r])]
    BY <1>2, <1>5, Zenon
  <2>40. trail' = [trail EXCEPT ![i] = Append(trail[i], step)]
    BY <1>2, <1>5, Zenon
  <2> HIDE DEF step
  <2>41. Append(trail[i], step) \in Seq([from : States, to : States])
    BY <2>3, <2>31
  <2>5. incident' \in [Incidents -> Row]
    BY <2>1, <2>2, <2>4 DEF TypeOK
  <2>6. trail' \in [Incidents -> Seq([from : States, to : States])]
    BY <2>1, <2>40, <2>41 DEF TypeOK
  <2>7. around' \in [Incidents -> SUBSET Fields]
    <3>1. around' = [around EXCEPT ![i] = around[i] \ call[r].sets]
      BY <1>2, <1>5, Zenon
    <3>2. around[i] \ call[r].sets \in SUBSET Fields
      BY <2>31
    <3> QED
      BY <2>1, <3>1, <3>2 DEF TypeOK
  <2>8. overtaken' \subseteq Requests /\ wrote' \subseteq Requests
    BY <1>2, <1>5 DEF TypeOK, Readers
  <2> QED
    BY <1>3, <1>4, <2>5, <2>6, <2>7, <2>8 DEF TypeOK
<1>6. CASE ~Stored(i)
  BY <1>2, <1>3, <1>4, <1>6 DEF TypeOK
<1> QED
  BY <1>5, <1>6

LEMMA WriteUpdateType == ASSUME TypeOK, NEW r \in Requests, WriteUpdate(r) PROVE TypeOK'
<1>1. call[r] \in Call /\ pc[r] # "new"
  BY DEF WriteUpdate, TypeOK
<1>2. PICK i \in call[r].targets :
         IF Stored(i)
         THEN /\ incident' = [incident EXCEPT ![i] = Updated(@, call[r])]
              /\ around' = [around EXCEPT ![i] = @ \cup call[r].sets]
              /\ overtaken' = IF "state" \in call[r].sets
                              THEN overtaken \cup Readers(r, {i}) ELSE overtaken
              /\ wrote' = wrote \cup {r}
              /\ Goto(r, "done")
         ELSE Goto(r, "failed") /\ UNCHANGED <<incident, around, overtaken, wrote>>
  BY DEF WriteUpdate
<1>3. UNCHANGED <<trail, responders, call, seen>>
  BY DEF WriteUpdate
<1>4. /\ pc' \in [Requests -> {"new"} \cup Running \cup Ended]
      /\ call' \in [Requests -> Call \cup {None}]
      /\ \A s \in Requests : pc'[s] # "new" => call'[s] \in Call
  BY <1>1, <1>2, <1>3, PcType DEF Ended
<1>5. CASE Stored(i)
  <2>1. i \in Incidents /\ incident[i] \in Row /\ call[r].sets \subseteq Fields
    BY <1>1 DEF TypeOK, Call
  <2>2. incident' \in [Incidents -> Row]
    <3>1. Updated(incident[i], call[r]) \in Row
      BY <1>1, <2>1, UpdatedRow
    <3>2. incident' = [incident EXCEPT ![i] = Updated(incident[i], call[r])]
      BY <1>2, <1>5, Zenon
    <3> QED
      BY <2>1, <3>1, <3>2 DEF TypeOK
  <2>3. around' \in [Incidents -> SUBSET Fields]
    BY <1>2, <1>5, <2>1 DEF TypeOK
  <2>4. overtaken' \subseteq Requests /\ wrote' \subseteq Requests
    BY <1>2, <1>5 DEF TypeOK, Readers
  <2> QED
    BY <1>3, <1>4, <2>2, <2>3, <2>4 DEF TypeOK
<1>6. CASE ~Stored(i)
  BY <1>2, <1>3, <1>4, <1>6 DEF TypeOK
<1> QED
  BY <1>5, <1>6

LEMMA WriteBulkType == ASSUME TypeOK, NEW r \in Requests, WriteBulk(r) PROVE TypeOK'
<1>1. call[r] \in Call /\ pc[r] # "new"
  BY DEF WriteBulk, TypeOK
<1>2. UNCHANGED <<trail, responders, call, seen>> /\ Goto(r, "audit")
  BY DEF WriteBulk
<1>3. /\ pc' \in [Requests -> {"new"} \cup Running \cup Ended]
      /\ call' \in [Requests -> Call \cup {None}]
      /\ \A s \in Requests : pc'[s] # "new" => call'[s] \in Call
  BY <1>1, <1>2, PcType DEF Running
<1>4. incident' \in [Incidents -> Row]
  BY <1>1, UpdatedRow DEF WriteBulk, TypeOK
<1>5. around' \in [Incidents -> SUBSET Fields]
  BY DEF WriteBulk, TypeOK, Fields
<1>6. overtaken' \subseteq Requests /\ wrote' \subseteq Requests
  BY DEF WriteBulk, TypeOK, Readers
<1> QED
  BY <1>2, <1>3, <1>4, <1>5, <1>6 DEF TypeOK

LEMMA DeleteBulkType == ASSUME TypeOK, NEW r \in Requests, DeleteBulk(r) PROVE TypeOK'
<1>1. pc[r] # "new" /\ UNCHANGED <<trail, responders, call, seen, around, overtaken>>
  BY DEF DeleteBulk
<1>2. /\ pc' \in [Requests -> {"new"} \cup Running \cup Ended]
      /\ call' \in [Requests -> Call \cup {None}]
      /\ \A s \in Requests : pc'[s] # "new" => call'[s] \in Call
  BY <1>1, PcType DEF DeleteBulk, Running, Ended
<1>3. incident' \in [Incidents -> Row]
  <2>1. \A i \in Incidents : [incident[i] EXCEPT !.status = "deleted"] \in Row
    BY DEF TypeOK, Row
  <2> QED
    BY <2>1 DEF DeleteBulk, TypeOK
<1>4. wrote' \subseteq Requests
  BY DEF DeleteBulk, TypeOK
<1> QED
  BY <1>1, <1>2, <1>3, <1>4 DEF TypeOK

LEMMA CreateType ==
    ASSUME TypeOK, NEW r \in Requests, CreateRow(r) \/ LinkRow(r)
    PROVE  TypeOK'
<1>1. /\ call[r] \in Call /\ pc[r] # "new"
      /\ UNCHANGED <<trail, responders, call, seen, around, overtaken>>
  BY DEF CreateRow, LinkRow, TypeOK
<1>2. call[r].targets \subseteq Incidents
  BY <1>1 DEF Call
<1>3. /\ pc' \in [Requests -> {"new"} \cup Running \cup Ended]
      /\ call' \in [Requests -> Call \cup {None}]
      /\ \A s \in Requests : pc'[s] # "new" => call'[s] \in Call
  BY <1>1, PcType DEF CreateRow, LinkRow, Running, Ended
<1>4. incident' \in [Incidents -> Row]
  <2>1. ASSUME NEW i \in Incidents
        PROVE  /\ [incident[i] EXCEPT !.status = "stored"] \in Row
               /\ [incident[i] EXCEPT !.linked = TRUE] \in Row
    BY DEF TypeOK, Row
  <2>2. PICK i \in call[r].targets :
           \/ incident' = incident
           \/ incident' = [incident EXCEPT ![i] = [incident[i] EXCEPT !.status = "stored"]]
           \/ incident' = [incident EXCEPT ![i] = [incident[i] EXCEPT !.linked = TRUE]]
    BY Zenon DEF CreateRow, LinkRow
  <2> DEFINE given == [incident[i] EXCEPT !.status = "stored"]
             linked == [incident[i] EXCEPT !.linked = TRUE]
  <2>3. i \in Incidents /\ given \in Row /\ linked \in Row
    BY <1>2, <2>1
  <2>4. \/ incident' = incident
        \/ incident' = [incident EXCEPT ![i] = given]
        \/ incident' = [incident EXCEPT ![i] = linked]
    BY <2>2
  <2> HIDE DEF given, linked
  <2> QED
    BY <2>3, <2>4 DEF TypeOK
<1>5. wrote' \subseteq Requests
  BY DEF CreateRow, LinkRow, TypeOK
<1> QED
  BY <1>1, <1>3, <1>4, <1>5 DEF TypeOK

LEMMA NextType == TypeOK /\ [Next]_vars => TypeOK'
<1> SUFFICES ASSUME TypeOK, [Next]_vars PROVE TypeOK'
  OBVIOUS
<1>1. ASSUME NEW r \in Requests, CheckAssignee(r) \/ AuditBulk(r) \/ Reject(r) PROVE TypeOK'
  <2>1. pc[r] # "new" /\ call' = call
    BY <1>1 DEF CheckAssignee, AuditBulk, Reject, Running
  <2>2. /\ pc' \in [Requests -> {"new"} \cup Running \cup Ended]
        /\ call' \in [Requests -> Call \cup {None}]
        /\ \A s \in Requests : pc'[s] # "new" => call'[s] \in Call
    BY <1>1, <2>1, PcType DEF CheckAssignee, AuditBulk, Reject, Running, Ended
  <2> QED
    BY <1>1, <2>2 DEF CheckAssignee, AuditBulk, Reject, TypeOK
<1>2. ASSUME NEW p \in People, Appoint(p) PROVE TypeOK'
  BY <1>2 DEF TypeOK, Appoint, requestVars
<1>3. CASE Crash
  BY <1>3 DEF TypeOK, Crash, Running, Ended
<1>4. CASE UNCHANGED vars
  BY <1>4 DEF TypeOK, vars, requestVars
<1> QED
  BY <1>1, <1>2, <1>3, <1>4, BeginType, WriteStateType, WriteUpdateType, WriteBulkType,
     DeleteBulkType, CreateType DEF Next, RequestStep

-----------------------------------------------------------------------------
(* Incidents.                                                              *)

\* An incident whose row, history and mark stay is as sound as before.
LEMMA SoundStays ==
    ASSUME NEW i \in Incidents, Sound(i),
           incident'[i] = incident[i], trail'[i] = trail[i], around'[i] = around[i],
           responders \subseteq responders'
    PROVE  Sound(i)'
  BY DEF Sound, HistoryEnd, Stored

LEMMA SoundWriteState ==
    ASSUME IInv, NEW r \in Requests, WriteState(r), NEW j \in Incidents
    PROVE  Sound(j)'
<1>0. TypeOK /\ Sound(j) /\ Checked(r) /\ responders' = responders
  BY DEF IInv, SoundInv, CheckedInv, WriteState
<1>1. call[r] \in Calls /\ call[r] \in Call /\ call[r].kind = "state" /\ pc[r] = "write"
  BY <1>0, CallsAreCalls DEF WriteState, Checked
<1>2. PICK i \in call[r].targets :
         IF Stored(i)
         THEN /\ incident' = [incident EXCEPT ![i] = Updated(@, call[r])]
              /\ trail' = [trail EXCEPT ![i] =
                     Append(@, [from |-> seen[r], to |-> call[r].state])]
              /\ around' = [around EXCEPT ![i] = @ \ call[r].sets]
         ELSE UNCHANGED <<incident, trail, around>>
  BY DEF WriteState
<1>3. CASE ~Stored(i) \/ j # i
  BY <1>0, <1>2, <1>3, SoundStays DEF TypeOK
<1>4. CASE Stored(i) /\ j = i
  <2>1. incident[j] \in Row /\ trail[j] \in Seq([from : States, to : States])
    BY <1>0 DEF TypeOK
  <2>2. /\ incident'[j] = Updated(incident[j], call[r])
        /\ around'[j] = around[j] \ call[r].sets
        /\ trail'[j] = Append(trail[j], [from |-> seen[r], to |-> call[r].state])
    BY <1>0, <1>2, <1>4 DEF TypeOK
  <2>3. "state" \in call[r].sets /\ ("assignee" \in call[r].sets => call[r].assignee # None)
    BY <1>1 DEF Calls
  <2>4. /\ incident'[j].status = incident[j].status
        /\ incident'[j].state = call[r].state
        /\ incident'[j].assignee = IF "assignee" \in call[r].sets THEN call[r].assignee
                                                                 ELSE incident[j].assignee
    BY <1>1, <2>1, <2>2, <2>3, UpdatedRow
  <2>5. HistoryEnd(j)' = call[r].state
    <3> DEFINE step == [from |-> seen[r], to |-> call[r].state]
    <3>1. step \in [from : States, to : States] /\ step.to = call[r].state
      BY <1>0, <1>1 DEF TypeOK, Call
    <3>2. trail'[j] = Append(trail[j], step)
      BY <2>2
    <3> HIDE DEF step
    <3>3. trail'[j] # <<>> /\ trail'[j][Len(trail'[j])] = step
      BY <2>1, <3>1, <3>2
    <3> QED
      BY <3>1, <3>3 DEF HistoryEnd
  <2>6. call[r].state = "investigating" => "assignee" \in call[r].sets
    BY <1>0, <1>1 DEF Checked, MeetsRequirements, NeedsAssignment
  <2>7. "assignee" \in call[r].sets => call[r].assignee \in responders
    BY <1>0, <1>1 DEF Checked, ChecksAssignee
  <2> QED
    BY <1>0, <1>4, <2>2, <2>3, <2>4, <2>5, <2>6, <2>7 DEF Sound, Stored
<1> QED
  BY <1>3, <1>4

LEMMA SoundWriteUpdate ==
    ASSUME IInv, NEW r \in Requests, WriteUpdate(r), NEW j \in Incidents
    PROVE  Sound(j)'
<1>0. TypeOK /\ Sound(j) /\ Checked(r) /\ UNCHANGED <<trail, responders>>
  BY DEF IInv, SoundInv, CheckedInv, WriteUpdate
<1>1. call[r] \in Calls /\ call[r] \in Call
  BY <1>0, CallsAreCalls DEF WriteUpdate, Checked
<1>2. PICK i \in call[r].targets :
         IF Stored(i)
         THEN /\ incident' = [incident EXCEPT ![i] = Updated(@, call[r])]
              /\ around' = [around EXCEPT ![i] = @ \cup call[r].sets]
         ELSE UNCHANGED <<incident, around>>
  BY DEF WriteUpdate
<1>3. CASE ~Stored(i) \/ j # i
  BY <1>0, <1>2, <1>3, SoundStays DEF TypeOK
<1>4. CASE Stored(i) /\ j = i
  <2>1. incident[j] \in Row
    BY <1>0 DEF TypeOK
  <2>2. incident'[j] = Updated(incident[j], call[r]) /\ around'[j] = around[j] \cup call[r].sets
    BY <1>0, <1>2, <1>4 DEF TypeOK
  <2>3. /\ incident'[j].status = incident[j].status
        /\ "state" \notin call[r].sets => incident'[j].state = incident[j].state
        /\ "assignee" \notin call[r].sets => incident'[j].assignee = incident[j].assignee
    BY <1>1, <2>1, <2>2, UpdatedRow
  <2>4. HistoryEnd(j)' = HistoryEnd(j)
    BY <1>0 DEF HistoryEnd
  <2>5. call[r].sets # {}
    BY <1>1 DEF Calls, WriteUpdate
  <2> QED
    BY <1>0, <1>4, <2>2, <2>3, <2>4, <2>5 DEF Sound, Stored
<1> QED
  BY <1>3, <1>4

LEMMA SoundWriteBulk ==
    ASSUME IInv, NEW r \in Requests, WriteBulk(r), NEW j \in Incidents
    PROVE  Sound(j)'
<1>0. TypeOK /\ Sound(j) /\ Checked(r) /\ UNCHANGED <<trail, responders>>
  BY DEF IInv, SoundInv, CheckedInv, WriteBulk
<1>1. call[r] \in Calls /\ call[r] \in Call /\ call[r].kind = "bulk" /\ pc[r] = "write"
  BY <1>0, CallsAreCalls DEF WriteBulk, Checked
<1>2. CASE ~(j \in call[r].targets /\ Stored(j))
  <2>1. incident'[j] = incident[j] /\ around'[j] = around[j]
    BY <1>2 DEF WriteBulk
  <2> QED
    BY <1>0, <2>1, SoundStays
<1>3. CASE j \in call[r].targets /\ Stored(j)
  <2>1. incident[j] \in Row
    BY <1>0 DEF TypeOK
  <2>2. /\ incident'[j] = Updated(incident[j], call[r])
        /\ around'[j] = IF "state" \in call[r].sets THEN around[j] \cup {"state"}
                                                    ELSE around[j] \ {"assignee"}
    BY <1>3 DEF WriteBulk
  <2>3. /\ incident'[j].status = incident[j].status
        /\ "state" \notin call[r].sets => incident'[j].state = incident[j].state
        /\ incident'[j].assignee = IF "assignee" \in call[r].sets THEN call[r].assignee
                                                                 ELSE incident[j].assignee
    BY <1>1, <2>1, <2>2, UpdatedRow
  <2>4. HistoryEnd(j)' = HistoryEnd(j)
    BY <1>0 DEF HistoryEnd
  <2>5. \/ call[r].sets = {"state"}
        \/ /\ call[r].sets = {"assignee"} /\ call[r].assignee # None
           /\ call[r].assignee \in responders
    BY <1>0, <1>1 DEF Calls, Checked, ChecksAssignee
  <2> QED
    BY <1>0, <1>3, <2>2, <2>3, <2>4, <2>5 DEF Sound, Stored
<1> QED
  BY <1>2, <1>3

LEMMA SoundDeleteBulk ==
    ASSUME IInv, NEW r \in Requests, DeleteBulk(r), NEW j \in Incidents
    PROVE  Sound(j)'
<1>0. TypeOK /\ Sound(j) /\ UNCHANGED <<trail, responders, around>>
  BY DEF IInv, SoundInv, DeleteBulk
<1>1. CASE incident'[j] = incident[j]
  BY <1>0, <1>1, SoundStays
<1>2. CASE incident'[j] # incident[j]
  <2>1. ~incident[j].linked /\ incident'[j] = [incident[j] EXCEPT !.status = "deleted"]
    BY <1>2 DEF DeleteBulk
  <2>2. incident[j] \in Row
    BY <1>0 DEF TypeOK
  <2>3. /\ incident'[j].linked = incident[j].linked
        /\ incident'[j].state = incident[j].state
        /\ incident'[j].assignee = incident[j].assignee
    BY <2>1, <2>2, StatusRow
  <2>4. HistoryEnd(j)' = HistoryEnd(j)
    BY <1>0 DEF HistoryEnd
  <2> QED
    BY <1>0, <2>1, <2>3, <2>4 DEF Sound, Stored
<1> QED
  BY <1>1, <1>2

LEMMA SoundCreate ==
    ASSUME IInv, NEW r \in Requests, CreateRow(r) \/ LinkRow(r), NEW j \in Incidents
    PROVE  Sound(j)'
<1>0. TypeOK /\ Sound(j) /\ UNCHANGED <<trail, responders, around>>
  BY DEF IInv, SoundInv, CreateRow, LinkRow
<1>1. CASE incident'[j] = incident[j]
  BY <1>0, <1>1, SoundStays
<1>2. CASE incident'[j] # incident[j]
  <2>1. incident[j] \in Row
    BY <1>0 DEF TypeOK
  <2>2. \/ incident'[j] = [incident[j] EXCEPT !.status = "stored"]
        \/ Stored(j) /\ incident'[j] = [incident[j] EXCEPT !.linked = TRUE]
    BY <1>0, <1>2 DEF CreateRow, LinkRow, TypeOK
  <2>3. /\ incident'[j].status = "stored"
        /\ incident'[j].state = incident[j].state
        /\ incident'[j].assignee = incident[j].assignee
    <3>1. CASE incident'[j] = [incident[j] EXCEPT !.status = "stored"]
      BY <2>1, <3>1, StatusRow
    <3>2. CASE Stored(j) /\ incident'[j] = [incident[j] EXCEPT !.linked = TRUE]
      BY <2>1, <3>2, LinkedRow DEF Stored
    <3> QED
      BY <2>2, <3>1, <3>2
  <2>4. HistoryEnd(j)' = HistoryEnd(j)
    BY <1>0 DEF HistoryEnd
  <2> QED
    BY <1>0, <2>3, <2>4 DEF Sound, Stored
<1> QED
  BY <1>1, <1>2

LEMMA NextSound == ASSUME IInv, [Next]_vars PROVE SoundInv'
<1> SUFFICES ASSUME NEW j \in Incidents PROVE Sound(j)'
  BY DEF SoundInv
<1>1. CASE \/ \E p \in People : Appoint(p)
           \/ \E r \in Requests, c \in Calls : Begin(r, c)
           \/ \E r \in Requests : CheckAssignee(r) \/ AuditBulk(r) \/ Reject(r)
           \/ Crash
           \/ UNCHANGED vars
  <2>1. UNCHANGED <<incident, trail, around>> /\ responders \subseteq responders'
    BY <1>1 DEF Appoint, Begin, CheckAssignee, AuditBulk, Reject, Crash, vars
  <2> QED
    BY <2>1, SoundStays DEF IInv, SoundInv
<1> QED
  BY <1>1, SoundWriteState, SoundWriteUpdate, SoundWriteBulk, SoundDeleteBulk, SoundCreate
     DEF Next, RequestStep

-----------------------------------------------------------------------------
(* Requests.                                                               *)

\* A step begins or works one request, or moves none of them on.
LEMMA OneMoves ==
    ASSUME TypeOK, [Next]_vars, NEW s \in Requests
    PROVE  \/ RequestStep(s)
           \/ call'[s] = call[s] /\ seen'[s] = seen[s] /\ pc'[s] \in {pc[s], "lost"}
<1>1. ASSUME NEW r \in Requests, r # s, NEW c \in Calls, Begin(r, c)
      PROVE  call'[s] = call[s] /\ seen'[s] = seen[s] /\ pc'[s] = pc[s]
  BY <1>1 DEF Begin, Goto, TypeOK
<1>2. ASSUME NEW r \in Requests, r # s,
             \/ CheckAssignee(r) \/ WriteState(r) \/ WriteUpdate(r) \/ WriteBulk(r)
             \/ DeleteBulk(r) \/ AuditBulk(r) \/ CreateRow(r) \/ LinkRow(r) \/ Reject(r)
      PROVE  call'[s] = call[s] /\ seen'[s] = seen[s] /\ pc'[s] = pc[s]
  BY <1>2 DEF CheckAssignee, WriteState, WriteUpdate, WriteBulk, DeleteBulk, AuditBulk,
              CreateRow, LinkRow, Reject, Goto, TypeOK
<1>3. CASE (\E p \in People : Appoint(p)) \/ Crash \/ UNCHANGED vars
  BY <1>3 DEF Appoint, Crash, vars, requestVars, TypeOK
<1> QED
  BY <1>1, <1>2, <1>3 DEF Next, RequestStep

\* Past its check a request only ends, or goes on to what it does after its write.
LEMMA PastCheck ==
    ASSUME TypeOK, NEW r \in Requests,
           \/ WriteState(r) \/ WriteUpdate(r) \/ WriteBulk(r) \/ DeleteBulk(r)
           \/ AuditBulk(r) \/ CreateRow(r) \/ LinkRow(r) \/ Reject(r)
    PROVE  pc[r] # "new" /\ call' = call /\ pc'[r] \in Ended \cup {"audit", "link"}
  BY DEF WriteState, WriteUpdate, WriteBulk, DeleteBulk, AuditBulk, CreateRow, LinkRow,
         Reject, Goto, Running, Ended, TypeOK

LEMMA BeginRequest ==
    ASSUME IInv, NEW r \in Requests, NEW c \in Calls, Begin(r, c)
    PROVE  Checked(r)' /\ SeenCurrent(r)'
<1>1. TypeOK /\ call'[r] = c /\ UNCHANGED <<incident, overtaken>>
  BY DEF IInv, TypeOK, Begin
<1>2. c.kind = "state" /\ pc'[r] \in {"check", "write"} => MeetsRequirements(c)
  BY <1>1 DEF Begin, Goto, TypeOK
<1>3. pc'[r] = "write" => ~ChecksAssignee(c)
  BY <1>1 DEF Begin, Goto, TypeOK
<1>4. ASSUME c.kind = "state" PROVE \A i \in c.targets : seen'[r] = incident[i].state
  <2>1. PICK i \in Incidents : c.targets = {i}
    BY <1>4, OneTarget
  <2> QED
    BY <1>1, <1>4, <2>1 DEF Begin, TypeOK
<1>5. Checked(r)'
  BY <1>1, <1>2, <1>3 DEF Checked, MeetsRequirements, ChecksAssignee, NeedsNotes, NeedsAssignment
<1> QED
  BY <1>1, <1>4, <1>5 DEF SeenCurrent

LEMMA CheckRequest ==
    ASSUME IInv, NEW r \in Requests, CheckAssignee(r)
    PROVE  Checked(r)' /\ SeenCurrent(r)'
<1>1. TypeOK /\ Checked(r) /\ SeenCurrent(r)
  BY DEF IInv, CheckedInv, SeenInv
<1>2. UNCHANGED <<incident, responders, call, seen, overtaken>> /\ pc[r] = "check"
  BY DEF CheckAssignee
<1>20. pc'[r] = "refused" \/ (pc'[r] = "write" /\ call[r].assignee \in responders)
  <2>1. \/ pc' = [pc EXCEPT ![r] = "refused"]
        \/ pc' = [pc EXCEPT ![r] = "write"] /\ call[r].assignee \in responders
    BY DEF CheckAssignee, Goto
  <2> QED
    BY <1>1, <2>1 DEF TypeOK
<1>3. Checked(r)'
  BY <1>1, <1>2, <1>20 DEF Checked, MeetsRequirements, ChecksAssignee, NeedsNotes, NeedsAssignment
<1> QED
  BY <1>1, <1>2, <1>20, <1>3 DEF SeenCurrent

LEMMA EndRequest ==
    ASSUME IInv, NEW r \in Requests,
           \/ WriteState(r) \/ WriteUpdate(r) \/ WriteBulk(r) \/ DeleteBulk(r)
           \/ AuditBulk(r) \/ CreateRow(r) \/ LinkRow(r) \/ Reject(r)
    PROVE  Checked(r)' /\ SeenCurrent(r)'
<1>1. pc[r] # "new" /\ call' = call /\ pc'[r] \in Ended \cup {"audit", "link"}
  BY PastCheck DEF IInv
<1>2. call[r] \in Calls
  BY <1>1 DEF IInv, CheckedInv, Checked
<1> QED
  BY <1>1, <1>2 DEF Checked, SeenCurrent, Ended

LEMMA OvertakenGrows == ASSUME [Next]_vars PROVE overtaken \subseteq overtaken'
<1>1. ASSUME NEW r \in Requests, WriteState(r) \/ WriteUpdate(r) \/ WriteBulk(r)
      PROVE  overtaken \subseteq overtaken'
  BY <1>1 DEF WriteState, WriteUpdate, WriteBulk
<1>2. \/ UNCHANGED overtaken
      \/ \E r \in Requests : WriteState(r) \/ WriteUpdate(r) \/ WriteBulk(r)
  BY DEF Next, RequestStep, Appoint, Begin, CheckAssignee, DeleteBulk, AuditBulk, CreateRow,
         LinkRow, Reject, Crash, vars
<1> QED
  BY <1>1, <1>2

\* Whoever changes a state overtakes the other requests that have read it.
LEMMA StateChangeOvertakes ==
    ASSUME IInv, [Next]_vars, NEW i \in Incidents, incident'[i].state # incident[i].state
    PROVE  \E r \in Requests : /\ \/ WriteState(r) \/ WriteUpdate(r) \/ WriteBulk(r)
                               /\ Readers(r, {i}) \subseteq overtaken'
<1>0. TypeOK /\ incident[i] \in Row
  BY DEF IInv, TypeOK
<1>1. PICK r \in Requests : \/ WriteState(r) \/ WriteUpdate(r) \/ WriteBulk(r)
                            \/ DeleteBulk(r) \/ CreateRow(r) \/ LinkRow(r)
  BY DEF Next, RequestStep, Appoint, Begin, CheckAssignee, AuditBulk, Reject, Crash, vars
<1>2. ~DeleteBulk(r) /\ ~CreateRow(r) /\ ~LinkRow(r)
  <2>1. DeleteBulk(r) => incident'[i] = [incident[i] EXCEPT !.status = "deleted"]
    BY DEF DeleteBulk
  <2>2. CreateRow(r) => incident'[i] = [incident[i] EXCEPT !.status = "stored"]
    BY <1>0 DEF CreateRow, TypeOK
  <2>3. LinkRow(r) => incident'[i] = [incident[i] EXCEPT !.linked = TRUE]
    BY <1>0 DEF LinkRow, TypeOK
  <2>4. /\ [incident[i] EXCEPT !.status = "deleted"].state = incident[i].state
        /\ [incident[i] EXCEPT !.status = "stored"].state = incident[i].state
        /\ [incident[i] EXCEPT !.linked = TRUE].state = incident[i].state
    BY <1>0 DEF Row
  <2> QED
    BY <2>1, <2>2, <2>3, <2>4
<1>3. call[r] \in Call
  BY <1>0, <1>1, <1>2 DEF WriteState, WriteUpdate, WriteBulk, TypeOK
<1>4. Updated(incident[i], call[r]).state # incident[i].state => "state" \in call[r].sets
  BY <1>0, <1>3, UpdatedRow
<1>5. CASE WriteState(r)
  BY <1>0, <1>5 DEF WriteState, TypeOK
<1>6. CASE WriteUpdate(r)
  BY <1>0, <1>4, <1>6 DEF WriteUpdate, TypeOK
<1>7. CASE WriteBulk(r)
  <2>1. Stored(i) /\ i \in call[r].targets /\ "state" \in call[r].sets
    BY <1>4, <1>7 DEF WriteBulk
  <2>2. Readers(r, {i}) \subseteq Readers(r, {j \in call[r].targets : Stored(j)})
    BY <2>1 DEF Readers
  <2> QED
    BY <1>7, <2>1, <2>2 DEF WriteBulk
<1> QED
  BY <1>1, <1>2, <1>5, <1>6, <1>7

\* While others move, a request keeps what it has checked, and what it saw or its mark.
LEMMA WaitingRequest ==
    ASSUME IInv, [Next]_vars, NEW s \in Requests,
           call'[s] = call[s], seen'[s] = seen[s], pc'[s] \in {pc[s], "lost"}
    PROVE  Checked(s)' /\ SeenCurrent(s)'
<1>1. TypeOK /\ Checked(s) /\ SeenCurrent(s) /\ responders \subseteq responders'
  <2>1. responders \subseteq responders'
    BY DEF Next, RequestStep, Appoint, Begin, CheckAssignee, WriteState, WriteUpdate, WriteBulk,
           DeleteBulk, AuditBulk, CreateRow, LinkRow, Reject, Crash, vars
  <2> QED
    BY <2>1 DEF IInv, CheckedInv, SeenInv
<1>2. Checked(s)'
  <2>1. pc'[s] # "new" => pc[s] # "new" \/ pc'[s] = "lost"
    OBVIOUS
  <2>2. pc'[s] = "lost" => call[s] \in Calls
    <3>1. pc'[s] = "lost" => pc[s] # "new"
      <4>1. ASSUME NEW r \in Requests, NEW c \in Calls, Begin(r, c), pc'[s] = "lost"
            PROVE  pc[s] # "new"
        BY <1>1, <4>1 DEF Begin, Goto, TypeOK
      <4>2. ASSUME NEW r \in Requests, pc'[s] = "lost",
                   \/ CheckAssignee(r) \/ WriteState(r) \/ WriteUpdate(r) \/ WriteBulk(r)
                   \/ DeleteBulk(r) \/ AuditBulk(r) \/ CreateRow(r) \/ LinkRow(r) \/ Reject(r)
            PROVE  pc[s] # "new"
        BY <1>1, <4>2 DEF CheckAssignee, WriteState, WriteUpdate, WriteBulk, DeleteBulk,
                          AuditBulk, CreateRow, LinkRow, Reject, Goto, TypeOK
      <4>3. CASE (\E p \in People : Appoint(p)) \/ Crash \/ UNCHANGED vars
        BY <1>1, <4>3 DEF Appoint, Crash, vars, requestVars, Running, TypeOK
      <4> QED
        BY <4>1, <4>2, <4>3 DEF Next, RequestStep
    <3> QED
      BY <1>1, <3>1 DEF Checked
  <2> QED
    BY <1>1, <2>2 DEF Checked, MeetsRequirements, ChecksAssignee, NeedsNotes, NeedsAssignment
<1>3. SeenCurrent(s)'
  <2> SUFFICES ASSUME pc'[s] \in {"check", "write"}, call'[s].kind = "state", s \notin overtaken',
                      NEW i \in call'[s].targets
               PROVE  seen'[s] = incident'[i].state
    BY DEF SeenCurrent
  <2>1. pc[s] \in {"check", "write"} /\ s \notin overtaken /\ seen[s] = incident[i].state
    BY <1>1, OvertakenGrows DEF SeenCurrent
  <2>2. i \in Incidents
    BY <1>1, <2>1 DEF TypeOK, Call
  <2>3. ASSUME incident'[i].state # incident[i].state PROVE FALSE
    <3>1. PICK r \in Requests : /\ \/ WriteState(r) \/ WriteUpdate(r) \/ WriteBulk(r)
                                /\ Readers(r, {i}) \subseteq overtaken'
      BY <2>2, <2>3, StateChangeOvertakes
    <3>2. r # s
      BY <1>1, <2>1, <3>1, PastCheck DEF Ended
    <3>3. s \in Readers(r, {i})
      BY <2>1, <3>2 DEF Readers
    <3> QED
      BY <3>1, <3>3
  <2> QED
    BY <2>1, <2>3
<1> QED
  BY <1>2, <1>3

LEMMA InitInv == Init => IInv
<1> SUFFICES ASSUME Init PROVE IInv
  OBVIOUS
<1>1. SoundInv
  BY DEF Init, SoundInv, Sound, HistoryEnd, Stored
<1> QED
  BY <1>1, InitType DEF Init, IInv, CheckedInv, Checked, SeenInv, SeenCurrent

LEMMA NextInv == IInv /\ [Next]_vars => IInv'
<1> SUFFICES ASSUME IInv, [Next]_vars PROVE IInv'
  OBVIOUS
<1>1. ASSUME NEW s \in Requests PROVE Checked(s)' /\ SeenCurrent(s)'
  <2>1. CASE RequestStep(s)
    BY <2>1, BeginRequest, CheckRequest, EndRequest DEF RequestStep
  <2> QED
    BY <2>1, OneMoves, WaitingRequest DEF IInv
<1> QED
  BY <1>1, NextType, NextSound DEF IInv, CheckedInv, SeenInv

-----------------------------------------------------------------------------
(* The rows, histories and calls keep their types.                          *)
THEOREM TypeCorrect == Spec => []TypeOK
<1> QED
  BY InitType, NextType, PTL DEF Spec

(* A state set by updateIncidentState is the last one of its history, for   *)
(* any number of incidents and of concurrent requests.                      *)
THEOREM HistoryCorrect == Spec => []HistoryEndsAtState
<1>1. IInv => HistoryEndsAtState
  BY DEF IInv, SoundInv, Sound, HistoryEndsAtState
<1> QED
  BY <1>1, InitInv, NextInv, PTL DEF Spec

(* An investigation without a responder comes from a bypass.                *)
THEOREM InvestigationsAssigned == Spec => []UnassignedOnlyByBypass
<1>1. IInv => UnassignedOnlyByBypass
  BY DEF IInv, SoundInv, Sound, UnassignedOnlyByBypass
<1> QED
  BY <1>1, InitInv, NextInv, PTL DEF Spec

(* Only updateIncident assigns to somebody who was never a responder.       *)
THEOREM AssigneesCorrect == Spec => []AssigneeWasResponder
<1>1. IInv => AssigneeWasResponder
  BY DEF IInv, SoundInv, Sound, AssigneeWasResponder
<1> QED
  BY <1>1, InitInv, NextInv, PTL DEF Spec

(* No incident with evidence is deleted, however requests overlap.          *)
THEOREM EvidenceKept == Spec => []EvidenceKeepsIncident
<1>1. IInv => EvidenceKeepsIncident
  BY DEF IInv, SoundInv, Sound, EvidenceKeepsIncident
<1> QED
  BY <1>1, InitInv, NextInv, PTL DEF Spec

LEMMA HistoryStep ==
    ASSUME IInv, [Next]_vars, NEW i \in Incidents, trail'[i] # trail[i]
    PROVE  \/ trail'[i][Len(trail'[i])].from = HistoryEnd(i)
           \/ "state" \in around[i]
           \/ \E r \in overtaken : call[r].targets = {i} /\ pc'[r] # pc[r]
<1>0. TypeOK /\ Sound(i)
  BY DEF IInv, SoundInv
<1>1. PICK r \in Requests : WriteState(r)
  BY DEF Next, RequestStep, Appoint, Begin, CheckAssignee, WriteUpdate, WriteBulk, DeleteBulk,
         AuditBulk, CreateRow, LinkRow, Reject, Crash, vars
<1>2. call[r] \in Calls /\ call[r] \in Call /\ SeenCurrent(r)
  BY <1>1, CallsAreCalls DEF IInv, CheckedInv, Checked, SeenInv, WriteState
<1>3. PICK k \in Incidents : call[r].targets = {k}
  BY <1>1, <1>2, OneTarget DEF WriteState
<1> DEFINE step == [from |-> seen[r], to |-> call[r].state]
<1>4. i = k /\ trail'[i] = Append(trail[i], step) /\ pc'[r] = "done"
  BY <1>0, <1>1, <1>3 DEF WriteState, Goto, TypeOK
<1>5. step \in [from : States, to : States] /\ step.from = seen[r]
  BY <1>0, <1>2 DEF TypeOK, Call
<1>6. trail[i] \in Seq([from : States, to : States])
  BY <1>0 DEF TypeOK
<1> HIDE DEF step
<1>7. trail'[i][Len(trail'[i])] = step
  BY <1>4, <1>5, <1>6
<1>8. pc[r] = "write" /\ call[r].kind = "state"
  BY <1>1 DEF WriteState
<1>9. CASE r \in overtaken
  BY <1>3, <1>4, <1>8, <1>9
<1>10. CASE r \notin overtaken
  <2>1. seen[r] = incident[i].state
    BY <1>2, <1>3, <1>4, <1>8, <1>10 DEF SeenCurrent
  <2> QED
    BY <1>0, <1>5, <1>7, <2>1 DEF Sound
<1> QED
  BY <1>9, <1>10

(* A history breaks only where a request was overtaken or went around it.   *)
THEOREM HistoryBreaks == Spec => HistoryBreaksOnlyByRaceOrBypass
<1>1. IInv /\ [Next]_vars
        => [\A i \in Incidents : trail'[i] # trail[i] =>
              \/ trail'[i][Len(trail'[i])].from = HistoryEnd(i)
              \/ "state" \in around[i]
              \/ \E r \in overtaken : call[r].targets = {i} /\ pc'[r] # pc[r]]_vars
  BY HistoryStep
<1> QED
  BY <1>1, InitInv, NextInv, PTL DEF Spec, HistoryBreaksOnlyByRaceOrBypass

-----------------------------------------------------------------------------
(* The list of incidents.                                                  *)

\* What the tab would ask for now.
Asked == [place |-> place, filters |-> filters, page |-> page]

\* The call sent last asks for what the tab is on, and once it is answered no
\* answer to come is taken for the newest: or an error is shown.
NewestInv ==
    \/ error
    \/ /\ flight # <<>>
       /\ ~flight[Len(flight)].overtaken
       /\ moved \/ flight[Len(flight)].query = Asked
    \/ /\ \A i \in 1..Len(flight) : flight[i].overtaken
       /\ late \/ moved \/ list = Asked

\* Whoever waits has a call to wait for.
WaitInv == loading => flight # <<>>

ListInv == ListTypeOK /\ NewestInv /\ WaitInv

-----------------------------------------------------------------------------
(* Calls in flight.                                                        *)

\* A call is taken out of those in flight.
LEMMA RemovedAt ==
    ASSUME NEW S, NEW s \in Seq(S), NEW i \in 1..Len(s)
    PROVE  /\ RemoveAt(s, i) \in Seq(S)
           /\ Len(RemoveAt(s, i)) = Len(s) - 1
           /\ \A j \in 1..(Len(s) - 1) : RemoveAt(s, i)[j] = IF j < i THEN s[j] ELSE s[j + 1]
<1> DEFINE front == SubSeq(s, 1, i - 1)
           back  == SubSeq(s, i + 1, Len(s))
<1>1. /\ Len(s) \in Nat /\ i \in Int /\ 1 <= i /\ i <= Len(s)
      /\ \A j \in 1..Len(s) : s[j] \in S
  BY LenProperties, ElementOfSeq
<1>2. /\ front \in Seq(S) /\ Len(front) = i - 1
      /\ \A j \in 1..(i - 1) : front[j] = s[j]
  <2>1. \A j \in 1..(i - 1) : s[j] \in S
    BY <1>1
  <2>2. /\ front \in Seq(S) /\ Len(front) = IF 1 <= i - 1 THEN (i - 1) - 1 + 1 ELSE 0
        /\ \A j \in 1..((i - 1) - 1 + 1) : front[j] = s[1 + j - 1]
    BY <1>1, <2>1, SubSeqProperties
  <2> QED
    BY <1>1, <2>2
<1>3. /\ back \in Seq(S) /\ Len(back) = Len(s) - i
      /\ \A j \in 1..(Len(s) - i) : back[j] = s[i + j]
  <2>1. \A j \in (i + 1)..Len(s) : s[j] \in S
    BY <1>1
  <2>2. /\ back \in Seq(S)
        /\ Len(back) = IF i + 1 <= Len(s) THEN Len(s) - (i + 1) + 1 ELSE 0
        /\ \A j \in 1..(Len(s) - (i + 1) + 1) : back[j] = s[(i + 1) + j - 1]
    BY <1>1, <2>1, SubSeqProperties
  <2> QED
    BY <1>1, <2>2
<1>4. RemoveAt(s, i) = front \o back
  BY DEF RemoveAt
<1> HIDE DEF front, back
<1>5. /\ front \o back \in Seq(S)
      /\ Len(front \o back) = Len(front) + Len(back)
      /\ \A j \in 1..(Len(front) + Len(back)) :
            (front \o back)[j] = IF j <= Len(front) THEN front[j] ELSE back[j - Len(front)]
  BY <1>2, <1>3, ConcatProperties
<1>6. ASSUME NEW j \in 1..(Len(s) - 1)
      PROVE  (front \o back)[j] = IF j < i THEN s[j] ELSE s[j + 1]
  <2>1. CASE j < i
    <3>1. j \in 1..(i - 1) /\ j \in 1..(Len(front) + Len(back)) /\ j <= Len(front)
      BY <1>1, <1>2, <1>3, <2>1
    <3>2. (front \o back)[j] = front[j]
      BY <1>5, <3>1
    <3> QED
      BY <1>2, <2>1, <3>1, <3>2
  <2>2. CASE i <= j
    <3>1. (front \o back)[j] = back[j - (i - 1)] /\ j - (i - 1) \in 1..(Len(s) - i)
      BY <1>1, <1>2, <1>3, <1>5, <2>2
    <3>2. back[j - (i - 1)] = s[i + (j - (i - 1))] /\ i + (j - (i - 1)) = j + 1
      BY <1>1, <1>3, <3>1
    <3> QED
      BY <1>1, <2>2, <3>1, <3>2
  <2>3. j < i \/ i <= j
    BY <1>1
  <2> QED
    BY <2>1, <2>2, <2>3, Zenon
<1>7. Len(front \o back) = Len(s) - 1
  BY <1>1, <1>2, <1>3, <1>5
<1> QED
  BY <1>4, <1>5, <1>6, <1>7

\* What an answer to call i leaves in flight: its elders are overtaken, those
\* sent after it are as they were.
LEMMA LeftWithout ==
    ASSUME ListTypeOK, NEW i \in 1..Len(flight)
    PROVE  /\ Without(i) \in Seq(Fetches)
           /\ Len(Without(i)) = Len(flight) - 1
           /\ \A j \in 1..(Len(flight) - 1) :
                 IF j < i THEN Without(i)[j].overtaken ELSE Without(i)[j] = flight[j + 1]
<1> DEFINE marked == [j \in 1..Len(flight) |->
                        IF j < i THEN [flight[j] EXCEPT !.overtaken = TRUE] ELSE flight[j]]
<1>1. Len(flight) \in Nat /\ \A j \in 1..Len(flight) : flight[j] \in Fetches
  BY LenProperties, ElementOfSeq DEF ListTypeOK
<1>2. \A j \in 1..Len(flight) : marked[j] \in Fetches
  BY <1>1 DEF Fetches
<1>3. marked \in Seq(Fetches) /\ Len(marked) = Len(flight)
  BY <1>1, <1>2, SeqDef
<1>4. Without(i) = RemoveAt(marked, i)
  BY DEF Without
<1>5. \A j \in 1..Len(flight) : IF j < i THEN marked[j].overtaken ELSE marked[j] = flight[j]
  BY <1>1 DEF Fetches
<1> HIDE DEF marked
<1>6. /\ RemoveAt(marked, i) \in Seq(Fetches)
      /\ Len(RemoveAt(marked, i)) = Len(marked) - 1
      /\ \A j \in 1..(Len(marked) - 1) :
            RemoveAt(marked, i)[j] = IF j < i THEN marked[j] ELSE marked[j + 1]
  BY <1>3, RemovedAt
<1>7. ASSUME NEW j \in 1..(Len(flight) - 1)
      PROVE  IF j < i THEN Without(i)[j].overtaken ELSE Without(i)[j] = flight[j + 1]
  <2>1. CASE j < i
    <3>1. j \in 1..Len(flight) /\ Without(i)[j] = marked[j]
      BY <1>1, <1>3, <1>4, <1>6, <2>1
    <3> QED
      BY <1>5, <2>1, <3>1
  <2>2. CASE ~(j < i)
    <3>1. j + 1 \in 1..Len(flight) /\ ~(j + 1 < i) /\ Without(i)[j] = marked[j + 1]
      BY <1>1, <1>3, <1>4, <1>6, <2>2
    <3> QED
      BY <1>5, <2>2, <3>1
  <2> QED
    BY <2>1, <2>2
<1> QED
  BY <1>1, <1>3, <1>4, <1>6, <1>7

-----------------------------------------------------------------------------
(* Types.                                                                  *)

LEMMA ListInitType == ListInit => ListTypeOK
<1> SUFFICES ASSUME ListInit PROVE ListTypeOK
  OBVIOUS
<1>1. Asking({}, 1) \in Fetches
  BY ListAssumptions DEF ListInit, Asking, Fetches, Query
<1>2. flight \in Seq(Fetches)
  BY <1>1 DEF ListInit
<1>3. kept \in [Events -> SUBSET Events] /\ stored \subseteq Events
  BY DEF ListInit
<1>4. page \in 1..MaxPage /\ total \in 1..MaxPage
  BY ListAssumptions DEF ListInit
<1> QED
  BY <1>2, <1>3, <1>4 DEF ListInit, ListTypeOK

\* What the tab asks for is a call.
LEMMA AskingType ==
    ASSUME ListTypeOK, NEW f \in SUBSET Filters, NEW p \in 1..MaxPage
    PROVE  /\ Asking(f, p) \in Fetches
           /\ ~Asking(f, p).overtaken
           /\ Asking(f, p).query = [place |-> place, filters |-> f, page |-> p]
  BY DEF ListTypeOK, Asking, Fetches, Query

\* Calls sent after those in flight: the last of them is the newest.
LEMMA Sent ==
    ASSUME NEW others \in Seq(Fetches), NEW new \in Seq(Fetches), new # <<>>
    PROVE  /\ others \o new \in Seq(Fetches)
           /\ others \o new # <<>>
           /\ (others \o new)[Len(others \o new)] = new[Len(new)]
<1>1. Len(new) \in Nat /\ Len(new) > 0 /\ Len(others) \in Nat
  BY LenProperties, EmptySeq
<1>2. /\ others \o new \in Seq(Fetches)
      /\ Len(others \o new) = Len(others) + Len(new)
      /\ \A j \in 1..(Len(others) + Len(new)) :
            (others \o new)[j] = IF j <= Len(others) THEN others[j] ELSE new[j - Len(others)]
  BY ConcatProperties
<1>3. (others \o new)[Len(others) + Len(new)] = new[(Len(others) + Len(new)) - Len(others)]
  BY <1>1, <1>2
<1>4. (Len(others) + Len(new)) - Len(others) = Len(new)
  BY <1>1
<1>5. others \o new # <<>>
  BY <1>1, <1>2
<1> QED
  BY <1>2, <1>3, <1>4, <1>5

\* A step that asks for filters f on page p last, and is on them, leaves that
\* call as the newest.
LEMMA Fetched ==
    ASSUME ListTypeOK, NEW others \in Seq(Fetches), NEW new \in Seq(Fetches),
           new # <<>>, new[Len(new)] = Asking(filters', page'),
           filters' \in SUBSET Filters, page' \in 1..MaxPage, UNCHANGED place,
           Fetch(new, others)
    PROVE  /\ flight' \in Seq(Fetches) /\ loading' = TRUE /\ error' = FALSE /\ moved' = FALSE
           /\ NewestInv' /\ WaitInv'
<1>1. /\ flight' \in Seq(Fetches) /\ flight' # <<>>
      /\ flight'[Len(flight')] = Asking(filters', page')
  BY Sent DEF Fetch
<1>2. /\ ~Asking(filters', page').overtaken
      /\ Asking(filters', page').query = [place |-> place, filters |-> filters', page |-> page']
  BY AskingType
<1>3. Asking(filters', page').query = Asked'
  BY <1>2 DEF Asked
<1>4. NewestInv'
  BY <1>1, <1>2, <1>3 DEF NewestInv
<1>5. WaitInv'
  BY <1>1 DEF WaitInv
<1> QED
  BY <1>1, <1>4, <1>5 DEF Fetch

\* The same when the filters change.
LEMMA Refiltered ==
    ASSUME ListTypeOK, NEW others \in Seq(Fetches), NEW f \in SUBSET Filters,
           UNCHANGED place, Refilter(f, others)
    PROVE  /\ filters' \in SUBSET Filters /\ page' \in 1..MaxPage
           /\ flight' \in Seq(Fetches) /\ loading' = TRUE /\ error' = FALSE /\ moved' = FALSE
           /\ NewestInv' /\ WaitInv'
<1> DEFINE new == <<Asking(f, page)>> \o (IF page = 1 THEN <<>> ELSE <<Asking(f, 1)>>)
<1>1. filters' = f /\ page' = 1 /\ 1 \in 1..MaxPage /\ Fetch(new, others)
  BY ListAssumptions DEF Refilter
<1>2. Asking(f, page) \in Fetches /\ Asking(f, 1) \in Fetches
  BY <1>1, AskingType DEF ListTypeOK
<1>3. new \in Seq(Fetches) /\ new # <<>> /\ new[Len(new)] = Asking(f, 1)
  <2>1. CASE page = 1
    BY <1>2, <2>1
  <2>2. CASE page # 1
    BY <1>2, <2>2
  <2> QED
    BY <2>1, <2>2
<1> HIDE DEF new
<1> QED
  BY <1>1, <1>3, Fetched

-----------------------------------------------------------------------------
(* The list shown.                                                         *)

LEMMA ListInitInv == ListInit => ListInv
<1> SUFFICES ASSUME ListInit PROVE ListInv
  OBVIOUS
<1>1. ListTypeOK
  BY ListInitType
<1>2. /\ flight = <<Asking({}, 1)>> /\ Len(flight) = 1
      /\ ~Asking({}, 1).overtaken /\ Asking({}, 1).query = Asked
  BY DEF ListInit, Asking, Asked
<1>3. NewestInv /\ WaitInv
  BY <1>2 DEF NewestInv, WaitInv
<1> QED
  BY <1>1, <1>3 DEF ListInv

\* The steps that ask for something keep what the list is waiting for.
LEMMA AskingSteps ==
    ASSUME ListInv, NEW f \in Filters, NEW p \in 1..MaxPage,
           SetFilter(f) \/ ClearFilters \/ Turn(p) \/ Refresh
    PROVE  ListInv'
<1>0. ListTypeOK /\ filters \subseteq Filters /\ page \in 1..MaxPage /\ flight \in Seq(Fetches)
      /\ NewestInv /\ WaitInv
  BY DEF ListInv, ListTypeOK
<1>a. \A q \in 1..MaxPage : \A g \in SUBSET Filters :
         /\ <<Asking(g, q)>> \in Seq(Fetches) /\ <<Asking(g, q)>> # <<>>
         /\ <<Asking(g, q)>>[Len(<<Asking(g, q)>>)] = Asking(g, q)
  <2> SUFFICES ASSUME NEW q \in 1..MaxPage, NEW g \in SUBSET Filters, NEW c, c = Asking(g, q)
               PROVE  <<c>> \in Seq(Fetches) /\ <<c>> # <<>> /\ <<c>>[Len(<<c>>)] = c
    OBVIOUS
  <2>1. c \in Fetches
    BY <1>0, AskingType
  <2> QED
    BY <2>1
<1>1. CASE SetFilter(f)
  <2> DEFINE g == IF f \in filters THEN filters \ {f} ELSE filters \cup {f}
  <2>1. g \in SUBSET Filters /\ Refilter(g, flight) /\ UNCHANGED place
    BY <1>0, <1>1 DEF SetFilter
  <2> HIDE DEF g
  <2>2. /\ filters' \in SUBSET Filters /\ page' \in 1..MaxPage
        /\ flight' \in Seq(Fetches) /\ loading' = TRUE /\ error' = FALSE /\ moved' = FALSE
        /\ NewestInv' /\ WaitInv'
    BY <1>0, <2>1, Refiltered
  <2>3. UNCHANGED <<place, shownVars, pinVars, late>>
    BY <1>1 DEF SetFilter
  <2> QED
    BY <1>0, <2>2, <2>3 DEF ListInv, ListTypeOK, shownVars, pinVars
<1>2. CASE ClearFilters
  <2>1. CASE Refilter({}, flight)
    <3>1. UNCHANGED <<place, shownVars, pinVars, late>>
      BY <1>2 DEF ClearFilters
    <3>2. /\ filters' \in SUBSET Filters /\ page' \in 1..MaxPage
          /\ flight' \in Seq(Fetches) /\ loading' = TRUE /\ error' = FALSE /\ moved' = FALSE
          /\ NewestInv' /\ WaitInv'
      BY <1>0, <2>1, <3>1, Refiltered
    <3> QED
      BY <1>0, <3>1, <3>2 DEF ListInv, ListTypeOK, shownVars, pinVars
  <2>2. CASE filters = {} /\ page' = 1 /\ Fetch(<<Asking({}, 1)>>, flight) /\ UNCHANGED filters
    <3>1. UNCHANGED <<place, shownVars, pinVars, late>>
      BY <1>2 DEF ClearFilters
    <3>2. {} \in SUBSET Filters /\ 1 \in 1..MaxPage /\ filters' = {} /\ page' = 1
      BY <2>2, ListAssumptions
    <3>3. /\ flight' \in Seq(Fetches) /\ loading' = TRUE /\ error' = FALSE /\ moved' = FALSE
          /\ NewestInv' /\ WaitInv'
      BY <1>0, <1>a, <2>2, <3>1, <3>2, Fetched
    <3> QED
      BY <1>0, <3>1, <3>2, <3>3 DEF ListInv, ListTypeOK, shownVars, pinVars
  <2> QED
    BY <1>2, <2>1, <2>2 DEF ClearFilters
<1>3. CASE Turn(p)
  <2>1. page' = p /\ UNCHANGED <<place, filters, shownVars, pinVars, late>>
    BY <1>3 DEF Turn
  <2>2. CASE p = page
    <3>1. UNCHANGED <<waitVars, moved>>
      BY <1>3, <2>2 DEF Turn
    <3>2. UNCHANGED listVars
      BY <2>1, <2>2, <3>1 DEF listVars, queryVars
    <3> QED
      BY <1>0, <3>2 DEF ListInv, ListTypeOK, NewestInv, WaitInv, Asked, listVars, queryVars,
                        shownVars, waitVars, pinVars
  <2>3. CASE p # page
    <3>1. Fetch(<<Asking(filters, p)>>, flight)
      BY <1>3, <2>3 DEF Turn
    <3>2. /\ flight' \in Seq(Fetches) /\ loading' = TRUE /\ error' = FALSE /\ moved' = FALSE
          /\ NewestInv' /\ WaitInv'
      BY <1>0, <1>a, <2>1, <3>1, Fetched
    <3> QED
      BY <1>0, <2>1, <3>2 DEF ListInv, ListTypeOK, shownVars, pinVars
  <2> QED
    BY <2>2, <2>3
<1>4. CASE Refresh
  <2>1. Fetch(<<Asking(filters, page)>>, flight) /\ UNCHANGED <<place, queryVars, shownVars, pinVars, late>>
    BY <1>4 DEF Refresh
  <2>2. filters' = filters /\ page' = page /\ place' = place
    BY <2>1 DEF queryVars
  <2>3. /\ flight' \in Seq(Fetches) /\ loading' = TRUE /\ error' = FALSE /\ moved' = FALSE
        /\ NewestInv' /\ WaitInv'
    BY <1>0, <1>a, <2>1, <2>2, Fetched
  <2> QED
    BY <1>0, <2>1, <2>2, <2>3 DEF ListInv, ListTypeOK, shownVars, pinVars
<1> QED
  BY <1>1, <1>2, <1>3, <1>4

\* An answer to the newest call is what the tab is on and leaves only calls it
\* overtook; one to an older call leaves the newest.
LEMMA AnswerStep ==
    ASSUME ListInv, Answered
    PROVE  ListInv'
<1>0. /\ ListTypeOK /\ filters \subseteq Filters /\ page \in 1..MaxPage /\ flight \in Seq(Fetches)
      /\ NewestInv /\ WaitInv /\ Len(flight) \in Nat
  BY LenProperties DEF ListInv, ListTypeOK
<1>1. PICK i \in 1..Len(flight) :
        /\ list' = flight[i].query /\ total' \in 1..MaxPage
        /\ \E sees \in BOOLEAN : Take(i, sees)
        /\ late' = flight[i].overtaken
        /\ UNCHANGED <<place, pinVars>>
  BY Zenon DEF Answered
<1>2. PICK sees \in BOOLEAN : Take(i, sees)
  BY <1>1
<1>3. flight[i] \in Fetches
  BY <1>0, ElementOfSeq
<1>4. list' \in Query /\ late' \in BOOLEAN
  BY <1>1, <1>3 DEF Fetches
<1>5. /\ Without(i) \in Seq(Fetches)
      /\ Len(Without(i)) = Len(flight) - 1
      /\ \A j \in 1..(Len(flight) - 1) :
            IF j < i THEN Without(i)[j].overtaken ELSE Without(i)[j] = flight[j + 1]
  BY <1>0, LeftWithout
<1>6. canView' = sees
  BY <1>2 DEF Take
<1>7. CASE /\ loading' = FALSE /\ flight' = Without(i)
           /\ UNCHANGED <<queryVars, error, moved>>
  <2>1. ListTypeOK'
    BY <1>0, <1>1, <1>4, <1>5, <1>6, <1>7 DEF ListTypeOK, pinVars, queryVars
  <2>2. WaitInv'
    BY <1>7 DEF WaitInv
  <2>3. /\ Asked' = Asked /\ error' = error /\ moved' = moved
    BY <1>1, <1>7 DEF Asked, queryVars
  <2>4. NewestInv'
    <3>1. CASE error
      BY <2>3, <3>1 DEF NewestInv
    <3>2. CASE /\ flight # <<>>
               /\ ~flight[Len(flight)].overtaken
               /\ moved \/ flight[Len(flight)].query = Asked
      <4>1. CASE i = Len(flight)
        <5>1. \A j \in 1..Len(flight') : flight'[j].overtaken
          BY <1>0, <1>5, <1>7, <4>1
        <5>2. moved' \/ list' = Asked'
          BY <1>1, <2>3, <3>2, <4>1
        <5> QED
          BY <5>1, <5>2 DEF NewestInv
      <4>2. CASE i # Len(flight)
        <5>1. Len(flight') = Len(flight) - 1 /\ Len(flight') \in 1..(Len(flight) - 1)
              /\ ~(Len(flight') < i) /\ Len(flight') + 1 = Len(flight)
          BY <1>0, <1>5, <1>7, <4>2
        <5>2. flight'[Len(flight')] = flight[Len(flight)]
          BY <1>5, <1>7, <5>1
        <5>3. flight' # <<>>
          BY <5>1
        <5> QED
          BY <2>3, <3>2, <5>2, <5>3 DEF NewestInv
      <4> QED
        BY <4>1, <4>2
    <3>3. CASE /\ \A j \in 1..Len(flight) : flight[j].overtaken
               /\ late \/ moved \/ list = Asked
      <4>1. late'
        BY <1>1, <3>3
      <4>2. ASSUME NEW j \in 1..(Len(flight) - 1) PROVE Without(i)[j].overtaken
        <5>1. j + 1 \in 1..Len(flight)
          BY <1>0
        <5> QED
          BY <1>5, <3>3, <5>1
      <4>3. \A j \in 1..Len(flight') : flight'[j].overtaken
        BY <1>5, <1>7, <4>2
      <4> QED
        BY <4>1, <4>3 DEF NewestInv
    <3> QED
      BY <1>0, <3>1, <3>2, <3>3 DEF NewestInv
  <2> QED
    BY <2>1, <2>2, <2>4 DEF ListInv
<1>8. CASE Refilter(filters \ {"assigned"}, Without(i))
  <2>1. /\ filters' \in SUBSET Filters /\ page' \in 1..MaxPage
        /\ flight' \in Seq(Fetches) /\ loading' = TRUE /\ error' = FALSE /\ moved' = FALSE
        /\ NewestInv' /\ WaitInv'
    BY <1>0, <1>1, <1>5, <1>8, Refiltered
  <2> QED
    BY <1>0, <1>1, <1>4, <1>6, <2>1 DEF ListInv, ListTypeOK, pinVars
<1> QED
  BY <1>2, <1>7, <1>8 DEF Take

LEMMA OtherListSteps ==
    ASSUME ListInv, Failed \/ (\E p \in Places : Open(p)) \/ (\E e \in Events : Move(e) \/ TogglePin(e))
    PROVE  ListInv'
<1>0. ListTypeOK /\ NewestInv /\ WaitInv
  BY DEF ListInv
<1>1. CASE Failed
  <2>1. PICK i \in 1..Len(flight) : flight' = RemoveAt(flight, i)
    BY <1>1 DEF Failed
  <2>2. /\ error' = TRUE /\ loading' = FALSE
        /\ UNCHANGED <<place, queryVars, shownVars, pinVars, late, moved>>
    BY <1>1 DEF Failed
  <2>3. flight' \in Seq(Fetches)
    BY <1>0, <2>1, RemovedAt DEF ListTypeOK
  <2>4. ListTypeOK'
    BY <1>0, <2>2, <2>3 DEF ListTypeOK, queryVars, shownVars, pinVars
  <2> QED
    BY <2>2, <2>4 DEF ListInv, NewestInv, WaitInv
<1>2. ASSUME NEW p \in Places, Open(p) PROVE ListInv'
  <2> DEFINE first == [Asking({}, 1) EXCEPT !.query.place = p]
  <2>1. /\ place' = p /\ filters' = {} /\ page' = 1 /\ total' = 1 /\ canView' = FALSE
        /\ list' = <<>> /\ loading' = TRUE /\ error' = FALSE
        /\ flight' = <<first>>
        /\ pins' = (IF p \in Events THEN kept[p] ELSE {})
        /\ stored' = stored \cup ({p} \cap Events)
        /\ late' = FALSE /\ moved' = FALSE
        /\ UNCHANGED <<kept, mixed>>
    <3>1. flight' = <<first>>
      BY <1>2, Zenon DEF Open
    <3> QED
      BY <1>2, <3>1 DEF Open
  <2>2. first = [query |-> [place |-> p, filters |-> {}, page |-> 1], overtaken |-> FALSE]
    <3>1. first = [Asking({}, 1) EXCEPT !.query = [Asking({}, 1).query EXCEPT !.place = p]]
      OBVIOUS
    <3>2. Asking({}, 1).query = [place |-> place, filters |-> {}, page |-> 1]
      BY DEF Asking
    <3>3. [Asking({}, 1).query EXCEPT !.place = p] = [place |-> p, filters |-> {}, page |-> 1]
      BY <3>2
    <3>4. first = [Asking({}, 1) EXCEPT !.query = [place |-> p, filters |-> {}, page |-> 1]]
      BY <3>1, <3>3
    <3> HIDE DEF first
    <3> QED
      BY <3>4 DEF Asking
  <2>3. 1 \in 1..MaxPage
    BY ListAssumptions
  <2>4. first \in Fetches /\ ~first.overtaken /\ first.query = [place |-> p, filters |-> {}, page |-> 1]
    <3> HIDE DEF first
    <3>1. [place |-> p, filters |-> {}, page |-> 1] \in Query
      BY <2>3 DEF Query
    <3> QED
      BY <2>2, <3>1 DEF Fetches
  <2> HIDE DEF first
  <2>5. flight' \in Seq(Fetches) /\ flight' # <<>> /\ flight'[Len(flight')] = first
    BY <2>1, <2>4
  <2>6. pins' \subseteq Events /\ stored' \subseteq Events
    BY <1>0, <2>1 DEF ListTypeOK
  <2>7. ListTypeOK'
    BY <1>0, <2>1, <2>3, <2>5, <2>6 DEF ListTypeOK
  <2>8. Asked' = first.query
    BY <2>1, <2>4 DEF Asked
  <2>9. NewestInv' /\ WaitInv'
    BY <2>4, <2>5, <2>8 DEF NewestInv, WaitInv
  <2> QED
    BY <2>7, <2>9 DEF ListInv
<1>3. ASSUME NEW e \in Events, Move(e) PROVE ListInv'
  <2>1. /\ place' = e /\ moved' = TRUE /\ MovePins(e)
        /\ UNCHANGED <<queryVars, shownVars, waitVars, late>>
    BY <1>3 DEF Move
  <2>2. pins' \subseteq Events /\ kept' \in [Events -> SUBSET Events]
        /\ stored' \subseteq Events /\ mixed' \subseteq Events
    BY <1>0, <2>1 DEF ListTypeOK, MovePins
  <2>3. ListTypeOK'
    BY <1>0, <2>1, <2>2 DEF ListTypeOK, queryVars, shownVars, waitVars, Places
  <2>4. UNCHANGED <<flight, error, loading, late>> /\ moved'
    BY <2>1 DEF waitVars
  <2>5. NewestInv' /\ WaitInv'
    BY <1>0, <2>4 DEF NewestInv, WaitInv
  <2> QED
    BY <2>3, <2>5 DEF ListInv
<1>4. ASSUME NEW e \in Events, TogglePin(e) PROVE ListInv'
  <2>1. /\ place \in Events
        /\ pins' = (IF e \in pins THEN pins \ {e} ELSE pins \cup {e})
        /\ kept' = [kept EXCEPT ![place] = pins']
        /\ mixed' = IF place # e /\ e \notin pins THEN mixed \cup {place} ELSE mixed
        /\ UNCHANGED <<place, queryVars, shownVars, waitVars, stored, late, moved>>
    BY <1>4 DEF TogglePin
  <2>2. pins' \subseteq Events /\ mixed' \subseteq Events
    BY <1>0, <2>1 DEF ListTypeOK
  <2>3. kept' \in [Events -> SUBSET Events]
    BY <1>0, <2>1, <2>2 DEF ListTypeOK
  <2>4. ListTypeOK'
    BY <1>0, <2>1, <2>2, <2>3 DEF ListTypeOK, queryVars, shownVars, waitVars
  <2>5. UNCHANGED <<flight, error, loading, late, moved, list, Asked>>
    BY <2>1 DEF waitVars, queryVars, shownVars, Asked
  <2>6. NewestInv' /\ WaitInv'
    BY <1>0, <2>5 DEF NewestInv, WaitInv
  <2> QED
    BY <2>4, <2>6 DEF ListInv
<1> QED
  BY <1>1, <1>2, <1>3, <1>4

LEMMA ListNextInv == ListInv /\ [ListNext]_listVars => ListInv'
<1> SUFFICES ASSUME ListInv, [ListNext]_listVars PROVE ListInv'
  OBVIOUS
<1>1. CASE UNCHANGED listVars
  BY <1>1 DEF ListInv, ListTypeOK, NewestInv, WaitInv, Asked, listVars, queryVars, shownVars,
              waitVars, pinVars
<1>2. ASSUME NEW f \in Filters, SetFilter(f) PROVE ListInv'
  <2>1. 1 \in 1..MaxPage
    BY ListAssumptions
  <2> QED
    BY <1>2, <2>1, AskingSteps
<1>3. CASE ClearFilters \/ Refresh
  <2>1. 1 \in 1..MaxPage /\ "assigned" \in Filters
    BY ListAssumptions
  <2> QED
    BY <1>3, <2>1, AskingSteps
<1>4. ASSUME NEW p \in 1..MaxPage, Turn(p) PROVE ListInv'
  <2>1. "assigned" \in Filters
    BY ListAssumptions
  <2> QED
    BY <1>4, <2>1, AskingSteps
<1>5. CASE Answered
  BY <1>5, AnswerStep
<1>6. CASE Failed \/ (\E p \in Places : Open(p)) \/ (\E e \in Events : Move(e) \/ TogglePin(e))
  BY <1>6, OtherListSteps
<1> QED
  BY <1>1, <1>2, <1>3, <1>4, <1>5, <1>6 DEF ListNext

\* Every state a tab's list reaches is of the declared types.
THEOREM ListTypeCorrect == ListSpec => []ListTypeOK
<1>1. ListInv => ListTypeOK
  BY DEF ListInv
<1> QED
  BY <1>1, ListInitInv, ListNextInv, PTL DEF ListSpec

\* With nothing in flight, the newest call was answered, and no answer of an
\* older one came after.
LEMMA ListInvShown == ListInv => ShownIsAsked
<1> SUFFICES ASSUME ListInv, flight = <<>>
             PROVE  ~loading /\ (late \/ moved \/ error \/ list = Asked)
  BY DEF ShownIsAsked, Asked
<1> QED
  BY DEF ListInv, NewestInv, WaitInv

\* Whatever order the calls of a tab are answered in, one that waits for
\* nothing shows the list it asked for last, but for the cases named.
THEOREM ShownListIsAsked == ListSpec => []ShownIsAsked
  BY ListInvShown, ListInitInv, ListNextInv, PTL DEF ListSpec

-----------------------------------------------------------------------------
(* Pins.                                                                   *)

LEMMA PinsStep ==
    ASSUME ListTypeOK, PinsOfEvent, [ListNext]_listVars
    PROVE  PinsOfEvent'
<1>1. CASE UNCHANGED <<place, pinVars>>
  BY <1>1 DEF PinsOfEvent, pinVars
<1>2. ASSUME NEW p \in Places, Open(p) PROVE PinsOfEvent'
  BY <1>2 DEF PinsOfEvent, Open
<1>3. ASSUME NEW e \in Events, Move(e) PROVE PinsOfEvent'
  <2>1. /\ place \in Events /\ place' = e
        /\ pins' = (IF e \in stored THEN kept[e] ELSE pins)
        /\ kept' = [kept EXCEPT ![e] = pins']
        /\ mixed' = IF e \notin stored /\ pins # {} THEN mixed \cup {e} ELSE mixed
    BY <1>3 DEF Move, MovePins
  <2>2. pins' = kept'[place']
    BY <2>1 DEF ListTypeOK
  <2>3. ASSUME NEW d \in Events \ mixed' PROVE kept'[d] \subseteq {d}
    BY <2>1, <2>3 DEF ListTypeOK, PinsOfEvent
  <2> QED
    BY <2>2, <2>3 DEF PinsOfEvent
<1>4. ASSUME NEW e \in Events, TogglePin(e) PROVE PinsOfEvent'
  <2>1. /\ place \in Events /\ place' = place
        /\ pins' = (IF e \in pins THEN pins \ {e} ELSE pins \cup {e})
        /\ kept' = [kept EXCEPT ![place] = pins']
        /\ mixed' = IF place # e /\ e \notin pins THEN mixed \cup {place} ELSE mixed
    BY <1>4 DEF TogglePin
  <2>2. pins' = kept'[place']
    BY <2>1 DEF ListTypeOK
  <2>3. ASSUME NEW d \in Events \ mixed' PROVE kept'[d] \subseteq {d}
    BY <2>1, <2>3 DEF ListTypeOK, PinsOfEvent
  <2> QED
    BY <2>2, <2>3 DEF PinsOfEvent
<1>5. (\E f \in Filters : SetFilter(f)) \/ ClearFilters \/ Refresh \/ (\E p \in 1..MaxPage : Turn(p))
         \/ Failed \/ UNCHANGED listVars => UNCHANGED <<place, pinVars>>
  BY DEF SetFilter, ClearFilters, Refresh, Turn, Failed, listVars
<1>6. Answered => UNCHANGED <<place, pinVars>>
  BY DEF Answered
<1> QED
  BY <1>1, <1>2, <1>3, <1>4, <1>5, <1>6 DEF ListNext

\* An event keeps pins of its own incidents, and those shown are the ones kept
\* for the place the tab is on, but for the two ways the tab mixes them.
THEOREM PinsBelong == ListSpec => []PinsOfEvent
<1>1. ListInit => PinsOfEvent
  BY DEF ListInit, PinsOfEvent
<1>2. ListInv /\ PinsOfEvent /\ [ListNext]_listVars => PinsOfEvent'
  BY PinsStep DEF ListInv
<1> QED
  BY <1>1, <1>2, ListInitInv, ListNextInv, PTL DEF ListSpec
=============================================================================
