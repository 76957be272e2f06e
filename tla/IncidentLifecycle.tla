-------------------------- MODULE IncidentLifecycle --------------------------
(***************************************************************************)
(* The life of an incident report: createIncident, updateIncidentState,    *)
(* updateIncident and bulkUpdateIncidents of services/incident.service.ts  *)
(* over the incidents of one event.                                        *)
(*                                                                         *)
(* A request reads the incidents it names, checks what its handler checks, *)
(* and writes later from what it read; a step is one awaited call, and     *)
(* requests interleave.  A $transaction is one step: other requests see    *)
(* all of it or nothing.  updateIncidentState records each change in the   *)
(* audit log, which is the state history users see; updateIncident and the *)
(* bulk update change the same columns without it.                         *)
(***************************************************************************)
EXTENDS Naturals, Sequences

CONSTANTS Requests,   \* HTTP requests, each runs once
          Incidents,  \* incident ids
          People,     \* users an incident can be assigned to
          States,     \* incident states
          None        \* no assignee, no call

ASSUME IncidentAssumptions ==
    /\ {"submitted", "investigating", "resolved"} \subseteq States
    /\ None \notin People

Fields == {"state", "assignee"}

\* What a request asks: the incidents it names and what it sets on them.
Call == [kind     : {"create", "state", "update", "bulk", "delete"},
         targets  : SUBSET Incidents,
         sets     : SUBSET Fields,
         state    : States,
         assignee : People \cup {None},
         notes    : BOOLEAN]    \* with notes; for create, with tags or files

Row == [status   : {"absent", "stored", "deleted"},
        state    : States,
        assignee : People \cup {None},
        linked   : BOOLEAN]     \* comments, tags or files refer to it

VARIABLES incident,   \* the Incident rows
          trail,      \* per incident, its 'State changed from .. to ..' audit rows
          responders, \* users who are or were responders or administrators of the event
          pc, call,   \* what each request awaits or how it ended, and what it asks
          seen,       \* the state an updateIncidentState read
          wrote,      \* requests that have changed the database
          around,     \* history: columns set without a check since they were last set with one
          overtaken   \* history: requests whose seen state has been replaced by another

requestVars == <<pc, call, seen, wrote>>
vars == <<incident, trail, responders, requestVars, around, overtaken>>

Running == {"create", "link", "check", "write", "audit"}
Ended   == {"done", "refused", "failed", "lost"}

TypeOK ==
    /\ incident \in [Incidents -> Row]
    /\ trail \in [Incidents -> Seq([from : States, to : States])]
    /\ responders \subseteq People
    /\ pc \in [Requests -> {"new"} \cup Running \cup Ended]
    /\ call \in [Requests -> Call \cup {None}]
    /\ \A r \in Requests : pc[r] # "new" => call[r] \in Call
    /\ seen \in [Requests -> States]
    /\ wrote \subseteq Requests
    /\ around \in [Incidents -> SUBSET Fields]
    /\ overtaken \subseteq Requests

\* Some incidents have been submitted before, without tags or files.
Init ==
    /\ \E before \in SUBSET Incidents :
          incident = [i \in Incidents |-> [status |-> IF i \in before THEN "stored" ELSE "absent",
                                           state |-> "submitted", assignee |-> None,
                                           linked |-> FALSE]]
    /\ trail = [i \in Incidents |-> <<>>]
    /\ responders = {}
    /\ pc = [r \in Requests |-> "new"]
    /\ call = [r \in Requests |-> None]
    /\ seen = [r \in Requests |-> "submitted"]
    /\ wrote = {}
    /\ around = [i \in Incidents |-> {}]
    /\ overtaken = {}

-----------------------------------------------------------------------------
Stored(i) == incident[i].status = "stored"

\* The calls the routes let through, with one value for what a kind leaves unused.
Calls ==
    {c \in Call :
        /\ c.kind \in {"create", "state", "update"} => \E i \in Incidents : c.targets = {i}
        /\ c.targets # {}
        /\ "state" \notin c.sets => c.state = "submitted"
        /\ "assignee" \notin c.sets => c.assignee = None
        /\ c.kind \in {"create", "delete"} => c.sets = {}
        /\ c.kind = "update" => c.sets # {}
        /\ c.kind = "state" => "state" \in c.sets /\ ("assignee" \in c.sets => c.assignee # None)
        /\ c.kind = "bulk" => \/ c.sets = {"state"}
                              \/ c.sets = {"assignee"} /\ c.assignee # None
        /\ c.notes => c.kind \in {"create", "state"}}

\* transitionRequirements of updateIncidentState.
NeedsNotes(state)      == state \in {"investigating", "resolved"}
NeedsAssignment(state) == state = "investigating"

\* Mutant of MeetsRequirements: an investigation needs no responder.
MeetsRequirementsUnassigned(c) == NeedsNotes(c.state) => c.notes

MeetsRequirements(c) ==
    /\ NeedsNotes(c.state) => c.notes
    /\ NeedsAssignment(c.state) => "assignee" \in c.sets

\* Mutant of ChecksAssignee: the bulk update trusts its input.
ChecksAssigneeNotInBulk(c) == c.kind = "state" /\ "assignee" \in c.sets

\* The two handlers that check the assignee's role do so when one is named.
ChecksAssignee(c) == c.kind \in {"state", "bulk"} /\ "assignee" \in c.sets

Goto(r, next) == pc' = [pc EXCEPT ![r] = next]

\* A row with what call c sets; the notes of a state change become a comment.
Updated(row, c) ==
    [row EXCEPT !.state = IF "state" \in c.sets THEN c.state ELSE @,
                !.assignee = IF "assignee" \in c.sets THEN c.assignee ELSE @,
                !.linked = @ \/ c.notes]

\* Requests that have read a state of one of the incidents I and have yet to write.
Readers(r, I) ==
    {s \in Requests \ {r} : /\ pc[s] \in {"check", "write"} /\ call[s].kind = "state"
                            /\ call[s].targets \cap I # {}}

-----------------------------------------------------------------------------
\* Somebody becomes a responder or an administrator of the event.
Appoint(p) ==
    /\ p \notin responders
    /\ responders' = responders \cup {p}
    /\ UNCHANGED <<incident, trail, requestVars, around, overtaken>>

\* The request comes in and its handler reads the incidents it names.
Begin(r, c) ==
    /\ pc[r] = "new"
    /\ call' = [call EXCEPT ![r] = c]
    /\ IF c.kind = "create" THEN Goto(r, "create")
       ELSE IF \/ \E i \in c.targets : ~Stored(i)
               \/ c.kind = "state" /\ ~MeetsRequirements(c)
            THEN Goto(r, "refused")
            ELSE Goto(r, IF ChecksAssignee(c) THEN "check" ELSE "write")
    /\ IF c.kind = "state"
       THEN \E i \in c.targets : seen' = [seen EXCEPT ![r] = incident[i].state]
       ELSE UNCHANGED seen
    /\ UNCHANGED <<incident, trail, responders, wrote, around, overtaken>>

\* hasEventRole answers from rows that may be out of date, and false on an error:
\* yes only for somebody who has been a responder, no at any time.
CheckAssignee(r) ==
    /\ pc[r] = "check"
    /\ \/ call[r].assignee \in responders /\ Goto(r, "write")
       \/ Goto(r, "refused")
    /\ UNCHANGED <<incident, trail, responders, call, seen, wrote, around, overtaken>>

\* Mutant of WriteState: without the transaction, the audit row may be missing.
WriteStateNoTransaction(r) ==
    /\ pc[r] = "write" /\ call[r].kind = "state"
    /\ \E i \in call[r].targets :
          IF Stored(i)
          THEN /\ incident' = [incident EXCEPT ![i] = Updated(@, call[r])]
               /\ trail' \in {trail, [trail EXCEPT ![i] =
                      Append(@, [from |-> seen[r], to |-> call[r].state])]}
               /\ around' = [around EXCEPT ![i] = @ \ call[r].sets]
               /\ overtaken' = overtaken \cup Readers(r, {i})
               /\ wrote' = wrote \cup {r}
               /\ Goto(r, "done")
          ELSE Goto(r, "failed") /\ UNCHANGED <<incident, trail, around, overtaken, wrote>>
    /\ UNCHANGED <<responders, call, seen>>

\* Mutant of WriteState: the audit row names the states the wrong way round.
WriteStateSwapped(r) ==
    /\ pc[r] = "write" /\ call[r].kind = "state"
    /\ \E i \in call[r].targets :
          IF Stored(i)
          THEN /\ incident' = [incident EXCEPT ![i] = Updated(@, call[r])]
               /\ trail' = [trail EXCEPT ![i] =
                      Append(@, [from |-> call[r].state, to |-> seen[r]])]
               /\ around' = [around EXCEPT ![i] = @ \ call[r].sets]
               /\ overtaken' = overtaken \cup Readers(r, {i})
               /\ wrote' = wrote \cup {r}
               /\ Goto(r, "done")
          ELSE Goto(r, "failed") /\ UNCHANGED <<incident, trail, around, overtaken, wrote>>
    /\ UNCHANGED <<responders, call, seen>>

\* The $transaction of updateIncidentState: the row, its audit row and its comment.
WriteState(r) ==
    /\ pc[r] = "write" /\ call[r].kind = "state"
    /\ \E i \in call[r].targets :
          IF Stored(i)
          THEN /\ incident' = [incident EXCEPT ![i] = Updated(@, call[r])]
               /\ trail' = [trail EXCEPT ![i] =
                      Append(@, [from |-> seen[r], to |-> call[r].state])]
               /\ around' = [around EXCEPT ![i] = @ \ call[r].sets]
               /\ overtaken' = overtaken \cup Readers(r, {i})
               /\ wrote' = wrote \cup {r}
               /\ Goto(r, "done")
          ELSE Goto(r, "failed") /\ UNCHANGED <<incident, trail, around, overtaken, wrote>>
    /\ UNCHANGED <<responders, call, seen>>

\* The one update of updateIncident: whatever it was given, unchecked and unrecorded.
WriteUpdate(r) ==
    /\ pc[r] = "write" /\ call[r].kind = "update"
    /\ \E i \in call[r].targets :
          IF Stored(i)
          THEN /\ incident' = [incident EXCEPT ![i] = Updated(@, call[r])]
               /\ around' = [around EXCEPT ![i] = @ \cup call[r].sets]
               /\ overtaken' = IF "state" \in call[r].sets
                               THEN overtaken \cup Readers(r, {i}) ELSE overtaken
               /\ wrote' = wrote \cup {r}
               /\ Goto(r, "done")
          ELSE Goto(r, "failed") /\ UNCHANGED <<incident, around, overtaken, wrote>>
    /\ UNCHANGED <<trail, responders, call, seen>>

\* updateMany passes over rows that have gone; a status is set unchecked.
WriteBulk(r) ==
    LET hit == {i \in call[r].targets : Stored(i)} IN
    /\ pc[r] = "write" /\ call[r].kind = "bulk"
    /\ incident' = [i \in Incidents |-> IF i \in hit THEN Updated(incident[i], call[r])
                                                     ELSE incident[i]]
    /\ around' = [i \in Incidents |->
                    IF i \notin hit THEN around[i]
                    ELSE IF "state" \in call[r].sets THEN around[i] \cup {"state"}
                    ELSE around[i] \ {"assignee"}]
    /\ overtaken' = IF "state" \in call[r].sets
                    THEN overtaken \cup Readers(r, hit) ELSE overtaken
    /\ wrote' = wrote \cup {r}
    /\ Goto(r, "audit")
    /\ UNCHANGED <<trail, responders, call, seen>>

\* Mutant of DeleteBulk: the foreign keys cascade.
DeleteBulkCascade(r) ==
    LET hit == {i \in call[r].targets : Stored(i)} IN
    /\ pc[r] = "write" /\ call[r].kind = "delete"
    /\ incident' = [i \in Incidents |->
            IF i \in hit THEN [incident[i] EXCEPT !.status = "deleted"] ELSE incident[i]]
    /\ wrote' = wrote \cup {r}
    /\ Goto(r, "audit")
    /\ UNCHANGED <<trail, responders, call, seen, around, overtaken>>

\* deleteMany is refused by the foreign keys of comments, tags and files.
DeleteBulk(r) ==
    LET hit == {i \in call[r].targets : Stored(i)} IN
    /\ pc[r] = "write" /\ call[r].kind = "delete"
    /\ IF \E i \in hit : incident[i].linked
       THEN Goto(r, "failed") /\ UNCHANGED <<incident, wrote>>
       ELSE /\ incident' = [i \in Incidents |->
                    IF i \in hit THEN [incident[i] EXCEPT !.status = "deleted"] ELSE incident[i]]
            /\ wrote' = wrote \cup {r}
            /\ Goto(r, "audit")
    /\ UNCHANGED <<trail, responders, call, seen, around, overtaken>>

\* logAudit, once the transaction of a bulk request is done.
AuditBulk(r) ==
    /\ pc[r] = "audit"
    /\ Goto(r, "done")
    /\ UNCHANGED <<incident, trail, responders, call, seen, wrote, around, overtaken>>

\* incident.create, under an id nobody has used.
CreateRow(r) ==
    /\ pc[r] = "create"
    /\ \E i \in call[r].targets :
          /\ incident[i].status = "absent"
          /\ incident' = [incident EXCEPT ![i] = [@ EXCEPT !.status = "stored"]]
    /\ wrote' = wrote \cup {r}
    /\ Goto(r, IF call[r].notes THEN "link" ELSE "done")
    /\ UNCHANGED <<trail, responders, call, seen, around, overtaken>>

\* Its tags and files, which go in one by one after it.
LinkRow(r) ==
    /\ pc[r] = "link"
    /\ \E i \in call[r].targets :
          IF Stored(i)
          THEN incident' = [incident EXCEPT ![i] = [@ EXCEPT !.linked = TRUE]] /\ Goto(r, "done")
          ELSE Goto(r, "failed") /\ UNCHANGED incident
    /\ UNCHANGED <<trail, responders, call, seen, wrote, around, overtaken>>

\* An awaited call rejects: the handler answers with a failure, nothing is undone.
Reject(r) ==
    /\ pc[r] \in Running
    /\ Goto(r, "failed")
    /\ UNCHANGED <<incident, trail, responders, call, seen, wrote, around, overtaken>>

\* The server process dies.
Crash ==
    /\ \E r \in Requests : pc[r] \in Running
    /\ pc' = [r \in Requests |-> IF pc[r] \in Running THEN "lost" ELSE pc[r]]
    /\ UNCHANGED <<incident, trail, responders, call, seen, wrote, around, overtaken>>

-----------------------------------------------------------------------------
RequestStep(r) ==
    \/ \E c \in Calls : Begin(r, c)
    \/ CheckAssignee(r)
    \/ WriteState(r)
    \/ WriteUpdate(r)
    \/ WriteBulk(r)
    \/ DeleteBulk(r)
    \/ AuditBulk(r)
    \/ CreateRow(r)
    \/ LinkRow(r)
    \/ Reject(r)

Next ==
    \/ \E p \in People : Appoint(p)
    \/ \E r \in Requests : RequestStep(r)
    \/ Crash

Spec == Init /\ [][Next]_vars

-----------------------------------------------------------------------------
(* Properties.                                                             *)

\* The state an incident has according to its history.
HistoryEnd(i) == IF trail[i] = <<>> THEN "submitted" ELSE trail[i][Len(trail[i])].to

(* The state of an incident is the last one its history records, unless it  *)
(* was set around updateIncidentState since: the change and its record are  *)
(* never apart, whatever fails or interleaves.                              *)
HistoryEndsAtState ==
    \A i \in Incidents : "state" \notin around[i] => incident[i].state = HistoryEnd(i)

(* A new history row goes on from where the history ended, unless the state *)
(* was set around the history, or another request changed it between the    *)
(* read and the write of the request that adds the row.                     *)
HistoryBreaksOnlyByRaceOrBypass ==
    [][\A i \in Incidents : trail'[i] # trail[i] =>
          \/ trail'[i][Len(trail'[i])].from = HistoryEnd(i)
          \/ "state" \in around[i]
          \/ \E r \in overtaken : call[r].targets = {i} /\ pc'[r] # pc[r]]_vars

(* An incident under investigation has a responder, unless its state or its *)
(* assignee was set without the check since it was last set with it.        *)
UnassignedOnlyByBypass ==
    \A i \in Incidents :
        incident[i].state = "investigating" /\ incident[i].assignee = None => around[i] # {}

(* Whoever an incident is assigned to has been a responder of the event,    *)
(* unless updateIncident made the assignment.                               *)
AssigneeWasResponder ==
    \A i \in Incidents :
        \/ incident[i].assignee \in responders \cup {None}
        \/ "assignee" \in around[i]

(* An incident that comments, tags or files refer to is never deleted, and  *)
(* none are added to a deleted one: whoever overlaps, evidence stays.       *)
EvidenceKeepsIncident ==
    \A i \in Incidents : incident[i].linked => Stored(i)

(* Claims of the documentation and of messages that the code does not keep. *)

(* "Investigating: must be assigned to a specific responder".               *)
InvestigatingIsAssigned ==
    \A i \in Incidents :
        Stored(i) /\ incident[i].state = "investigating" => incident[i].assignee # None

(* "Failed to submit incident.": a submission that is answered so has not   *)
(* been stored.                                                             *)
FailedSubmissionStoresNothing ==
    \A r \in Requests : pc[r] = "failed" /\ call[r].kind = "create" => r \notin wrote
=============================================================================
