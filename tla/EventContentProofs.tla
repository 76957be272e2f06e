------------------------- MODULE EventContentProofs -------------------------
(***************************************************************************)
(* Proofs about EventContent: types, who changes an event, that applied    *)
(* tags exist, which tags may be twins, what removing one tag leaves, and  *)
(* that an owner keeps a picture.  Everything rests on PathInv: which      *)
(* handlers can await which call.                                          *)
(***************************************************************************)
EXTENDS EventContent, TLAPS

IsKind(r, kind) == arg[r].kind = kind

\* The calls a handler awaits, by the kind of its request; what it found before.
PathOf(r) ==
    /\ pc[r] # "new" => arg[r] \in Call
    /\ pc[r] \in {"checkFree", "insertEvent"} => IsKind(r, "createEvent")
    /\ pc[r] \in {"checkRole", "resolve", "checkNew", "writeEvent"} => IsKind(r, "updateEvent")
    /\ pc[r] \in {"checkNew", "writeEvent"} => target[r] \in Events
    /\ pc[r] \in {"findTwin", "insertTag"} => IsKind(r, "createTag")
    /\ pc[r] = "readTag" => IsKind(r, "renameTag") \/ IsKind(r, "deleteTag")
    /\ pc[r] \in {"findName", "rename"} => IsKind(r, "renameTag")
    /\ pc[r] = "deleteTag" => IsKind(r, "deleteTag")
    /\ pc[r] = "readIncident" => IsKind(r, "removeOne")
    /\ pc[r] = "verify" => IsKind(r, "add") \/ IsKind(r, "replace") \/ IsKind(r, "removeOne")
    /\ pc[r] = "replace" => IsKind(r, "replace") \/ IsKind(r, "removeOne")
    /\ pc[r] = "detach" => IsKind(r, "remove")
    /\ pc[r] \in {"clear", "store"} => IsKind(r, "upload")
    /\ pc[r] = "removePicture" => IsKind(r, "removePicture")

PathInv == \A r \in Requests : PathOf(r)

Step(r) == EventStep(r) \/ TagStep(r) \/ ApplyStep(r) \/ PictureStep(r) \/ Reject(r)

\* What a request is given, by its kind.
LEMMA CallFields ==
    ASSUME NEW call \in Call
    PROVE  /\ call.kind = "createEvent" => call.slug \in Slugs
           /\ call.kind = "updateEvent" =>
                  call.user \in Users /\ call.slug \in Slugs /\ call.newSlug \in Slugs \cup {None}
           /\ call.kind = "createTag" => call.name \in Names
           /\ call.kind = "renameTag" => call.tag \in TagIds /\ call.name \in Names
           /\ call.kind \in {"deleteTag", "removeOne"} => call.tag \in TagIds
           /\ call.kind \in {"add", "remove", "replace"} => call.tags \subseteq TagIds
           /\ call.kind \in {"upload", "removePicture"} => call.owner \in Owners
  BY DEF Call

LEMMA CallKinds ==
    ASSUME NEW call \in Call
    PROVE  call.kind \in {"createEvent", "updateEvent", "createTag", "renameTag", "deleteTag",
                          "removeOne", "add", "remove", "replace", "upload", "removePicture"}
  BY DEF Call

\* A request that has started was given a call.
LEMMA GivenCall ==
    ASSUME PathInv, NEW r \in Requests, pc[r] # "new"
    PROVE  arg[r] \in Call
  BY DEF PathInv, PathOf

-----------------------------------------------------------------------------
(* The way of a request.                                                   *)

\* Where a request starts.
LEMMA StartLeads ==
    ASSUME TypeOK, NEW r \in Requests, NEW call \in Call, Start(r, call)
    PROVE  /\ pc[r] = "new" /\ arg'[r] = call
           /\ pc' = [pc EXCEPT ![r] = FirstStep(call)]
           /\ pc'[r] = FirstStep(call)
           /\ FirstStep(call) \in Running
<1>1. FirstStep(call) \in Running
  BY CallKinds DEF FirstStep, Running
<1> QED
  BY <1>1 DEF Start, Goto, TypeOK

LEMMA StartPath ==
    ASSUME TypeOK, NEW r \in Requests, NEW call \in Call, Start(r, call)
    PROVE  PathOf(r)'
<1>1. arg'[r] = call /\ pc'[r] = FirstStep(call)
  BY StartLeads
<1>2. /\ FirstStep(call) \in {"checkFree", "insertEvent"} => call.kind = "createEvent"
      /\ FirstStep(call) \in {"checkRole", "resolve", "checkNew", "writeEvent"} =>
             call.kind = "updateEvent"
      /\ FirstStep(call) \in {"findTwin", "insertTag"} => call.kind = "createTag"
      /\ FirstStep(call) = "readTag" => call.kind \in {"renameTag", "deleteTag"}
      /\ FirstStep(call) \notin {"checkNew", "writeEvent", "findName", "rename", "deleteTag", "store"}
      /\ FirstStep(call) = "readIncident" => call.kind = "removeOne"
      /\ FirstStep(call) = "verify" => call.kind \in {"add", "replace", "removeOne"}
      /\ FirstStep(call) = "replace" => call.kind \in {"replace", "removeOne"}
      /\ FirstStep(call) = "detach" => call.kind = "remove"
      /\ FirstStep(call) = "clear" => call.kind = "upload"
      /\ FirstStep(call) = "removePicture" => call.kind = "removePicture"
  BY CallKinds DEF FirstStep
<1> QED
  BY <1>1, <1>2 DEF PathOf, IsKind

\* What no step of a request does: change what it was given, or move another.
LEMMA StepMoves ==
    ASSUME TypeOK, NEW r \in Requests, Step(r)
    PROVE  /\ arg' = arg
           /\ \A s \in Requests \ {r} :
                  /\ pc'[s] = pc[s] /\ list'[s] = list[s]
                  /\ target'[s] = target[s] /\ changed'[s] = changed[s]
<1>1. CASE EventStep(r)
  BY <1>1 DEF EventStep, CheckFree, InsertEvent, CheckRole, Resolve, CheckNew, WriteEvent,
              Test, Goto, TypeOK, historyVars
<1>2. CASE TagStep(r)
  BY <1>2 DEF TagStep, FindTwin, InsertTag, ReadTag, FindName, RenameTag, DeleteTag,
              Test, Goto, TypeOK, historyVars
<1>3. CASE ApplyStep(r)
  BY <1>3 DEF ApplyStep, ReadIncident, Verify, Attach, Detach, ReplaceTags,
              Test, Goto, TypeOK, historyVars
<1>4. CASE PictureStep(r) \/ Reject(r)
  BY <1>4 DEF PictureStep, ClearPicture, StorePicture, RemovePicture, Reject, Goto, TypeOK, historyVars
<1> QED
  BY <1>1, <1>2, <1>3, <1>4 DEF Step

\* Where the steps of a request lead.
LEMMA StepPath ==
    ASSUME TypeOK, PathInv, NEW r \in Requests, Step(r)
    PROVE  PathOf(r)' /\ pc' \in [Requests -> {"new"} \cup Running \cup Ended] /\ pc[r] # "new"
<1>1. PathOf(r) /\ arg' = arg
  BY StepMoves DEF PathInv
<1>2. CASE EventStep(r)
  BY <1>1, <1>2 DEF EventStep, CheckFree, InsertEvent, CheckRole, Resolve, CheckNew, WriteEvent,
                    EventsAt, Test, Goto, TypeOK, PathOf, IsKind, Running, Ended
<1>3. CASE TagStep(r)
  BY <1>1, <1>3 DEF TagStep, FindTwin, InsertTag, ReadTag, FindName, RenameTag, DeleteTag,
                    Test, Goto, TypeOK, PathOf, IsKind, Running, Ended
<1>4. CASE ApplyStep(r)
  BY <1>1, <1>4 DEF ApplyStep, ReadIncident, Verify, Attach, Detach, ReplaceTags,
                    Test, Goto, TypeOK, PathOf, IsKind, Running, Ended
<1>5. CASE PictureStep(r)
  BY <1>1, <1>5 DEF PictureStep, ClearPicture, StorePicture, RemovePicture,
                    Goto, TypeOK, PathOf, IsKind, Running, Ended
<1>6. CASE Reject(r)
  BY <1>1, <1>6 DEF Reject, Goto, TypeOK, PathOf, IsKind, Running, Ended
<1> QED
  BY <1>2, <1>3, <1>4, <1>5, <1>6 DEF Step

\* A step is that of one request, or moves none of them on.
LEMMA OneMoves ==
    ASSUME TypeOK, [Next]_vars, NEW s \in Requests
    PROVE  \/ Step(s)
           \/ \E call \in Call : Start(s, call)
           \/ /\ arg'[s] = arg[s] /\ list'[s] = list[s]
              /\ target'[s] = target[s] /\ changed'[s] = changed[s]
              /\ pc'[s] = pc[s] \/ (pc[s] \in Running /\ pc'[s] = "lost")
<1>1. ASSUME NEW r \in Requests, r # s, NEW call \in Call, Start(r, call)
      PROVE  /\ arg'[s] = arg[s] /\ list'[s] = list[s] /\ target'[s] = target[s]
             /\ changed'[s] = changed[s] /\ pc'[s] = pc[s]
  BY <1>1 DEF Start, Goto, TypeOK, historyVars
<1>2. ASSUME NEW r \in Requests, r # s, Step(r)
      PROVE  /\ arg'[s] = arg[s] /\ list'[s] = list[s] /\ target'[s] = target[s]
             /\ changed'[s] = changed[s] /\ pc'[s] = pc[s]
  BY <1>2, StepMoves
<1>3. CASE Crash
  BY <1>3 DEF Crash, TypeOK
<1>4. CASE UNCHANGED vars
  BY <1>4 DEF vars, localVars, historyVars
<1> QED
  BY <1>1, <1>2, <1>3, <1>4 DEF Next, Step

LEMMA NextPath == TypeOK /\ PathInv /\ [Next]_vars => PathInv'
<1> SUFFICES ASSUME TypeOK, PathInv, [Next]_vars, NEW s \in Requests PROVE PathOf(s)'
  BY DEF PathInv
<1>1. CASE Step(s)
  BY <1>1, StepPath
<1>2. CASE \E call \in Call : Start(s, call)
  BY <1>2, StartPath
<1>3. CASE /\ arg'[s] = arg[s] /\ target'[s] = target[s]
           /\ pc'[s] = pc[s] \/ (pc[s] \in Running /\ pc'[s] = "lost")
  BY <1>3 DEF PathInv, PathOf, IsKind, Running
<1> QED
  BY <1>1, <1>2, <1>3, OneMoves

-----------------------------------------------------------------------------
(* Types.                                                                  *)

LEMMA InitType == Init => TypeOK
  BY DEF Init, TypeOK, Exists

LEMMA InitPath == Init => PathInv
  BY DEF Init, PathInv, PathOf

LEMMA StartType ==
    ASSUME TypeOK, NEW r \in Requests, NEW call \in Call, Start(r, call)
    PROVE  TypeOK'
<1>1. pc' \in [Requests -> {"new"} \cup Running \cup Ended]
  BY StartLeads DEF TypeOK
<1>2. call.kind \in {"add", "replace"} => call.tags \subseteq TagIds
  BY CallFields
<1>3. list' \in [Requests -> SUBSET TagIds]
  BY <1>2 DEF Start, TypeOK
<1> QED
  BY <1>1, <1>3 DEF Start, TypeOK, rowVars, historyVars

LEMMA EventType ==
    ASSUME TypeOK, PathInv, NEW r \in Requests, EventStep(r)
    PROVE  TypeOK'
<1>1. pc' \in [Requests -> {"new"} \cup Running \cup Ended] /\ arg' = arg
  BY StepPath, StepMoves DEF Step
<1>2. PathOf(r) /\ (pc[r] # "new" => arg[r] \in Call)
  BY DEF PathInv, PathOf
<1>3. CASE CheckFree(r) \/ CheckNew(r)
  BY <1>1, <1>3 DEF CheckFree, CheckNew, TypeOK, rowVars, historyVars
<1>4. CASE InsertEvent(r)
  <2>1. arg[r].slug \in Slugs
    BY <1>2, <1>4, CallFields DEF InsertEvent, PathOf, IsKind
  <2>2. slug' \in [Events -> Slugs \cup {None}] /\ astray' \subseteq Requests
    BY <1>4, <2>1 DEF InsertEvent, Resolving, TypeOK
  <2> QED
    BY <1>1, <1>4, <2>2 DEF InsertEvent, TypeOK
<1>5. CASE CheckRole(r)
  BY <1>1, <1>5 DEF CheckRole, TypeOK, rowVars
<1>6. CASE Resolve(r)
  BY <1>1, <1>6 DEF Resolve, EventsAt, TypeOK, rowVars, historyVars
<1>7. CASE WriteEvent(r)
  <2>1. arg[r].newSlug \in Slugs \cup {None}
    BY <1>2, <1>7, CallFields DEF WriteEvent, PathOf, IsKind
  <2>2. slug' \in [Events -> Slugs \cup {None}]
    BY <1>7, <2>1 DEF WriteEvent, TypeOK
  <2>3. changed' \in [Requests -> SUBSET Events] /\ astray' \subseteq Requests
    BY <1>2, <1>7 DEF WriteEvent, Resolving, TypeOK, PathOf
  <2> QED
    BY <1>1, <1>7, <2>2, <2>3 DEF WriteEvent, TypeOK
<1> QED
  BY <1>3, <1>4, <1>5, <1>6, <1>7 DEF EventStep

LEMMA TagType ==
    ASSUME TypeOK, PathInv, NEW r \in Requests, TagStep(r)
    PROVE  TypeOK'
<1>1. pc' \in [Requests -> {"new"} \cup Running \cup Ended] /\ arg' = arg
  BY StepPath, StepMoves DEF Step
<1>2. PathOf(r) /\ (pc[r] # "new" => arg[r] \in Call)
  BY DEF PathInv, PathOf
<1>3. CASE FindTwin(r) \/ ReadTag(r) \/ FindName(r)
  BY <1>1, <1>3 DEF FindTwin, ReadTag, FindName, TypeOK, rowVars, historyVars
<1>4. CASE InsertTag(r)
  <2>1. arg[r].name \in Names
    BY <1>2, <1>4, CallFields DEF InsertTag, PathOf, IsKind
  <2> QED
    BY <1>1, <1>4, <2>1 DEF InsertTag, TypeOK
<1>5. CASE RenameTag(r) \/ DeleteTag(r)
  <2>1. arg[r].tag \in TagIds /\ (RenameTag(r) => arg[r].name \in Names)
    BY <1>2, <1>5, CallFields DEF RenameTag, DeleteTag, PathOf, IsKind
  <2> QED
    BY <1>1, <1>5, <2>1 DEF RenameTag, DeleteTag, TypeOK
<1> QED
  BY <1>3, <1>4, <1>5 DEF TagStep

LEMMA ApplyType ==
    ASSUME TypeOK, PathInv, NEW r \in Requests, ApplyStep(r)
    PROVE  TypeOK'
<1>1. pc' \in [Requests -> {"new"} \cup Running \cup Ended] /\ arg' = arg
  BY StepPath, StepMoves DEF Step
<1>2. list[r] \subseteq TagIds /\ applied \subseteq TagIds
  BY DEF TypeOK
<1>3. CASE ReadIncident(r) \/ Verify(r)
  BY <1>1, <1>2, <1>3 DEF ReadIncident, Verify, TypeOK, rowVars, historyVars
<1>4. CASE Attach(r) \/ Detach(r) \/ ReplaceTags(r)
  BY <1>1, <1>2, <1>4 DEF Attach, Detach, ReplaceTags, SetTags, TypeOK
<1> QED
  BY <1>3, <1>4 DEF ApplyStep

LEMMA PictureType ==
    ASSUME TypeOK, PathInv, NEW r \in Requests, PictureStep(r)
    PROVE  TypeOK'
<1>1. pc' \in [Requests -> {"new"} \cup Running \cup Ended] /\ arg' = arg
  BY StepPath, StepMoves DEF Step
<1>2. arg[r].owner \in Owners
  BY CallFields DEF PictureStep, ClearPicture, StorePicture, RemovePicture, PathInv, PathOf, IsKind
<1> QED
  BY <1>1, <1>2 DEF PictureStep, ClearPicture, StorePicture, RemovePicture, TypeOK, historyVars

\* What uploads under way have cleared are pictures of owners.
LEMMA ClearedType ==
    ASSUME PathInv, NEW R \in SUBSET Requests
    PROVE  Cleared(R) \subseteq Owners
  BY CallFields DEF Cleared, PathInv, PathOf, IsKind

LEMMA NextType == TypeOK /\ PathInv /\ [Next]_vars => TypeOK'
<1> SUFFICES ASSUME TypeOK, PathInv, [Next]_vars PROVE TypeOK'
  OBVIOUS
<1>1. ASSUME NEW r \in Requests, Reject(r) PROVE TypeOK'
  <2>1. pc' \in [Requests -> {"new"} \cup Running \cup Ended]
    BY <1>1, StepPath DEF Step
  <2>2. Cleared({r}) \subseteq Owners
    BY ClearedType
  <2> QED
    BY <1>1, <2>1, <2>2 DEF Reject, TypeOK, rowVars
<1>2. CASE Crash
  <2>1. pc' \in [Requests -> {"new"} \cup Running \cup Ended]
    BY <1>2 DEF Crash, TypeOK, Ended
  <2>2. Cleared(Requests) \subseteq Owners
    BY ClearedType
  <2> QED
    BY <1>2, <2>1, <2>2 DEF Crash, TypeOK, rowVars
<1>3. CASE UNCHANGED vars
  BY <1>3 DEF vars, rowVars, localVars, historyVars, TypeOK
<1> QED
  BY <1>1, <1>2, <1>3, StartType, EventType, TagType, ApplyType, PictureType DEF Next

(* The rows of slugs, tags and pictures, and what requests hold, keep their *)
(* types, for any number of events, tags, owners and requests.              *)
THEOREM TypeCorrect == Spec => []TypeOK
<1>1. TypeOK /\ PathInv /\ [Next]_vars => (TypeOK /\ PathInv)'
  BY NextType, NextPath
<1> QED
  BY <1>1, InitType, InitPath, PTL DEF Spec

-----------------------------------------------------------------------------
(* Tags.                                                                   *)

\* Names of tags are written by three handlers, applied tags by three others.
LEMMA TagWriters ==
    ASSUME TypeOK, [Next]_vars
    PROVE  \/ \E r \in Requests : InsertTag(r) \/ RenameTag(r) \/ DeleteTag(r)
           \/ tag' = tag /\ loose' = loose
<1>1. ASSUME NEW r \in Requests, NEW call \in Call, Start(r, call) PROVE tag' = tag /\ loose' = loose
  BY <1>1 DEF Start, rowVars, historyVars
<1>2. ASSUME NEW r \in Requests, EventStep(r) \/ ApplyStep(r) \/ PictureStep(r) \/ Reject(r)
      PROVE  tag' = tag /\ loose' = loose
  BY <1>2 DEF EventStep, CheckFree, InsertEvent, CheckRole, Resolve, CheckNew, WriteEvent,
              ApplyStep, ReadIncident, Verify, Attach, Detach, ReplaceTags,
              PictureStep, ClearPicture, StorePicture, RemovePicture, Reject, rowVars, historyVars
<1>3. ASSUME NEW r \in Requests, FindTwin(r) \/ ReadTag(r) \/ FindName(r)
      PROVE  tag' = tag /\ loose' = loose
  BY <1>3 DEF FindTwin, ReadTag, FindName, rowVars, historyVars
<1>4. CASE Crash \/ UNCHANGED vars
  BY <1>4 DEF Crash, vars, rowVars, historyVars
<1> QED
  BY <1>1, <1>2, <1>3, <1>4 DEF Next, TagStep

LEMMA AppliedWriters ==
    ASSUME TypeOK, [Next]_vars
    PROVE  \/ \E r \in Requests : Attach(r) \/ Detach(r) \/ ReplaceTags(r)
           \/ applied' = applied /\ crossed' = crossed
<1>1. ASSUME NEW r \in Requests, NEW call \in Call, Start(r, call)
      PROVE  applied' = applied /\ crossed' = crossed
  BY <1>1 DEF Start, rowVars, historyVars
<1>2. ASSUME NEW r \in Requests, EventStep(r) \/ TagStep(r) \/ PictureStep(r) \/ Reject(r)
      PROVE  applied' = applied /\ crossed' = crossed
  BY <1>2 DEF EventStep, CheckFree, InsertEvent, CheckRole, Resolve, CheckNew, WriteEvent,
              TagStep, FindTwin, InsertTag, ReadTag, FindName, RenameTag, DeleteTag,
              PictureStep, ClearPicture, StorePicture, RemovePicture, Reject, rowVars, historyVars
<1>3. ASSUME NEW r \in Requests, ReadIncident(r) \/ Verify(r)
      PROVE  applied' = applied /\ crossed' = crossed
  BY <1>3 DEF ReadIncident, Verify, rowVars, historyVars
<1>4. CASE Crash \/ UNCHANGED vars
  BY <1>4 DEF Crash, vars, rowVars, historyVars
<1> QED
  BY <1>1, <1>2, <1>3, <1>4 DEF Next, ApplyStep

\* A tag that is there after a step was there, or is being created.
LEMMA TagsStay ==
    ASSUME TypeOK, PathInv, [Next]_vars, NEW t \in TagIds, Exists(t), t \in applied
    PROVE  Exists(t)'
<1>1. ASSUME NEW r \in Requests, InsertTag(r) \/ RenameTag(r) PROVE Exists(t)'
  <2>1. arg[r].name \in Names /\ arg[r].name # None
    BY <1>1, CallFields, ContentAssumptions DEF InsertTag, RenameTag, PathInv, PathOf, IsKind
  <2> QED
    BY <1>1, <2>1 DEF InsertTag, RenameTag, Exists, TypeOK
<1>2. ASSUME NEW r \in Requests, DeleteTag(r) PROVE Exists(t)'
  BY <1>2 DEF DeleteTag, Exists, TypeOK
<1> QED
  BY <1>1, <1>2, TagWriters DEF Exists

(* Every tag of the incident exists, for any requests and tags: the foreign *)
(* key and the order of the writes leave no applied tag without a row.      *)
THEOREM AppliedTagsExist == Spec => []AppliedExist
<1>1. TypeOK /\ PathInv /\ AppliedExist /\ [Next]_vars => AppliedExist'
  <2> SUFFICES ASSUME TypeOK, PathInv, AppliedExist, [Next]_vars, NEW t \in applied'
               PROVE  Exists(t)'
    BY DEF AppliedExist
  <2>1. CASE t \in applied
    BY <2>1, TagsStay DEF AppliedExist, TypeOK
  <2>2. CASE t \notin applied
    <3>1. PICK r \in Requests : Attach(r) \/ Detach(r) \/ ReplaceTags(r)
      BY <2>2, AppliedWriters
    <3>2. t \in list[r] /\ Exists(t) /\ tag' = tag
      BY <2>2, <3>1 DEF Attach, Detach, ReplaceTags, SetTags
    <3> QED
      BY <3>2 DEF Exists
  <2> QED
    BY <2>1, <2>2
<1>2. Init => AppliedExist
  BY DEF Init, AppliedExist
<1>3. TypeOK /\ PathInv /\ [Next]_vars => (TypeOK /\ PathInv)'
  BY NextType, NextPath
<1> QED
  BY <1>1, <1>2, <1>3, InitType, InitPath, PTL DEF Spec

\* A name about to be inserted has no twin but those created or renamed loosely.
TwinInv ==
    /\ CaseTwinsOnlyLoose
    /\ \A r \in Requests : pc[r] = "insertTag" =>
           \A t \in TagIds : Exists(t) /\ FoldCase[tag[t]] = FoldCase[arg[r].name] => t \in loose

\* A request that comes to insert has just looked, and nothing was written.
LEMMA InsertsAfterLooking ==
    ASSUME TypeOK, PathInv, [Next]_vars, NEW r \in Requests, pc'[r] = "insertTag", pc[r] # "insertTag"
    PROVE  FindTwin(r)
<1>1. CASE Step(r)
  <2>1. ~EventStep(r) /\ ~PictureStep(r) /\ ~ApplyStep(r) /\ ~Reject(r)
    BY DEF EventStep, CheckFree, InsertEvent, CheckRole, Resolve, CheckNew, WriteEvent,
           ApplyStep, ReadIncident, Verify, Attach, Detach, ReplaceTags,
           PictureStep, ClearPicture, StorePicture, RemovePicture, Reject, Test, Goto, TypeOK
  <2> QED
    BY <1>1, <2>1 DEF Step, TagStep, InsertTag, ReadTag, FindName, RenameTag, DeleteTag, Test, Goto, TypeOK
<1>2. CASE \E call \in Call : Start(r, call)
  <2>1. PICK call \in Call : Start(r, call)
    BY <1>2
  <2>2. FirstStep(call) # "insertTag"
    BY CallKinds DEF FirstStep
  <2> QED
    BY <2>1, <2>2, StartLeads
<1> QED
  BY <1>1, <1>2, OneMoves

LEMMA NextTwin == TypeOK /\ PathInv /\ TwinInv /\ [Next]_vars => TwinInv'
<1> SUFFICES ASSUME TypeOK, PathInv, TwinInv, [Next]_vars PROVE TwinInv'
  OBVIOUS
<1>1. ASSUME NEW s \in Requests, pc'[s] = "insertTag", pc[s] = "insertTag" PROVE arg'[s] = arg[s]
  BY <1>1, OneMoves, StepMoves, StartLeads
<1>2. CASE tag' = tag /\ loose' = loose
  <2>1. CaseTwinsOnlyLoose'
    BY <1>2 DEF TwinInv, CaseTwinsOnlyLoose, Twins, Exists
  <2>2. ASSUME NEW s \in Requests, pc'[s] = "insertTag", pc[s] # "insertTag", NEW t \in TagIds
        PROVE  ~(Exists(t)' /\ FoldCase[tag'[t]] = FoldCase[arg'[s].name])
    BY <1>2, <2>2, InsertsAfterLooking DEF FindTwin, Test, Goto, TypeOK, Exists
  <2>3. ASSUME NEW s \in Requests, pc'[s] = "insertTag", pc[s] = "insertTag", NEW t \in TagIds,
               Exists(t)', FoldCase[tag'[t]] = FoldCase[arg'[s].name]
        PROVE  t \in loose'
    BY <1>1, <1>2, <2>3 DEF TwinInv, Exists
  <2> QED
    BY <2>1, <2>2, <2>3 DEF TwinInv
<1>3. ASSUME NEW r \in Requests, InsertTag(r) PROVE TwinInv'
  <2>1. CASE tag' = tag /\ loose' = loose
    BY <1>2, <2>1
  <2>2. CASE ~(tag' = tag /\ loose' = loose)
    <3>1. PICK t \in TagIds :
             /\ ~Exists(t) /\ tag' = [tag EXCEPT ![t] = arg[r].name]
             /\ loose' = IF \E s \in Requests \ {r} : pc[s] = "insertTag" THEN loose \cup {t}
                                                                         ELSE loose \ {t}
             /\ pc' = [pc EXCEPT ![r] = "done"] /\ arg' = arg /\ pc[r] = "insertTag"
      BY <1>3, <2>2 DEF InsertTag, Goto
    <3>2. \A x \in TagIds \ {t} : tag'[x] = tag[x] /\ (x \in loose' <=> x \in loose)
      BY <3>1 DEF TypeOK
    <3>3. tag'[t] = arg[r].name
      BY <3>1 DEF TypeOK
    <3>4. ASSUME NEW x \in TagIds \ {t}, Exists(x), FoldCase[tag[x]] = FoldCase[arg[r].name]
          PROVE  x \in loose'
      BY <3>1, <3>2, <3>4 DEF TwinInv
    <3>5. CaseTwinsOnlyLoose'
      <4> SUFFICES ASSUME NEW a \in TagIds, NEW b \in TagIds, Twins(a, b)', a # b
                   PROVE  a \in loose' \/ b \in loose'
        BY DEF CaseTwinsOnlyLoose
      <4>1. CASE a # t /\ b # t
        BY <3>2, <4>1 DEF TwinInv, CaseTwinsOnlyLoose, Twins, Exists
      <4>2. CASE a = t
        BY <3>2, <3>3, <3>4, <4>2 DEF Twins, Exists
      <4>3. CASE b = t
        BY <3>2, <3>3, <3>4, <4>3 DEF Twins, Exists
      <4> QED
        BY <4>1, <4>2, <4>3
    <3>6. ASSUME NEW s \in Requests, pc'[s] = "insertTag", NEW x \in TagIds, Exists(x)',
                 FoldCase[tag'[x]] = FoldCase[arg'[s].name]
          PROVE  x \in loose'
      <4>1. s # r /\ pc[s] = "insertTag"
        BY <3>1, <3>6 DEF TypeOK
      <4>2. CASE x = t
        BY <3>1, <4>1, <4>2
      <4>3. CASE x # t
        BY <3>1, <3>2, <3>6, <4>1, <4>3 DEF TwinInv, Exists
      <4> QED
        BY <4>2, <4>3
    <3> QED
      BY <3>5, <3>6 DEF TwinInv
  <2> QED
    BY <2>1, <2>2
<1>4. ASSUME NEW r \in Requests, RenameTag(r) \/ DeleteTag(r) PROVE TwinInv'
  <2>1. CASE tag' = tag /\ loose' = loose
    BY <1>2, <2>1
  <2>2. CASE ~(tag' = tag /\ loose' = loose)
    <3>0. PICK t \in TagIds : t = arg[r].tag
      BY <1>4, CallFields DEF RenameTag, DeleteTag, PathInv, PathOf, IsKind
    <3>1. \A x \in TagIds \ {t} : tag'[x] = tag[x] /\ (x \in loose' <=> x \in loose)
      BY <1>4, <2>2, <3>0 DEF RenameTag, DeleteTag, TypeOK
    <3>2. t \in loose' \/ ~Exists(t)'
      BY <1>4, <2>2, <3>0 DEF RenameTag, DeleteTag, Exists, TypeOK
    <3>3. arg' = arg /\ \A s \in Requests : pc'[s] = "insertTag" => pc[s] = "insertTag"
      BY <1>4 DEF RenameTag, DeleteTag, Goto, TypeOK
    <3>4. CaseTwinsOnlyLoose'
      BY <3>1, <3>2 DEF TwinInv, CaseTwinsOnlyLoose, Twins, Exists
    <3>5. ASSUME NEW s \in Requests, pc'[s] = "insertTag", NEW x \in TagIds, Exists(x)',
                 FoldCase[tag'[x]] = FoldCase[arg'[s].name]
          PROVE  x \in loose'
      <4>1. CASE x = t
        BY <3>2, <3>5, <4>1
      <4>2. CASE x # t
        BY <3>1, <3>3, <3>5, <4>2 DEF TwinInv, Exists
      <4> QED
        BY <4>1, <4>2
    <3> QED
      BY <3>4, <3>5 DEF TwinInv
  <2> QED
    BY <2>1, <2>2
<1> QED
  BY <1>2, <1>3, <1>4, TagWriters

(* Tags whose names differ only in case come from a rename, or from two     *)
(* creations that were past their check at once: for any names and foldings.*)
THEOREM TwinsAreLoose == Spec => []CaseTwinsOnlyLoose
<1>1. TypeOK /\ PathInv /\ TwinInv /\ [Next]_vars => (TypeOK /\ PathInv /\ TwinInv)'
  BY NextType, NextPath, NextTwin
<1>2. Init => TwinInv
  BY DEF Init, TwinInv, CaseTwinsOnlyLoose
<1>3. TwinInv => CaseTwinsOnlyLoose
  BY DEF TwinInv
<1> QED
  BY <1>1, <1>2, <1>3, InitType, InitPath, PTL DEF Spec

-----------------------------------------------------------------------------
(* Removing one tag.                                                       *)

\* The list a request will write back is what it read, less the tag it removes.
ListInv ==
    \A r \in Requests :
        /\ pc[r] \in {"verify", "replace"} /\ IsKind(r, "removeOne") /\ r \notin crossed
        => list[r] = applied \ {arg[r].tag}

\* Where a request that removes one tag comes from when it has a list to write.
LEMMA ListKept ==
    ASSUME TypeOK, PathInv, [Next]_vars, NEW r \in Requests,
           pc'[r] \in {"verify", "replace"}, (IsKind(r, "removeOne"))'
    PROVE  \/ ReadIncident(r)
           \/ /\ pc[r] \in {"verify", "replace"}
              /\ list'[r] = list[r] /\ arg'[r] = arg[r]
<1>1. CASE Step(r)
  <2>1. ~EventStep(r) /\ ~PictureStep(r) /\ ~TagStep(r) /\ ~Reject(r)
    BY DEF EventStep, CheckFree, InsertEvent, CheckRole, Resolve, CheckNew, WriteEvent,
           TagStep, FindTwin, InsertTag, ReadTag, FindName, RenameTag, DeleteTag,
           PictureStep, ClearPicture, StorePicture, RemovePicture, Reject, Test, Goto, TypeOK
  <2> QED
    BY <1>1, <2>1 DEF Step, ApplyStep, Verify, Attach, Detach, ReplaceTags, Test, Goto, TypeOK
<1>2. CASE \E call \in Call : Start(r, call)
  <2>1. PICK call \in Call : Start(r, call)
    BY <1>2
  <2>2. call.kind = "removeOne" => FirstStep(call) = "readIncident"
    BY DEF FirstStep
  <2> QED
    BY <2>1, <2>2, StartLeads DEF IsKind
<1> QED
  BY <1>1, <1>2, OneMoves

LEMMA NextList == TypeOK /\ PathInv /\ ListInv /\ [Next]_vars => ListInv'
<1> SUFFICES ASSUME TypeOK, PathInv, ListInv, [Next]_vars, NEW r \in Requests,
                    pc'[r] \in {"verify", "replace"}, (IsKind(r, "removeOne"))', r \notin crossed'
             PROVE  list'[r] = applied' \ {arg'[r].tag}
  BY DEF ListInv
<1>1. CASE ReadIncident(r)
  BY <1>1 DEF ReadIncident, rowVars, TypeOK
<1>2. CASE pc[r] \in {"verify", "replace"} /\ list'[r] = list[r] /\ arg'[r] = arg[r]
  <2>1. IsKind(r, "removeOne")
    BY <1>2 DEF IsKind
  <2>2. CASE applied' = applied /\ crossed' = crossed
    BY <1>2, <2>1, <2>2 DEF ListInv
  <2>3. ASSUME NEW s \in Requests, Attach(s) \/ Detach(s) \/ ReplaceTags(s)
        PROVE  applied' = applied /\ r \notin crossed
    <3>1. s # r
      BY <1>2, <2>3 DEF Attach, Detach, ReplaceTags, Goto, TypeOK
    <3> QED
      BY <1>2, <2>3, <3>1 DEF Attach, Detach, ReplaceTags, SetTags
  <2> QED
    BY <1>2, <2>1, <2>2, <2>3, AppliedWriters DEF ListInv
<1> QED
  BY <1>1, <1>2, ListKept

(* The request that removes one tag writes back what it read without it:    *)
(* other tags go or come only if they did after the list was read.          *)
THEOREM RemovalTakesOne == Spec => RemovesOneTag
<1>1. TypeOK /\ PathInv /\ ListInv /\ [Next]_vars => (TypeOK /\ PathInv /\ ListInv)'
  BY NextType, NextPath, NextList
<1>2. Init => ListInv
  BY DEF Init, ListInv
<1>3. TypeOK /\ PathInv /\ ListInv /\ [Next]_vars =>
        [\A r \in Requests :
          /\ pc[r] = "replace" /\ pc'[r] # "replace" /\ applied' # applied
          /\ arg[r].kind = "removeOne" /\ r \notin crossed
          => applied' = applied \ {arg[r].tag}]_vars
  <2> SUFFICES ASSUME TypeOK, PathInv, ListInv, [Next]_vars, NEW r \in Requests,
                      pc[r] = "replace", pc'[r] # "replace", applied' # applied,
                      arg[r].kind = "removeOne", r \notin crossed
               PROVE  applied' = applied \ {arg[r].tag}
    OBVIOUS
  <2>1. PICK s \in Requests : Attach(s) \/ Detach(s) \/ ReplaceTags(s)
    BY AppliedWriters
  <2>2. s = r
    BY <2>1 DEF Attach, Detach, ReplaceTags, Goto, TypeOK
  <2>3. applied' = list[r]
    BY <2>1, <2>2 DEF Attach, Detach, ReplaceTags, SetTags
  <2> QED
    BY <2>3 DEF ListInv, IsKind
<1> QED
  BY <1>1, <1>2, <1>3, InitType, InitPath, PTL DEF Spec, RemovesOneTag

-----------------------------------------------------------------------------
(* Pictures.                                                               *)

LEMMA PictureWriters ==
    ASSUME TypeOK, [Next]_vars
    PROVE  \/ \E r \in Requests : PictureStep(r) \/ Reject(r)
           \/ Crash
           \/ /\ picture' = picture /\ bare' = bare
              /\ \A r \in Requests : pc[r] = "store" => pc'[r] = "store" /\ arg'[r] = arg[r]
<1>1. ASSUME NEW r \in Requests, NEW call \in Call, Start(r, call)
      PROVE  /\ picture' = picture /\ bare' = bare
             /\ \A s \in Requests : pc[s] = "store" => pc'[s] = "store" /\ arg'[s] = arg[s]
  BY <1>1 DEF Start, Goto, TypeOK, rowVars, historyVars
<1>2. ASSUME NEW r \in Requests, EventStep(r) \/ TagStep(r) \/ ApplyStep(r)
      PROVE  /\ picture' = picture /\ bare' = bare
             /\ \A s \in Requests : pc[s] = "store" => pc'[s] = "store" /\ arg'[s] = arg[s]
  <2>1. picture' = picture /\ bare' = bare /\ pc[r] # "store"
    BY <1>2 DEF EventStep, CheckFree, InsertEvent, CheckRole, Resolve, CheckNew, WriteEvent,
                TagStep, FindTwin, InsertTag, ReadTag, FindName, RenameTag, DeleteTag,
                ApplyStep, ReadIncident, Verify, Attach, Detach, ReplaceTags,
                Test, rowVars, historyVars
  <2> QED
    BY <1>2, <2>1, StepMoves DEF Step
<1>3. CASE UNCHANGED vars
  BY <1>3 DEF vars, rowVars, localVars, historyVars
<1> QED
  BY <1>1, <1>2, <1>3 DEF Next

(* An owner is without a picture only while an upload is between deleting   *)
(* and storing, or after a removal or an upload cut short in between: for   *)
(* any number of uploads at once.                                           *)
THEOREM PicturesKept == Spec => []PictureKept
<1>1. TypeOK /\ PathInv /\ PictureKept /\ [Next]_vars => PictureKept'
  <2> SUFFICES ASSUME TypeOK, PathInv, PictureKept, [Next]_vars, NEW o \in Owners, picture'[o] = None
               PROVE  o \in bare' \cup Cleared(Requests)'
    BY DEF PictureKept
  <2>1. ASSUME NEW r \in Requests, ClearPicture(r)
        PROVE  o \in bare' \cup Cleared(Requests)'
    <3>1. arg' = arg /\ bare' = bare /\ pc' = [pc EXCEPT ![r] = "store"] /\ pc[r] = "clear"
      BY <2>1 DEF ClearPicture, Goto, historyVars
    <3>2. CASE o = arg[r].owner
      BY <3>1, <3>2 DEF Cleared, TypeOK
    <3>3. CASE o # arg[r].owner
      <4>1. picture[o] = None
        BY <2>1, <3>3 DEF ClearPicture, TypeOK
      <4> QED
        BY <3>1, <4>1 DEF PictureKept, Cleared, TypeOK
    <3> QED
      BY <3>2, <3>3
  <2>2. ASSUME NEW r \in Requests, StorePicture(r)
        PROVE  o \in bare' \cup Cleared(Requests)'
    <3>1. arg' = arg /\ bare' = bare /\ \A s \in Requests \ {r} : pc'[s] = pc[s]
      BY <2>2 DEF StorePicture, Goto, TypeOK, historyVars
    <3>2. picture[o] = None /\ o # arg[r].owner
      BY <2>2, ContentAssumptions DEF StorePicture, TypeOK
    <3> QED
      BY <3>1, <3>2 DEF PictureKept, Cleared
  <2>3. ASSUME NEW r \in Requests, RemovePicture(r)
        PROVE  o \in bare' \cup Cleared(Requests)'
    <3>1. /\ arg' = arg /\ bare' = bare \cup {arg[r].owner}
          /\ \A s \in Requests : pc[s] = "store" => pc'[s] = "store"
      BY <2>3 DEF RemovePicture, Goto, TypeOK
    <3>2. o = arg[r].owner \/ picture[o] = None
      BY <2>3 DEF RemovePicture, TypeOK
    <3> QED
      BY <3>1, <3>2 DEF PictureKept, Cleared
  <2>4. ASSUME NEW r \in Requests, Reject(r)
        PROVE  o \in bare' \cup Cleared(Requests)'
    <3>1. /\ arg' = arg /\ bare' = bare \cup Cleared({r}) /\ picture' = picture
          /\ \A s \in Requests \ {r} : pc'[s] = pc[s]
      BY <2>4 DEF Reject, Goto, TypeOK, rowVars
    <3>2. Cleared(Requests) \subseteq Cleared({r}) \cup Cleared(Requests)'
      BY <3>1 DEF Cleared
    <3> QED
      BY <3>1, <3>2 DEF PictureKept
  <2>5. CASE Crash
    BY <2>5 DEF Crash, PictureKept, rowVars
  <2>6. CASE /\ picture' = picture /\ bare' = bare
             /\ \A r \in Requests : pc[r] = "store" => pc'[r] = "store" /\ arg'[r] = arg[r]
    BY <2>6 DEF PictureKept, Cleared
  <2> QED
    BY <2>1, <2>2, <2>3, <2>4, <2>5, <2>6, PictureWriters DEF PictureStep
<1>2. Init => PictureKept
  BY ContentAssumptions DEF Init, PictureKept
<1>3. TypeOK /\ PathInv /\ [Next]_vars => (TypeOK /\ PathInv)'
  BY NextType, NextPath
<1> QED
  BY <1>1, <1>2, <1>3, InitType, InitPath, PTL DEF Spec

-----------------------------------------------------------------------------
(* Who changes an event.                                                   *)

\* What the role check of a request found still holds when its handler looks.
AdminInv ==
    \A r \in Requests :
        /\ pc[r] \in {"new", "checkRole"} => changed[r] = {}
        /\ pc[r] = "resolve" /\ r \notin astray =>
               changed[r] = {} /\ EventsAt(arg[r].slug) \subseteq AdminOf[arg[r].user]
        /\ pc[r] \in {"checkNew", "writeEvent"} /\ r \notin astray =>
               changed[r] = {} /\ target[r] \in AdminOf[arg[r].user]
        /\ changed[r] # {} /\ r \notin astray => changed[r] \subseteq AdminOf[arg[r].user]

LEMMA AstrayGrows == ASSUME TypeOK, [Next]_vars PROVE astray \subseteq astray'
<1>1. ASSUME NEW r \in Requests, NEW call \in Call, Start(r, call) PROVE astray \subseteq astray'
  BY <1>1 DEF Start, historyVars
<1>2. ASSUME NEW r \in Requests, Step(r) PROVE astray \subseteq astray'
  BY <1>2 DEF Step, EventStep, CheckFree, InsertEvent, CheckRole, Resolve, CheckNew, WriteEvent,
              TagStep, FindTwin, InsertTag, ReadTag, FindName, RenameTag, DeleteTag,
              ApplyStep, ReadIncident, Verify, Attach, Detach, ReplaceTags,
              PictureStep, ClearPicture, StorePicture, RemovePicture, Reject, historyVars
<1>3. CASE Crash \/ UNCHANGED vars
  BY <1>3 DEF Crash, vars, historyVars
<1> QED
  BY <1>1, <1>2, <1>3 DEF Next, Step

\* Slugs are written by two handlers.
LEMMA SlugWriters ==
    ASSUME TypeOK, [Next]_vars
    PROVE  slug' = slug \/ \E r \in Requests : InsertEvent(r) \/ WriteEvent(r)
<1>1. ASSUME NEW r \in Requests, NEW call \in Call, Start(r, call) PROVE slug' = slug
  BY <1>1 DEF Start, rowVars
<1>2. ASSUME NEW r \in Requests, TagStep(r) \/ ApplyStep(r) \/ PictureStep(r) \/ Reject(r)
      PROVE  slug' = slug
  BY <1>2 DEF TagStep, FindTwin, InsertTag, ReadTag, FindName, RenameTag, DeleteTag,
              ApplyStep, ReadIncident, Verify, Attach, Detach, ReplaceTags,
              PictureStep, ClearPicture, StorePicture, RemovePicture, Reject, rowVars
<1>3. ASSUME NEW r \in Requests, CheckFree(r) \/ CheckRole(r) \/ Resolve(r) \/ CheckNew(r)
      PROVE  slug' = slug
  BY <1>3 DEF CheckFree, CheckRole, Resolve, CheckNew, rowVars
<1>4. CASE Crash \/ UNCHANGED vars
  BY <1>4 DEF Crash, vars, rowVars
<1> QED
  BY <1>1, <1>2, <1>3, <1>4 DEF Next, EventStep

\* The events at a slug that a request has checked stay, or it is astray.
LEMMA CheckedStays ==
    ASSUME TypeOK, PathInv, [Next]_vars, NEW s \in Requests,
           pc[s] = "resolve", pc'[s] = "resolve", s \notin astray'
    PROVE  \A e \in Events : slug'[e] = arg[s].slug => slug[e] = arg[s].slug
<1>1. ASSUME NEW r \in Requests, InsertEvent(r)
      PROVE  \A e \in Events : slug'[e] = arg[s].slug => slug[e] = arg[s].slug
  BY <1>1 DEF InsertEvent, Resolving, TypeOK
<1>2. ASSUME NEW r \in Requests, WriteEvent(r)
      PROVE  \A e \in Events : slug'[e] = arg[s].slug => slug[e] = arg[s].slug
  BY <1>2 DEF WriteEvent, Resolving, TypeOK
<1> QED
  BY <1>1, <1>2, SlugWriters

LEMMA StepLeaves ==
    ASSUME TypeOK, NEW r \in Requests, Step(r)
    PROVE  pc'[r] # "new" /\ pc'[r] # "checkRole"
  BY DEF Step, EventStep, CheckFree, InsertEvent, CheckRole, Resolve, CheckNew, WriteEvent,
         TagStep, FindTwin, InsertTag, ReadTag, FindName, RenameTag, DeleteTag,
         ApplyStep, ReadIncident, Verify, Attach, Detach, ReplaceTags,
         PictureStep, ClearPicture, StorePicture, RemovePicture, Reject, Test, Goto, TypeOK

\* What a step of a request makes of what it checked and resolved.
LEMMA StepAdmin ==
    ASSUME TypeOK, PathInv, AdminInv, NEW r \in Requests, Step(r), r \notin astray', r \notin astray
    PROVE  /\ pc'[r] = "resolve" =>
                  changed'[r] = {} /\ EventsAt(arg[r].slug)' \subseteq AdminOf[arg'[r].user]
           /\ pc'[r] \in {"checkNew", "writeEvent"} =>
                  changed'[r] = {} /\ target'[r] \in AdminOf[arg'[r].user]
           /\ changed'[r] # {} => changed'[r] \subseteq AdminOf[arg'[r].user]
<1>1. arg' = arg
  BY StepMoves
<1>2. CASE CheckFree(r) \/ InsertEvent(r)
  BY <1>1, <1>2 DEF CheckFree, InsertEvent, Test, Goto, TypeOK, AdminInv, historyVars
<1>3. CASE CheckRole(r)
  BY <1>1, <1>3 DEF CheckRole, EventsAt, Goto, TypeOK, AdminInv, rowVars
<1>4. CASE Resolve(r)
  <2>1. /\ pc[r] = "resolve" /\ changed' = changed /\ changed[r] = {}
        /\ EventsAt(arg[r].slug) \subseteq AdminOf[arg[r].user]
    BY <1>4 DEF Resolve, AdminInv, historyVars
  <2>2. /\ pc'[r] \in {"refused", "checkNew", "writeEvent"}
        /\ pc'[r] # "refused" => target'[r] \in EventsAt(arg[r].slug)
    <3>1. CASE Goto(r, "refused")
      BY <3>1 DEF Goto, TypeOK
    <3>2. CASE ~Goto(r, "refused")
      BY <1>4, <3>2 DEF Resolve, Goto, EventsAt, TypeOK
    <3> QED
      BY <3>1, <3>2
  <2> QED
    BY <1>1, <2>1, <2>2
<1>5. CASE CheckNew(r)
  BY <1>1, <1>5 DEF CheckNew, Test, Goto, TypeOK, AdminInv, historyVars
<1>6. CASE WriteEvent(r)
  BY <1>1, <1>6 DEF WriteEvent, Goto, TypeOK, AdminInv
<1>7. CASE TagStep(r)
  BY <1>1, <1>7 DEF TagStep, FindTwin, InsertTag, ReadTag, FindName, RenameTag, DeleteTag,
                    Test, Goto, TypeOK, AdminInv, historyVars
<1>8. CASE ApplyStep(r)
  BY <1>1, <1>8 DEF ApplyStep, ReadIncident, Verify, Attach, Detach, ReplaceTags,
                    Test, Goto, TypeOK, AdminInv, historyVars
<1>9. CASE PictureStep(r) \/ Reject(r)
  BY <1>1, <1>9 DEF PictureStep, ClearPicture, StorePicture, RemovePicture, Reject,
                    Goto, TypeOK, AdminInv, historyVars
<1> QED
  BY <1>2, <1>3, <1>4, <1>6, <1>7, <1>8, <1>9, <1>5 DEF Step, EventStep

LEMMA NextAdmin == TypeOK /\ PathInv /\ AdminInv /\ [Next]_vars => AdminInv'
<1> SUFFICES ASSUME TypeOK, PathInv, AdminInv, [Next]_vars, NEW s \in Requests
             PROVE  /\ pc'[s] \in {"new", "checkRole"} => changed'[s] = {}
                    /\ pc'[s] = "resolve" /\ s \notin astray' =>
                           changed'[s] = {} /\ EventsAt(arg[s].slug)' \subseteq AdminOf[arg'[s].user]
                    /\ pc'[s] \in {"checkNew", "writeEvent"} /\ s \notin astray' =>
                           changed'[s] = {} /\ target'[s] \in AdminOf[arg'[s].user]
                    /\ changed'[s] # {} /\ s \notin astray' => changed'[s] \subseteq AdminOf[arg'[s].user]
  BY DEF AdminInv
<1>1. CASE Step(s)
  BY <1>1, StepAdmin, StepLeaves, AstrayGrows
<1>2. CASE \E call \in Call : Start(s, call)
  <2>1. PICK call \in Call : Start(s, call)
    BY <1>2
  <2>2. FirstStep(call) \notin {"resolve", "checkNew", "writeEvent"}
    BY CallKinds DEF FirstStep
  <2>3. changed'[s] = {}
    BY <2>1 DEF Start, AdminInv, historyVars
  <2> QED
    BY <2>1, <2>2, <2>3, StartLeads
<1>3. CASE /\ arg'[s] = arg[s] /\ target'[s] = target[s] /\ changed'[s] = changed[s]
           /\ pc'[s] = pc[s] \/ (pc[s] \in Running /\ pc'[s] = "lost")
  <2>1. pc'[s] = "resolve" /\ s \notin astray' =>
            EventsAt(arg[s].slug)' \subseteq AdminOf[arg'[s].user] /\ changed[s] = {}
    BY <1>3, CheckedStays, AstrayGrows DEF EventsAt, AdminInv
  <2> QED
    BY <1>3, <2>1, AstrayGrows DEF AdminInv
<1> QED
  BY <1>1, <1>2, <1>3, OneMoves

(* Only its administrators change an event through its slug, unless the     *)
(* slug moved, or the lookup failed, while the request was being checked:   *)
(* for any users, events and slugs.                                         *)
THEOREM AdminsChange == Spec => []ChangedByItsAdmins
<1>1. TypeOK /\ PathInv /\ AdminInv /\ [Next]_vars => (TypeOK /\ PathInv /\ AdminInv)'
  BY NextType, NextPath, NextAdmin
<1>2. Init => AdminInv
  BY DEF Init, AdminInv
<1>3. AdminInv => ChangedByItsAdmins
  BY DEF AdminInv, ChangedByItsAdmins
<1> QED
  BY <1>1, <1>2, <1>3, InitType, InitPath, PTL DEF Spec
=============================================================================
