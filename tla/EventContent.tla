---------------------------- MODULE EventContent ----------------------------
(***************************************************************************)
(* What administrators and responders edit around incidents: the slugs     *)
(* events are reached by (utils/rbac.ts, services/event.service.ts), the   *)
(* tags of an event and of one of its incidents (services/tag.service.ts,  *)
(* updateIncidentTags of services/incident.service.ts), and the pictures   *)
(* stored one per owner (event and organization logos, avatars).           *)
(*                                                                         *)
(* A step of a request is one awaited database call with the code that     *)
(* follows it.  The role check of PATCH /events/slug/:slug is modelled,    *)
(* because what it finds is looked up again by the handler; the other      *)
(* requests are those their role check let through.                        *)
(***************************************************************************)
EXTENDS FiniteSets

CONSTANTS Requests,  \* HTTP requests, each runs once
          Users,
          Events,
          Slugs,
          AdminOf,   \* the events each user administers
          TagIds,    \* tags of one event, to be used on one incident of it
          Names,     \* tag names
          FoldCase,  \* a name without its case
          Owners,    \* events, organizations and users that may have a picture
          None       \* no row, no value

ASSUME ContentAssumptions ==
    /\ AdminOf \in [Users -> SUBSET Events]
    /\ DOMAIN FoldCase = Names
    /\ None \notin Events \cup Slugs \cup Names \cup Requests \cup {"old"}

Call == [kind : {"createEvent"}, slug : Slugs]
        \cup [kind : {"updateEvent"}, user : Users, slug : Slugs, newSlug : Slugs \cup {None}]
        \cup [kind : {"createTag"}, name : Names]
        \cup [kind : {"renameTag"}, tag : TagIds, name : Names]
        \cup [kind : {"deleteTag", "removeOne"}, tag : TagIds]
        \cup [kind : {"add", "remove", "replace"}, tags : SUBSET TagIds]
        \cup [kind : {"upload", "removePicture"}, owner : Owners]

VARIABLES slug,     \* Event rows: the slug of each event there is
          tag,      \* Tag rows: the name of each tag there is
          applied,  \* IncidentTag rows of the incident
          picture,  \* EventLogo, OrganizationLogo and UserAvatar rows: who stored them
          pc,       \* what each request awaits, or how it ended
          arg,      \* what a request was given
          target,   \* the event its handler resolved
          list,     \* the tags it is about to write
          changed,  \* history: the events it changed
          astray,   \* history: requests whose slug was not, or no longer, what was checked
          crossed,  \* history: requests whose incident got other tags after they read it
          loose,    \* history: tags renamed, or created while a namesake was being created
          bare      \* history: owners whose picture was removed, or not stored after all

rowVars     == <<slug, tag, applied, picture>>
localVars   == <<pc, arg, target, list>>
historyVars == <<changed, astray, crossed, loose, bare>>
vars == <<rowVars, localVars, historyVars>>

Running == {"checkFree", "insertEvent", "checkRole", "resolve", "checkNew", "writeEvent",
            "findTwin", "insertTag", "readTag", "findName", "rename", "deleteTag",
            "readIncident", "verify", "attach", "detach", "replace",
            "clear", "store", "removePicture"}
Ended   == {"done", "refused", "failed", "lost"}

TypeOK ==
    /\ slug \in [Events -> Slugs \cup {None}]
    /\ tag \in [TagIds -> Names \cup {None}]
    /\ applied \subseteq TagIds
    /\ picture \in [Owners -> Requests \cup {"old", None}]
    /\ pc \in [Requests -> {"new"} \cup Running \cup Ended]
    /\ arg \in [Requests -> Call \cup {None}]
    /\ target \in [Requests -> Events \cup {None}]
    /\ list \in [Requests -> SUBSET TagIds]
    /\ changed \in [Requests -> SUBSET Events]
    /\ astray \subseteq Requests /\ crossed \subseteq Requests
    /\ loose \subseteq TagIds /\ bare \subseteq Owners

Exists(t)  == tag[t] # None
Twins(a, b) == Exists(a) /\ Exists(b) /\ FoldCase[tag[a]] = FoldCase[tag[b]]

\* The database as earlier requests left it; every owner has a picture.
Init ==
    /\ slug \in [Events -> Slugs \cup {None}]
    /\ \A e, f \in Events : slug[e] = slug[f] /\ slug[e] # None => e = f
    /\ tag \in [TagIds -> Names \cup {None}]
    /\ \A a, b \in TagIds : Twins(a, b) => a = b
    /\ applied \in SUBSET {t \in TagIds : Exists(t)}
    /\ picture = [o \in Owners |-> "old"]
    /\ pc = [r \in Requests |-> "new"]
    /\ arg = [r \in Requests |-> None]
    /\ target = [r \in Requests |-> None]
    /\ list = [r \in Requests |-> {}]
    /\ changed = [r \in Requests |-> {}]
    /\ astray = {} /\ crossed = {} /\ loose = {} /\ bare = {}

-----------------------------------------------------------------------------
Goto(r, next) == pc' = [pc EXCEPT ![r] = next]

\* The request reads at step s and goes on, or is refused.
Test(r, s, holds, next) ==
    /\ pc[r] = s
    /\ Goto(r, IF holds THEN next ELSE "refused")

FirstStep(call) ==
    CASE call.kind = "createEvent"              -> "checkFree"
      [] call.kind = "updateEvent"              -> "checkRole"
      [] call.kind = "createTag"                -> "findTwin"
      [] call.kind \in {"renameTag", "deleteTag"} -> "readTag"
      [] call.kind = "removeOne"                -> "readIncident"
      [] call.kind = "remove"                   -> "detach"
      [] call.kind = "add"                      -> "verify"
      [] call.kind = "replace"                  -> IF call.tags = {} THEN "replace" ELSE "verify"
      [] call.kind = "upload"                   -> "clear"
      [] OTHER                                  -> "removePicture"

\* The routes refuse an empty list of tags to add or to remove.
Start(r, call) ==
    /\ pc[r] = "new"
    /\ call.kind \in {"add", "remove"} => call.tags # {}
    /\ arg' = [arg EXCEPT ![r] = call]
    /\ list' = [list EXCEPT ![r] = IF call.kind \in {"add", "replace"} THEN call.tags ELSE {}]
    /\ Goto(r, FirstStep(call))
    /\ UNCHANGED <<rowVars, target, historyVars>>

-----------------------------------------------------------------------------
(* Events and their slugs.                                                 *)

EventsAt(s) == {e \in Events : slug[e] = s}

\* createEvent looks the slug up, then relies on the unique index.
CheckFree(r) ==
    /\ Test(r, "checkFree", EventsAt(arg[r].slug) = {}, "insertEvent")
    /\ UNCHANGED <<rowVars, arg, target, list, historyVars>>

\* Requests between their role check and the lookup of their handler.
Resolving == {s \in Requests : pc[s] = "resolve"}

InsertEvent(r) ==
    /\ pc[r] = "insertEvent"
    /\ IF EventsAt(arg[r].slug) = {}
       THEN \E e \in EventsAt(None) :
                /\ slug' = [slug EXCEPT ![e] = arg[r].slug]
                /\ astray' = astray \cup {s \in Resolving : arg[s].slug = arg[r].slug}
                /\ Goto(r, "done") \/ Goto(r, "failed")
       ELSE Goto(r, "failed") /\ UNCHANGED <<slug, astray>>
    /\ UNCHANGED <<tag, applied, picture, arg, target, list, changed, crossed, loose, bare>>

\* requireRole finds the event of the slug and asks for a role on it.  When it
\* finds none, or its lookup fails, a role on any event is enough.
CheckRole(r) ==
    LET u == arg[r].user IN
    /\ pc[r] = "checkRole"
    /\ \/ /\ EventsAt(arg[r].slug) # {}
          /\ Goto(r, IF EventsAt(arg[r].slug) \subseteq AdminOf[u] THEN "resolve" ELSE "refused")
          /\ UNCHANGED astray
       \/ /\ EventsAt(arg[r].slug) = {}
          /\ Goto(r, IF AdminOf[u] # {} THEN "resolve" ELSE "refused")
          /\ UNCHANGED astray
       \/ /\ Goto(r, IF AdminOf[u] # {} THEN "resolve" ELSE "refused")
          /\ astray' = astray \cup {r}
    /\ UNCHANGED <<rowVars, arg, target, list, changed, crossed, loose, bare>>

\* Mutant of Resolve: the slug asked for is looked up, not the one addressed.
ResolveNew(r) ==
    LET wanted == IF arg[r].newSlug = None THEN arg[r].slug ELSE arg[r].newSlug IN
    /\ pc[r] = "resolve"
    /\ \/ /\ EventsAt(wanted) = {}
          /\ Goto(r, "refused") /\ UNCHANGED target
       \/ \E e \in EventsAt(wanted) :
             /\ target' = [target EXCEPT ![r] = e]
             /\ Goto(r, "writeEvent")
    /\ UNCHANGED <<rowVars, arg, list, historyVars>>

\* updateEvent looks the slug up again; a lookup that fails finds nothing.
Resolve(r) ==
    /\ pc[r] = "resolve"
    /\ \/ Goto(r, "refused") /\ UNCHANGED target
       \/ \E e \in EventsAt(arg[r].slug) :
             /\ target' = [target EXCEPT ![r] = e]
             /\ Goto(r, IF arg[r].newSlug \in {None, arg[r].slug} THEN "writeEvent" ELSE "checkNew")
    /\ UNCHANGED <<rowVars, arg, list, historyVars>>

CheckNew(r) ==
    /\ Test(r, "checkNew", EventsAt(arg[r].newSlug) = {}, "writeEvent")
    /\ UNCHANGED <<rowVars, arg, target, list, historyVars>>

\* The row is updated by its id; the unique index refuses a slug in use.  A
\* slug that moves here is not the one other requests had checked.
WriteEvent(r) ==
    LET e   == target[r]
        new == IF arg[r].newSlug = None THEN slug[e] ELSE arg[r].newSlug
    IN
    /\ pc[r] = "writeEvent"
    /\ IF EventsAt(new) \subseteq {e}
       THEN /\ slug' = [slug EXCEPT ![e] = new]
            /\ changed' = [changed EXCEPT ![r] = @ \cup {e}]
            /\ astray' = astray \cup {s \in Resolving : new # slug[e] /\ arg[s].slug \in {new, slug[e]}}
            /\ Goto(r, "done") \/ Goto(r, "failed")
       ELSE Goto(r, "failed") /\ UNCHANGED <<slug, changed, astray>>
    /\ UNCHANGED <<tag, applied, picture, arg, target, list, crossed, loose, bare>>

-----------------------------------------------------------------------------
(* Tags.                                                                   *)

\* Mutant of FindTwin: names are compared with their case.
FindTwinExact(r) ==
    /\ Test(r, "findTwin", \A t \in TagIds : tag[t] # arg[r].name, "insertTag")
    /\ UNCHANGED <<rowVars, arg, target, list, historyVars>>

\* createTag looks for the name in any case.
FindTwin(r) ==
    /\ Test(r, "findTwin",
            \A t \in TagIds : Exists(t) => FoldCase[tag[t]] # FoldCase[arg[r].name], "insertTag")
    /\ UNCHANGED <<rowVars, arg, target, list, historyVars>>

NameFree(name, t) == \A x \in TagIds \ {t} : tag[x] # name

\* The unique index compares names with their case.
InsertTag(r) ==
    /\ pc[r] = "insertTag"
    /\ \/ \E t \in TagIds :
             /\ ~Exists(t) /\ NameFree(arg[r].name, t)
             /\ tag' = [tag EXCEPT ![t] = arg[r].name]
             /\ loose' = IF \E s \in Requests \ {r} : pc[s] = "insertTag" THEN loose \cup {t}
                                                                       ELSE loose \ {t}
             /\ Goto(r, "done")
       \/ /\ \E t \in TagIds : tag[t] = arg[r].name
          /\ Goto(r, "failed") /\ UNCHANGED <<tag, loose>>
    /\ UNCHANGED <<slug, applied, picture, arg, target, list, changed, astray, crossed, bare>>

\* updateTag and deleteTag read the tag; a tag in use is not deleted.
ReadTag(r) ==
    LET t == arg[r].tag IN
    /\ Test(r, "readTag", Exists(t) /\ (arg[r].kind = "deleteTag" => t \notin applied),
            IF arg[r].kind = "deleteTag" THEN "deleteTag" ELSE "findName")
    /\ UNCHANGED <<rowVars, arg, target, list, historyVars>>

\* updateTag looks for the same name, with its case.
FindName(r) ==
    /\ Test(r, "findName", NameFree(arg[r].name, arg[r].tag), "rename")
    /\ UNCHANGED <<rowVars, arg, target, list, historyVars>>

RenameTag(r) ==
    LET t == arg[r].tag IN
    /\ pc[r] = "rename"
    /\ IF Exists(t) /\ NameFree(arg[r].name, t)
       THEN tag' = [tag EXCEPT ![t] = arg[r].name] /\ loose' = loose \cup {t} /\ Goto(r, "done")
       ELSE Goto(r, "failed") /\ UNCHANGED <<tag, loose>>
    /\ UNCHANGED <<slug, applied, picture, arg, target, list, changed, astray, crossed, bare>>

\* Mutant of DeleteTag: the rows that use the tag are not looked at.
DeleteTagInUse(r) ==
    LET t == arg[r].tag IN
    /\ pc[r] = "deleteTag"
    /\ tag' = [tag EXCEPT ![t] = None] /\ loose' = loose \ {t} /\ Goto(r, "done")
    /\ UNCHANGED <<slug, applied, picture, arg, target, list, changed, astray, crossed, bare>>

\* The foreign key refuses to delete a tag that came into use since it was read.
DeleteTag(r) ==
    LET t == arg[r].tag IN
    /\ pc[r] = "deleteTag"
    /\ IF Exists(t) /\ t \notin applied
       THEN tag' = [tag EXCEPT ![t] = None] /\ loose' = loose \ {t} /\ Goto(r, "done")
       ELSE Goto(r, "failed") /\ UNCHANGED <<tag, loose>>
    /\ UNCHANGED <<slug, applied, picture, arg, target, list, changed, astray, crossed, bare>>

-----------------------------------------------------------------------------
(* The tags of an incident.                                                *)

\* Mutant of ReadIncident: what is written back keeps only the tag to remove.
ReadIncidentSwapped(r) ==
    LET rest == applied \cap {arg[r].tag} IN
    /\ pc[r] = "readIncident"
    /\ list' = [list EXCEPT ![r] = rest]
    /\ Goto(r, IF rest = {} THEN "replace" ELSE "verify")
    /\ UNCHANGED <<rowVars, arg, target, historyVars>>

\* DELETE of one tag reads the tags of the incident, to write back the others.
ReadIncident(r) ==
    LET rest == applied \ {arg[r].tag} IN
    /\ pc[r] = "readIncident"
    /\ list' = [list EXCEPT ![r] = rest]
    /\ Goto(r, IF rest = {} THEN "replace" ELSE "verify")
    /\ UNCHANGED <<rowVars, arg, target, historyVars>>

\* The tags to write must all be tags of the event.
Verify(r) ==
    /\ Test(r, "verify", \A t \in list[r] : Exists(t),
            IF arg[r].kind = "add" THEN "attach" ELSE "replace")
    /\ UNCHANGED <<rowVars, arg, target, list, historyVars>>

\* The incident gets these tags: readers that have not written hold an old list.
SetTags(r, tags) ==
    /\ applied' = tags
    /\ crossed' = IF tags = applied THEN crossed
                  ELSE crossed \cup {s \in Requests \ {r} : pc[s] \in {"verify", "replace"}}

\* The foreign key refuses a tag that is gone.
Attach(r) ==
    /\ pc[r] = "attach"
    /\ IF \A t \in list[r] : Exists(t)
       THEN SetTags(r, applied \cup list[r]) /\ Goto(r, "done")
       ELSE Goto(r, "failed") /\ UNCHANGED <<applied, crossed>>
    /\ UNCHANGED <<slug, tag, picture, arg, target, list, changed, astray, loose, bare>>

Detach(r) ==
    /\ pc[r] = "detach"
    /\ SetTags(r, applied \ arg[r].tags) /\ Goto(r, "done")
    /\ UNCHANGED <<slug, tag, picture, arg, target, list, changed, astray, loose, bare>>

\* updateIncidentTags deletes the rows and inserts the list, in one transaction;
\* reading the incident again or writing the audit row may fail after it.
ReplaceTags(r) ==
    /\ pc[r] = "replace"
    /\ IF \A t \in list[r] : Exists(t)
       THEN SetTags(r, list[r]) /\ (Goto(r, "done") \/ Goto(r, "failed"))
       ELSE Goto(r, "failed") /\ UNCHANGED <<applied, crossed>>
    /\ UNCHANGED <<slug, tag, picture, arg, target, list, changed, astray, loose, bare>>

-----------------------------------------------------------------------------
(* Pictures.                                                               *)

\* An upload first deletes the picture there is.
ClearPicture(r) ==
    /\ pc[r] = "clear"
    /\ picture' = [picture EXCEPT ![arg[r].owner] = None]
    /\ Goto(r, "store")
    /\ UNCHANGED <<slug, tag, applied, arg, target, list, historyVars>>

\* Mutant of StorePicture: the insertion is not waited for.
StorePictureUnseen(r) ==
    LET o == arg[r].owner IN
    /\ pc[r] = "store"
    /\ \/ picture[o] = None /\ picture' = [picture EXCEPT ![o] = r]
       \/ UNCHANGED picture
    /\ Goto(r, "done")
    /\ UNCHANGED <<slug, tag, applied, arg, target, list, historyVars>>

\* Then it inserts its own; the unique index allows one per owner.
StorePicture(r) ==
    LET o == arg[r].owner IN
    /\ pc[r] = "store"
    /\ IF picture[o] = None
       THEN picture' = [picture EXCEPT ![o] = r] /\ Goto(r, "done")
       ELSE Goto(r, "failed") /\ UNCHANGED picture
    /\ UNCHANGED <<slug, tag, applied, arg, target, list, historyVars>>

RemovePicture(r) ==
    LET o == arg[r].owner IN
    /\ pc[r] = "removePicture"
    /\ picture' = [picture EXCEPT ![o] = None]
    /\ bare' = bare \cup {o}
    /\ Goto(r, "done")
    /\ UNCHANGED <<slug, tag, applied, arg, target, list, changed, astray, crossed, loose>>

-----------------------------------------------------------------------------
\* The owners of the uploads among R that have deleted and not stored.
Cleared(R) == {arg[r].owner : r \in {s \in R : pc[s] = "store"}}

\* An awaited call rejects, and the handler's catch answers.
Reject(r) ==
    /\ pc[r] \in Running \ {"checkRole", "resolve"}
    /\ bare' = bare \cup Cleared({r})
    /\ Goto(r, "failed")
    /\ UNCHANGED <<rowVars, arg, target, list, changed, astray, crossed, loose>>

\* The server process dies.
Crash ==
    /\ \E r \in Requests : pc[r] \in Running
    /\ bare' = bare \cup Cleared(Requests)
    /\ pc' = [r \in Requests |-> IF pc[r] \in Running THEN "lost" ELSE pc[r]]
    /\ UNCHANGED <<rowVars, arg, target, list, changed, astray, crossed, loose>>

-----------------------------------------------------------------------------
EventStep(r)   == \/ CheckFree(r) \/ InsertEvent(r) \/ CheckRole(r)
                  \/ Resolve(r) \/ CheckNew(r) \/ WriteEvent(r)
TagStep(r)     == \/ FindTwin(r) \/ InsertTag(r) \/ ReadTag(r)
                  \/ FindName(r) \/ RenameTag(r) \/ DeleteTag(r)
ApplyStep(r)   == ReadIncident(r) \/ Verify(r) \/ Attach(r) \/ Detach(r) \/ ReplaceTags(r)
PictureStep(r) == ClearPicture(r) \/ StorePicture(r) \/ RemovePicture(r)

Next ==
    \/ \E r \in Requests : \E call \in Call : Start(r, call)
    \/ \E r \in Requests : EventStep(r) \/ TagStep(r) \/ ApplyStep(r) \/ PictureStep(r) \/ Reject(r)
    \/ Crash

Spec == Init /\ [][Next]_vars

-----------------------------------------------------------------------------
(* Properties.                                                             *)

(* An event is changed through its slug by its own administrators only,     *)
(* unless, between the role check and the lookup of the handler, the slug   *)
(* went from one event to another, or the lookup of the role check failed.  *)
ChangedByItsAdmins ==
    \A r \in Requests \ astray :
        changed[r] # {} => changed[r] \subseteq AdminOf[arg[r].user]

(* Every tag of the incident exists, whatever is deleted while tags are     *)
(* being verified and applied.                                              *)
AppliedExist == \A t \in applied : Exists(t)

(* Two tags of an event have names that differ only in case only when one   *)
(* was renamed, or was created while another creation was past its check.   *)
CaseTwinsOnlyLoose ==
    \A a, b \in TagIds : Twins(a, b) => a = b \/ a \in loose \/ b \in loose

(* Removing one tag from an incident leaves the other tags as they are,     *)
(* unless they changed after the list that is written back was read.        *)
RemovesOneTag ==
    [][\A r \in Requests :
          /\ pc[r] = "replace" /\ pc'[r] # "replace" /\ applied' # applied
          /\ arg[r].kind = "removeOne" /\ r \notin crossed
          => applied' = applied \ {arg[r].tag}]_vars

(* An owner is without a picture only while an upload has deleted the old   *)
(* one and not yet stored its own, or after a removal, or after an upload   *)
(* that was cut short in between; two uploads at once never leave none.     *)
PictureKept ==
    \A o \in Owners : picture[o] = None => o \in bare \cup Cleared(Requests)
=============================================================================
