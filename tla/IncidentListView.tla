-------------------------- MODULE IncidentListView ---------------------------
(***************************************************************************)
(* The list of incidents a browser tab shows                               *)
(* (components/incidents/EnhancedIncidentList.tsx), on the page of an event *)
(* or on the dashboard of all events: its filters, its pages, the calls it *)
(* makes for them and the incidents its user pinned.                       *)
(*                                                                         *)
(* Calls are answered in any order, or fail, and an answer is taken        *)
(* whatever was asked since.  A step is one event of the tab with all the  *)
(* effects React runs after it.  An incident stands for those of its event. *)
(***************************************************************************)
EXTENDS Integers, Sequences, SequencesExt

CONSTANTS Events,
          Dashboard,   \* the list of all events, which has no event of its own
          Filters,     \* search, status, ..., sorting, and "assigned"
          MaxPage,     \* bound: pages of a list
          MaxCalls     \* bound: calls in flight before the user asks for more

ASSUME ListAssumptions ==
    /\ Dashboard \notin Events
    /\ "assigned" \in Filters
    /\ MaxPage \in Nat \ {0} /\ MaxCalls \in Nat

Places == Events \cup {Dashboard}
Query == [place : Places, filters : SUBSET Filters, page : 1..MaxPage]

VARIABLES place,    \* the event of the page (eventSlug), or the dashboard
          filters,  \* the filters that are not at their default
          page,     \* currentPage
          total,    \* totalPages
          canView,  \* canViewAssignments
          list,     \* the query the incidents shown answer, <<>> before the first
          loading,
          error,
          flight,   \* calls in flight, in the order they were sent
          pins,     \* pinnedIncidents, for an event
          kept,     \* localStorage: pinned_reports_ of each event
          stored,   \* the events that have something in localStorage
          late,     \* history: the list came from a call older than one answered before
          moved,    \* history: the event changed, and nothing was asked since
          mixed     \* history: events given pins of another event

queryVars == <<filters, page>>
shownVars == <<total, canView, list>>
waitVars  == <<loading, error, flight>>
pinVars   == <<pins, kept, stored, mixed>>
listVars == <<place, queryVars, shownVars, waitVars, pinVars, late, moved>>

Fetches == [query : Query, overtaken : BOOLEAN]

ListTypeOK ==
    /\ place \in Places /\ filters \subseteq Filters /\ page \in 1..MaxPage
    /\ total \in 1..MaxPage /\ canView \in BOOLEAN
    /\ list = <<>> \/ list \in Query
    /\ loading \in BOOLEAN /\ error \in BOOLEAN
    /\ flight \in Seq(Fetches)
    /\ pins \subseteq Events
    /\ kept \in [Events -> SUBSET Events] /\ stored \subseteq Events
    /\ late \in BOOLEAN /\ moved \in BOOLEAN /\ mixed \subseteq Events

Asking(f, p) ==
    [query |-> [place |-> place, filters |-> f, page |-> p], overtaken |-> FALSE]

Shown == ~loading /\ ~error /\ list # <<>>

ListInit ==
    /\ place \in Places
    /\ filters = {} /\ page = 1 /\ total = 1 /\ canView = FALSE
    /\ list = <<>> /\ loading = TRUE /\ error = FALSE
    /\ flight = <<Asking({}, 1)>>
    /\ pins = {} /\ kept = [e \in Events |-> {}] /\ stored = {place} \cap Events
    /\ late = FALSE /\ moved = FALSE /\ mixed = {}

-----------------------------------------------------------------------------
(* Asking for incidents.                                                   *)

\* fetchIncidents, with the calls that are in flight.
Fetch(new, others) ==
    /\ flight' = others \o new
    /\ loading' = TRUE /\ error' = FALSE /\ moved' = FALSE

\* Mutant of Refilter: the page stays where it was.
RefilterSamePage(f, others) ==
    /\ filters' = f /\ page' = 1
    /\ Fetch(<<Asking(f, page)>>, others)

\* Filters change: a call for them on the page there is, then, on another than
\* the first, the page goes back to the first and that is asked for too.
Refilter(f, others) ==
    /\ filters' = f /\ page' = 1
    /\ Fetch(<<Asking(f, page)>> \o (IF page = 1 THEN <<>> ELSE <<Asking(f, 1)>>), others)

CanAsk == Len(flight) <= MaxCalls

\* A filter, or the sorting, is set or taken back; that by assignment is there
\* only for who may see assignments.
SetFilter(f) ==
    /\ CanAsk
    /\ f = "assigned" => canView
    /\ Refilter(IF f \in filters THEN filters \ {f} ELSE filters \cup {f}, flight)
    /\ UNCHANGED <<place, shownVars, pinVars, late>>

\* Clear Filters goes back to the first page even when no filter was set.
ClearFilters ==
    /\ CanAsk
    /\ \/ filters # {} /\ Refilter({}, flight)
       \/ filters = {} /\ page # 1 /\ page' = 1
          /\ Fetch(<<Asking({}, 1)>>, flight) /\ UNCHANGED filters
    /\ UNCHANGED <<place, shownVars, pinVars, late>>

\* Previous and Next, which are there for more than one page.
Turn(p) ==
    /\ CanAsk /\ Shown
    /\ total > 1
    /\ \/ page > 1 /\ p = page - 1
       \/ page # total /\ p = IF page + 1 < total THEN page + 1 ELSE total
    /\ page' = p
    /\ IF p = page THEN UNCHANGED <<waitVars, moved>> ELSE Fetch(<<Asking(filters, p)>>, flight)
    /\ UNCHANGED <<place, filters, shownVars, pinVars, late>>

\* The button that asks for the same again.
Refresh ==
    /\ CanAsk
    /\ Fetch(<<Asking(filters, page)>>, flight)
    /\ UNCHANGED <<place, queryVars, shownVars, pinVars, late>>

\* The calls left once call i is answered; its elders are overtaken.
Without(i) ==
    RemoveAt([j \in 1..Len(flight) |->
        IF j < i THEN [flight[j] EXCEPT !.overtaken = TRUE] ELSE flight[j]], i)

\* Who may see assignments is taken from the answer; without it, a filter by
\* assignment is cleared, as any change of a filter.
Take(i, sees) ==
    /\ canView' = sees
    /\ \/ (sees \/ "assigned" \notin filters)
          /\ loading' = FALSE /\ flight' = Without(i)
          /\ UNCHANGED <<queryVars, error, moved>>
       \/ ~sees /\ "assigned" \in filters
          /\ Refilter(filters \ {"assigned"}, Without(i))

\* Only the dashboard's endpoint says that assignments may be seen.
Answered ==
    \E i \in 1..Len(flight) :
        LET q == flight[i].query IN
        /\ list' = q /\ total' \in 1..MaxPage
        /\ \E sees \in IF q.place = Dashboard THEN BOOLEAN ELSE {FALSE} : Take(i, sees)
        /\ late' = flight[i].overtaken
        /\ UNCHANGED <<place, pinVars>>

Failed ==
    \E i \in 1..Len(flight) :
        /\ error' = TRUE /\ loading' = FALSE
        /\ flight' = RemoveAt(flight, i)
        /\ UNCHANGED <<place, queryVars, shownVars, pinVars, late, moved>>

-----------------------------------------------------------------------------
(* Pages of the tab, and pins.                                             *)

\* The tab comes to a list from another page: everything starts anew, and what
\* was in flight is answered to nobody.
Open(p) ==
    /\ place' = p
    /\ filters' = {} /\ page' = 1 /\ total' = 1 /\ canView' = FALSE
    /\ list' = <<>> /\ loading' = TRUE /\ error' = FALSE
    /\ flight' = <<[Asking({}, 1) EXCEPT !.query.place = p]>>
    /\ pins' = IF p \in Events THEN kept[p] ELSE {}
    /\ stored' = stored \cup ({p} \cap Events)
    /\ late' = FALSE /\ moved' = FALSE
    /\ UNCHANGED <<kept, mixed>>

\* Mutant of MovePins: the pins of the event left are not replaced.
MovePinsKept(e) ==
    /\ kept' = [kept EXCEPT ![e] = pins]
    /\ stored' = stored \cup {e}
    /\ mixed' = IF e \notin stored /\ pins # {} THEN mixed \cup {e} ELSE mixed
    /\ UNCHANGED pins

\* The pins of the event are loaded if it has any stored; those there are stay
\* otherwise, and are stored as its own.
MovePins(e) ==
    /\ pins' = IF e \in stored THEN kept[e] ELSE pins
    /\ kept' = [kept EXCEPT ![e] = pins']
    /\ stored' = stored \cup {e}
    /\ mixed' = IF e \notin stored /\ pins # {} THEN mixed \cup {e} ELSE mixed

\* From one event's list straight to another's: the list stays mounted, and
\* nothing is asked for.
Move(e) ==
    /\ place \in Events /\ e \in Events \ {place}
    /\ place' = e /\ moved' = TRUE
    /\ MovePins(e)
    /\ UNCHANGED <<queryVars, shownVars, waitVars, late>>

\* An incident of those shown, of event e, is pinned or unpinned.  The pins of
\* the dashboard have a key of their own, which no event's meets.
TogglePin(e) ==
    /\ place \in Events /\ Shown /\ list.place = e
    /\ pins' = IF e \in pins THEN pins \ {e} ELSE pins \cup {e}
    /\ kept' = [kept EXCEPT ![place] = pins']
    /\ mixed' = IF place # e /\ e \notin pins THEN mixed \cup {place} ELSE mixed
    /\ UNCHANGED <<place, queryVars, shownVars, waitVars, stored, late, moved>>

-----------------------------------------------------------------------------
ListNext ==
    \/ \E f \in Filters : SetFilter(f)
    \/ ClearFilters \/ Refresh
    \/ \E p \in 1..MaxPage : Turn(p)
    \/ Answered \/ Failed
    \/ \E p \in Places : Open(p)
    \/ \E e \in Events : Move(e) \/ TogglePin(e)

ListSpec == ListInit /\ [][ListNext]_listVars

-----------------------------------------------------------------------------
(* Properties.                                                             *)

(* Once every call is answered or given up the tab waits no longer, and     *)
(* shows the list of the event, filters and page it is on: unless an answer *)
(* came after that of a later call, the event changed and was not asked     *)
(* for, or an error is shown.                                               *)
ShownIsAsked ==
    flight = <<>> =>
        /\ ~loading
        /\ late \/ moved \/ error \/ list = [place |-> place, filters |-> filters, page |-> page]

(* What is pinned is stored for the place it is shown on, and an event has  *)
(* pins of its own incidents only, unless it had none stored when the tab   *)
(* moved to it from another event, or the list of another was still shown.  *)
PinsOfEvent ==
    /\ place \in Events => pins = kept[place]
    /\ \A e \in Events \ mixed : kept[e] \subseteq {e}
=============================================================================
