------------------------------ MODULE Favorites ------------------------------
(***************************************************************************)
(* The pages that users star (context/NavigationContext.tsx), in the tabs  *)
(* of one browser.  A tab keeps its list in memory and writes it to        *)
(* localStorage half a second after its last change; the tabs share what   *)
(* is stored, and read it only when their user changes.                    *)
(*                                                                         *)
(* A step is one event of a tab with the effects React runs after it.      *)
(***************************************************************************)
EXTENDS Naturals, FiniteSets

CONSTANTS Tabs,
          Owners,   \* the users that have favorites
          Pages,    \* pages that can be starred
          NoOwner   \* nobody

ASSUME FavoritesAssumptions == NoOwner \notin Owners

VARIABLES viewer,    \* the user of each tab
          favorites, \* the pages each tab shows as starred
          saving,    \* tabs whose timer runs
          stored,    \* localStorage: conducky_favorites_ of each user; {} is nothing stored
          starred,   \* history: the pages each user starred or had stored
          heirs,     \* history: users with nothing stored who took over pages in a tab
          behind,    \* history: tabs whose user's pages another tab stored since they were read
          refused,   \* history: tabs whose last storing the browser refused
          removed    \* history: pages unstarred in a tab since it read or stored its list

tabLists     == <<viewer, favorites, saving>>
storageVars  == <<stored, starred, heirs>>
lapses       == <<behind, refused, removed>>
favoriteVars == <<tabLists, storageVars, lapses>>

FavoritesTypeOK ==
    /\ viewer \in [Tabs -> Owners \cup {NoOwner}]
    /\ favorites \in [Tabs -> SUBSET Pages]
    /\ saving \subseteq Tabs
    /\ stored \in [Owners -> SUBSET Pages] /\ starred \in [Owners -> SUBSET Pages]
    /\ heirs \subseteq Owners
    /\ behind \subseteq Tabs /\ refused \subseteq Tabs
    /\ removed \in [Tabs -> SUBSET Pages]

\* Tabs are opened in a browser that may hold pages of earlier days.
FavoritesInit ==
    /\ viewer = [t \in Tabs |-> NoOwner]
    /\ favorites = [t \in Tabs |-> {}]
    /\ saving = {}
    /\ stored \in [Owners -> SUBSET Pages]
    /\ starred = stored
    /\ heirs = {} /\ behind = {} /\ refused = {}
    /\ removed = [t \in Tabs |-> {}]

\* What a tab holds was read, or is about to be stored for the first time.
Fresh(t) ==
    /\ behind' = behind \ {t}
    /\ refused' = refused \ {t}
    /\ removed' = [removed EXCEPT ![t] = {}]

\* Mutant of LoadFavorites: what is stored is added to the pages that are there.
LoadFavoritesLeak(t, u) == favorites' = [favorites EXCEPT ![t] = @ \cup stored[u]]

\* What is stored for a user is read; nothing stored leaves the pages that are there.
LoadFavorites(t, u) ==
    favorites' = [favorites EXCEPT ![t] = IF stored[u] = {} THEN @ ELSE stored[u]]

\* A login, or another user of the session: the list is loaded and the timer
\* starts anew.
ChangeUser(t, u) ==
    /\ viewer[t] # u
    /\ viewer' = [viewer EXCEPT ![t] = u]
    /\ LoadFavorites(t, u)
    /\ saving' = saving \cup {t}
    /\ heirs' = IF stored[u] = {} /\ favorites[t] # {} THEN heirs \cup {u} ELSE heirs
    /\ Fresh(t)
    /\ UNCHANGED <<stored, starred>>

\* A logout stops the timer; the list stays, though nobody is shown it.
LoseUser(t) ==
    /\ viewer[t] # NoOwner
    /\ viewer' = [viewer EXCEPT ![t] = NoOwner]
    /\ saving' = saving \ {t}
    /\ Fresh(t)
    /\ UNCHANGED <<favorites, storageVars>>

\* The tab is loaded again, or closed and another one opened.
Reload(t) ==
    /\ viewer' = [viewer EXCEPT ![t] = NoOwner]
    /\ favorites' = [favorites EXCEPT ![t] = {}]
    /\ saving' = saving \ {t}
    /\ Fresh(t)
    /\ UNCHANGED storageVars

\* Mutant of Star: the timer does not start.
StarUnsaved(t, p) ==
    /\ viewer[t] # NoOwner /\ p \notin favorites[t]
    /\ favorites' = [favorites EXCEPT ![t] = @ \cup {p}]
    /\ starred' = [starred EXCEPT ![viewer[t]] = @ \cup {p}]
    /\ removed' = [removed EXCEPT ![t] = @ \ {p}]
    /\ UNCHANGED <<viewer, saving, stored, heirs, behind, refused>>

\* Mutant of Star: the page is added to the list of the first render, an empty one.
StarStale(t, p) ==
    /\ viewer[t] # NoOwner /\ p \notin favorites[t]
    /\ favorites' = [favorites EXCEPT ![t] = {p}]
    /\ saving' = saving \cup {t}
    /\ starred' = [starred EXCEPT ![viewer[t]] = @ \cup {p}]
    /\ removed' = [removed EXCEPT ![t] = @ \ {p}]
    /\ UNCHANGED <<viewer, stored, heirs, behind, refused>>

\* The star of a page, which only a logged-in user sees.
Star(t, p) ==
    /\ viewer[t] # NoOwner /\ p \notin favorites[t]
    /\ favorites' = [favorites EXCEPT ![t] = @ \cup {p}]
    /\ saving' = saving \cup {t}
    /\ starred' = [starred EXCEPT ![viewer[t]] = @ \cup {p}]
    /\ removed' = [removed EXCEPT ![t] = @ \ {p}]
    /\ UNCHANGED <<viewer, stored, heirs, behind, refused>>

Unstar(t, p) ==
    /\ viewer[t] # NoOwner /\ p \in favorites[t]
    /\ favorites' = [favorites EXCEPT ![t] = @ \ {p}]
    /\ saving' = saving \cup {t}
    /\ removed' = [removed EXCEPT ![t] = @ \cup {p}]
    /\ UNCHANGED <<viewer, storageVars, behind, refused>>

\* The tabs of a user whose stored pages a tab changes.
Overtaken(t, u) == {s \in Tabs \ {t} : viewer[s] = u /\ stored'[u] # stored[u]}

\* 500 ms without a change: the list is stored, whatever is stored by then; an
\* empty one never is.  The browser may refuse (storage full).
StoreFavorites(t) ==
    LET u == viewer[t] IN
    /\ t \in saving
    /\ saving' = saving \ {t}
    /\ \/ /\ favorites[t] # {}
          /\ stored' = [stored EXCEPT ![u] = favorites[t]]
          /\ behind' = (behind \ {t}) \cup Overtaken(t, u)
          /\ refused' = refused \ {t}
          /\ removed' = [removed EXCEPT ![t] = {}]
       \/ /\ favorites[t] # {}
          /\ refused' = refused \cup {t}
          /\ UNCHANGED <<stored, behind, removed>>
       \/ favorites[t] = {} /\ UNCHANGED <<stored, lapses>>
    /\ UNCHANGED <<viewer, favorites, starred, heirs>>

FavoritesNext ==
    \E t \in Tabs :
        \/ \E u \in Owners : ChangeUser(t, u)
        \/ LoseUser(t) \/ Reload(t) \/ StoreFavorites(t)
        \/ \E p \in Pages : Star(t, p) \/ Unstar(t, p)

FavoritesSpec == FavoritesInit /\ [][FavoritesNext]_favoriteVars

-----------------------------------------------------------------------------
(* Properties.                                                             *)

(* The pages stored for a user are pages that user starred, in whatever tab *)
(* and after whomever, unless the user had nothing stored when coming to a  *)
(* tab with pages in it, which are then stored for both.                    *)
StoredIsStarred == \A u \in Owners \ heirs : stored[u] \subseteq starred[u]

(* Once its timer is out a tab shows what is stored for its user, unless    *)
(* another tab has stored since, the browser refused to store, or the list  *)
(* is empty, which is never stored.                                         *)
ShownIsStored ==
    \A t \in Tabs \ (saving \cup behind \cup refused) :
        viewer[t] # NoOwner /\ favorites[t] # {} => stored[viewer[t]] = favorites[t]

(* A tab that stores its list drops from storage only pages that were       *)
(* unstarred in it, unless another tab has stored since it read the list:   *)
(* then the pages starred there are lost, even if nothing was starred here. *)
StarsLostOnlyBehind ==
    [][\A t \in saving \ behind :
          LET u == viewer[t] IN
          t \notin saving' /\ u # NoOwner => stored[u] \ stored'[u] \subseteq removed[t]]_favoriteVars
=============================================================================
