--------------------------- MODULE MCClientSession ---------------------------
(***************************************************************************)
(* An instance for TLC of the two modules about the tabs of a browser: the *)
(* session of a tab, and the favorites of all of them.  They share no      *)
(* variable, and the second has users come and go in any order: so each is *)
(* explored while the other rests.                                         *)
(***************************************************************************)
EXTENDS ClientSession, Favorites, TLC

SessionRests  == SessionInit /\ cookie = NoUser /\ path = "login"
FavoritesRest == FavoritesInit /\ \A u \in Owners : stored[u] = {}

BrowserInit == SessionInit /\ FavoritesInit /\ (SessionRests \/ FavoritesRest)

BrowserNext ==
    \/ FavoritesRest /\ SessionNext /\ UNCHANGED favoriteVars
    \/ SessionRests /\ FavoritesNext /\ UNCHANGED tabVars

BrowserSpec == BrowserInit /\ [][BrowserNext]_<<tabVars, favoriteVars>>

Symmetry == Permutations(Users) \cup Permutations(Pages) \cup Permutations(Tabs)
=============================================================================
