-------------------------- MODULE MCSystemSettings --------------------------
(* Instances of SystemSettings for TLC. *)
EXTENDS SystemSettings, TLC

TwoLogKeys   == <<"logLevel", "logFilePath">>
TwoProviders == <<"google", "github">>

\* The keys that have a row, or that a request may still write.
Pending(b) == IF b.kind = "logging" THEN LogSet ELSE {b.entries[i].key : i \in DOMAIN b.entries}
Written == {k \in Keys : table[k] # Unset}
           \cup UNION {Pending(body[r]) : r \in {q \in Requests : body[q] # Unset}}

\* Bound: the settings that are written are any two of the four.
TwoWritten == Cardinality(Written) <= 2

Symmetry == Permutations(Requests) \cup Permutations(Configs)
=============================================================================
