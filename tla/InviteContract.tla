--------------------------- MODULE InviteContract ---------------------------
(***************************************************************************)
(* What an invite link promises, without its mechanism: a request is       *)
(* admitted at one instant, while the link is open; an admitted request    *)
(* may spend one use of that link, once, or leave without spending any;    *)
(* and the counter of a link moves by exactly the uses that were spent.    *)
(* InviteRedemption and Organizations implement it.                        *)
(***************************************************************************)
EXTENDS Naturals

CONSTANTS Requests,  \* HTTP requests that present an invite code
          Invites    \* invite links

VARIABLES open,      \* the links that would admit a request now
          phase,     \* where each request is, and with which link
          uses       \* the counter of each link

contractVars == <<open, phase, uses>>

Stage(name) == {<<name, i>> : i \in Invites}
Idle   == <<"idle">>
Closed == <<"closed">>

ContractTypeOK ==
    /\ open \subseteq Invites
    /\ phase \in [Requests -> {Idle, Closed} \cup Stage("admitted") \cup Stage("spent")]
    /\ uses \in [Invites -> Nat]

ContractInit ==
    /\ open = {}
    /\ phase = [r \in Requests |-> Idle]
    /\ uses = [i \in Invites |-> 0]

\* A request is let in, which only an open link does.
Admit(r, i) ==
    /\ phase[r] = Idle
    /\ i \in open
    /\ phase' = [phase EXCEPT ![r] = <<"admitted", i>>]
    /\ UNCHANGED <<open, uses>>

\* An admitted request spends a use; that may exhaust the link, never open one.
Spend(r, i) ==
    /\ phase[r] = <<"admitted", i>>
    /\ phase' = [phase EXCEPT ![r] = <<"spent", i>>]
    /\ uses' = [uses EXCEPT ![i] = @ + 1]
    /\ open' \subseteq open

\* Requests end without spending: refused, failed, or lost in a crash.
Leave(R) ==
    /\ R # {}
    /\ \A r \in R : phase[r] = Idle \/ phase[r] \in Stage("admitted")
    /\ phase' = [r \in Requests |-> IF r \in R THEN Closed ELSE phase[r]]
    /\ UNCHANGED <<open, uses>>

\* Administrators and the clock open and close links.
Reconfigure ==
    /\ open' \in SUBSET Invites
    /\ UNCHANGED <<phase, uses>>

ContractNext ==
    \/ \E r \in Requests, i \in Invites : Admit(r, i) \/ Spend(r, i)
    \/ \E R \in SUBSET Requests : Leave(R)
    \/ Reconfigure

ContractSpec == ContractInit /\ [][ContractNext]_contractVars
=============================================================================
