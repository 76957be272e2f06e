------------------------- MODULE MCInviteRedemption -------------------------
(* Instances of InviteRedemption for TLC. *)
EXTENDS InviteRedemption, TLC

CONSTANTS i1, i2, reporter, responder

\* One link per role, so that a user who redeems two links gets two roles.
MCRoleOf == [i \in Invites |-> IF i = i1 THEN reporter ELSE responder]

\* Requests and users are interchangeable; links are not (MCRoleOf tells them apart).
Symmetry == Permutations(Requests) \cup Permutations(Users)
=============================================================================
