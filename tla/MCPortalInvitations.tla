------------------------- MODULE MCPortalInvitations -------------------------
(* Constants of the runs of PortalInvitations.                              *)
EXTENDS PortalInvitations, TLC

CONSTANTS acme, other, boss, rival, clerk, eva, c1, c2

\* An administrator in each company, and somebody of the staff.
Company == (boss :> acme) @@ (rival :> other) @@ (clerk :> "staff")
Peers   == Permutations({c1, c2})
=============================================================================
