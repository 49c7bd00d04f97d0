-------------------------- MODULE MCTicketLifecycle --------------------------
(* Constants of the runs of TicketLifecycle.                                *)
EXTENDS TicketLifecycle

CONSTANTS ana, beto, night

\* Minutes are scaled down: a deadline is a few instants, and P1 is the nearest.
Windows == [p \in Priorities |-> CASE p = "P1" -> 1 [] p = "P2" -> 2
                                   [] p = "P3" -> 2 [] OTHER -> 3]

None     == {}
OneAgent == {ana}
TwoHands == {ana, beto}
OneScan  == {night}

Everything  == {"transition", "assign", "take", "escalate", "fixPriority", "ratePriority",
                "triage", "post", "remove"}
Moves       == {"transition", "post"}
MovesTriage == {"transition", "post", "triage"}
=============================================================================
