----------------------------- MODULE PortalAccess -----------------------------
(****************************************************************************)
(* What the invitations promise a company and whom it invites, however its   *)
(* requests interleave: a link ends once, used or revoked; a new one revokes *)
(* none, or all the open ones of that address in that company and no other;  *)
(* and an address that belongs to a company never passes to another.         *)
(****************************************************************************)
EXTENDS Naturals, Sequences

CONSTANTS Clients, Guests, Nobody

VARIABLES
    links,   \* links sent or about to be: company, address, and how each ended
    member   \* address -> the company it is a user of, or Nobody

accessVars == <<links, member>>

AccessInit == links = <<>> /\ member = [g \in Guests |-> Nobody]

Open(client, g) ==
    {i \in DOMAIN links : /\ links[i].client = client /\ links[i].email = g
                          /\ ~links[i].used /\ ~links[i].revoked}

\* A link more, in the place of none or of all the open ones.
Issue(client, g) ==
    /\ \E dead \in {{}, Open(client, g)} :
          links' = [i \in 1 .. Len(links) + 1 |->
                       IF i = Len(links) + 1
                       THEN [client |-> client, email |-> g, used |-> FALSE, revoked |-> FALSE]
                       ELSE IF i \in dead THEN [links[i] EXCEPT !.revoked = TRUE] ELSE links[i]]
    /\ UNCHANGED member

\* A link that is open makes its address a user of its company.
Use(i) ==
    /\ ~links[i].used /\ ~links[i].revoked
    /\ member[links[i].email] \in {Nobody, links[i].client}
    /\ links' = [links EXCEPT ![i].used = TRUE]
    /\ member' = [member EXCEPT ![links[i].email] = links[i].client]

\* The panel makes a user without a link.
Enrol(g, client) ==
    /\ member[g] = Nobody
    /\ member' = [member EXCEPT ![g] = client]
    /\ UNCHANGED links

AccessNext ==
    \/ \E client \in Clients, g \in Guests : Issue(client, g) \/ Enrol(g, client)
    \/ \E i \in DOMAIN links : Use(i)

AccessSpec == AccessInit /\ [][AccessNext]_accessVars
=============================================================================
