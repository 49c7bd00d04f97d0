--------------------------- MODULE PortalInvitations ---------------------------
(****************************************************************************)
(* Access to the customers' portal: an administrator of a customer invites   *)
(* (or the staff, in bulk), the link is mailed, and who accepts it becomes a *)
(* user or recovers the access that was taken away.  Nothing in the database *)
(* forbids two live invitations of one address: that rests on reading before *)
(* writing, so every await of a request is a step here.  The only lock is the*)
(* one accept takes on the row of its invitation.                            *)
(****************************************************************************)
EXTENDS Integers, FiniteSets, Sequences

CONSTANTS
    Clients,         \* companies
    Guests,          \* addresses that may be invited
    Authors,         \* who invites: administrators of customers, and the staff
    Of,              \* author -> its company, or Staff
    Staff,
    Requests,        \* HTTP requests that may be in flight at once
    MayLeave,        \* bound: authors and companies that may lose their account or leave
    MaxInvitations,  \* bound: rows of client_user_invitations
    MaxReviews       \* bound: reviews of a bulk upload

ASSUME PortalAssumption ==
    /\ Staff \notin Clients
    /\ \A a \in Authors : Of[a] \in Clients \cup {Staff}
    /\ MaxInvitations \in Nat /\ MaxReviews \in Nat

VARIABLES
    users,     \* client_users, by address: the unique key uq_client_users_email
    invs,      \* client_user_invitations
    left,      \* invitations whose mail left: somebody may hold their secret
    working,   \* authors whose account is active
    former,    \* companies in FORMER_CLIENT
    reviews,   \* signed blocks of a bulk upload handed to the staff
    sending,   \* enCurso: blocks this process is sending
    pc, req, todo,             \* per request: where it stands, its data, the rows left of a block
    raced      \* history: addresses for which two creations overlapped

vars == <<users, invs, left, working, former, reviews, sending, pc, req, todo, raced>>
requestVars == <<pc, req, todo>>
bulkVars    == <<reviews, sending>>
worldVars   == <<working, former>>

NoUser     == [client |-> "none"]
User       == [client : Clients, active : BOOLEAN, admin : BOOLEAN]
Invitation == [client : Clients, email : Guests, author : Authors, used : BOOLEAN,
               revoked : BOOLEAN, expired : BOOLEAN]
Block      == [client : Clients, rows : (SUBSET Guests) \ {{}}, since : Nat, expired : BOOLEAN]
Ops        == {"invite", "resend", "accept", "deactivate", "confirm"}
Steps      == {"idle", "user", "live", "replace", "mail",
               "lock", "checks", "grant", "deactivate", "row", "fresh"}

\* A request in flight: which invitation and which block it works on, and what it saw before.
Call == [op : Ops, client : Clients, email : Guests, author : Authors,
         inv : {0} \cup DOMAIN invs, saw : {0} \cup DOMAIN invs, block : {0} \cup DOMAIN reviews]

Init ==
    /\ users = [g \in Guests |-> NoUser]
    /\ invs = <<>> /\ left = {}
    /\ working = Authors /\ former = {}
    /\ reviews = <<>> /\ sending = {}
    /\ pc = [c \in Requests |-> "idle"]
    /\ req = [c \in Requests |-> <<>>]
    /\ todo = [c \in Requests |-> {}]
    /\ raced = {}

-----------------------------------------------------------------------------
(* What the queries answer.                                                  *)

\* findLiveByEmail: one of the invitations not used, not revoked and not expired, or none (0).
Live(g) == {i \in DOMAIN invs : /\ invs[i].email = g
                                /\ ~invs[i].used /\ ~invs[i].revoked /\ ~invs[i].expired}
LiveOrNone(g) == IF Live(g) = {} THEN {0} ELSE Live(g)

\* A user of that address may be invited again: without access, no administrator, of this company.
AdmiteReinvitacion_AnyCompany(u, client) == ~u.active /\ ~u.admin
AdmiteReinvitacion(u, client) == ~u.active /\ ~u.admin /\ u.client = client

\* The row of the invitation is held by an accept until it commits.
LockedBy_NoLock(i) == {}
LockedBy(i) == {c \in Requests : pc[c] \in {"checks", "grant"} /\ req[c].inv = i}

Goto(c, step) == pc' = [pc EXCEPT ![c] = step]

Close(c) == Goto(c, "idle") /\ req' = [req EXCEPT ![c] = <<>>]

\* A request answers; a bulk upload goes on with its next row, however this one ended.
Finish_EndsTheUpload(c) == Close(c) /\ UNCHANGED todo
Finish(c) ==
    IF req[c].op = "confirm"
    THEN todo' = [todo EXCEPT ![c] = @ \ {req[c].email}] /\ Goto(c, "row") /\ UNCHANGED req
    ELSE Close(c) /\ UNCHANGED todo

-----------------------------------------------------------------------------
(* invite and resend.                                                        *)

NewRequest(op, client, email, author, inv) ==
    [op |-> op, client |-> client, email |-> email, author |-> author, inv |-> inv,
     saw |-> 0, block |-> 0]

StartInvite(c) ==
    /\ pc[c] = "idle"
    /\ \E a \in working, g \in Guests :
          /\ Of[a] # Staff
          /\ req' = [req EXCEPT ![c] = NewRequest("invite", Of[a], g, a, 0)]
    /\ Goto(c, "user")
    /\ UNCHANGED <<users, invs, left, worldVars, bulkVars, todo, raced>>

LookUser(c) ==
    LET u == users[req[c].email] IN
    /\ pc[c] = "user"
    /\ IF u = NoUser \/ AdmiteReinvitacion(u, req[c].client)
       THEN Goto(c, "live") /\ UNCHANGED <<req, todo>>
       ELSE Finish(c)
    /\ UNCHANGED <<users, invs, left, worldVars, reviews, sending, raced>>

LookLive(c) ==
    /\ pc[c] = "live"
    /\ \E i \in LiveOrNone(req[c].email) :
          IF i # 0 /\ invs[i].client # req[c].client
          THEN Finish(c)
          ELSE /\ req' = [req EXCEPT ![c].saw = i]
               /\ Goto(c, "replace")
               /\ UNCHANGED todo
    /\ UNCHANGED <<users, invs, left, worldVars, reviews, sending, raced>>

\* resend finds a pending invitation of the company, expired or not, and keeps its author.
StartResend(c) ==
    /\ pc[c] = "idle"
    /\ \E i \in DOMAIN invs, a \in working :
          /\ Of[a] = invs[i].client
          /\ ~invs[i].used /\ ~invs[i].revoked
          /\ req' = [req EXCEPT ![c] = [NewRequest("resend", invs[i].client, invs[i].email,
                                                   invs[i].author, 0) EXCEPT !.saw = i]]
    /\ Goto(c, "replace")
    /\ UNCHANGED <<users, invs, left, worldVars, bulkVars, todo, raced>>

\* The rows that a creation revokes: when it saw a live one, all the pending ones of that address
\* in the company, expired ones too.
Revoked_NotOnResend(c) ==
    IF req[c].saw = 0 \/ req[c].op = "resend" THEN {}
    ELSE {i \in DOMAIN invs : /\ invs[i].email = req[c].email /\ invs[i].client = req[c].client
                              /\ ~invs[i].used /\ ~invs[i].revoked}
Revoked(c) ==
    IF req[c].saw = 0 THEN {}
    ELSE {i \in DOMAIN invs : /\ invs[i].email = req[c].email /\ invs[i].client = req[c].client
                              /\ ~invs[i].used /\ ~invs[i].revoked}

\* Another request is between its look at the invitations of this address and its INSERT.
Creating(g) == {c \in Requests : pc[c] \in {"user", "live", "replace"} /\ req[c].email = g}

\* replaceInvitation: revoke and create in one transaction, which waits for the lock of accept.
Replace(c) ==
    /\ pc[c] = "replace"
    /\ Len(invs) < MaxInvitations
    /\ \A i \in Revoked(c) : LockedBy(i) = {}
    /\ invs' = Append([i \in DOMAIN invs |->
                          IF i \in Revoked(c) THEN [invs[i] EXCEPT !.revoked = TRUE] ELSE invs[i]],
                      [client |-> req[c].client, email |-> req[c].email, author |-> req[c].author,
                       used |-> FALSE, revoked |-> FALSE, expired |-> FALSE])
    /\ req' = [req EXCEPT ![c].inv = Len(invs) + 1]
    /\ raced' = IF Creating(req[c].email) = {c} THEN raced ELSE raced \cup {req[c].email}
    /\ Goto(c, "mail")
    /\ UNCHANGED <<users, left, worldVars, bulkVars, todo>>

\* deliver: the mail leaves or it does not, or its answer is lost; markSent writes what came of it,
\* which only the screens read.  A failure to send does not fail the request.
Mail(c) ==
    /\ pc[c] = "mail"
    /\ left' \in {left, left \cup {req[c].inv}}
    /\ Finish(c)
    /\ UNCHANGED <<users, invs, worldVars, bulkVars, raced>>

\* A query that fails ends the request, or the row of a bulk upload; a transaction rolls back.
RequestFails(c) ==
    /\ pc[c] \in {"user", "live", "replace", "mail", "lock", "checks", "grant",
                  "deactivate", "fresh"}
    /\ Finish(c)
    /\ UNCHANGED <<users, invs, left, worldVars, reviews, sending, raced>>

-----------------------------------------------------------------------------
(* accept: one transaction that begins by locking the invitation.            *)

\* Only who got the mail knows the secret; expiry is judged by the clock at the start.
StartAccept(c) ==
    /\ pc[c] = "idle"
    /\ \E i \in left :
          /\ ~invs[i].expired
          /\ req' = [req EXCEPT ![c] = NewRequest("accept", invs[i].client, invs[i].email,
                                                  invs[i].author, i)]
    /\ Goto(c, "lock")
    /\ UNCHANGED <<users, invs, left, worldVars, bulkVars, todo, raced>>

Lock(c) ==
    /\ pc[c] = "lock"
    /\ LockedBy(req[c].inv) = {}
    /\ IF invs[req[c].inv].used \/ invs[req[c].inv].revoked
       THEN Close(c)
       ELSE Goto(c, "checks") /\ UNCHANGED req
    /\ UNCHANGED <<users, invs, left, worldVars, bulkVars, todo, raced>>

\* Author and company still stand, and the address is free or its user may come back: what is read
\* here without a lock decides, a moment later, between an INSERT (saw 0) and an UPDATE (saw 1).
CheckAccept(c) ==
    LET u == users[req[c].email] IN
    /\ pc[c] = "checks"
    /\ IF /\ req[c].author \in working
          /\ req[c].client \notin former
          /\ u = NoUser \/ AdmiteReinvitacion(u, req[c].client)
       THEN req' = [req EXCEPT ![c].saw = IF u = NoUser THEN 0 ELSE 1] /\ Goto(c, "grant")
       ELSE Close(c)
    /\ UNCHANGED <<users, invs, left, worldVars, bulkVars, todo, raced>>

\* saveOrInvalid: the unique key refuses a user that appeared meanwhile.
KeyIsFree(g) == users[g] = NoUser

\* The UPDATE of used_at finds it null, or everything rolls back.
StillUnused(i) == ~invs[i].used

\* What accept writes in client_users: a user of the invitation's company, or access again.
Granted(c) ==
    IF req[c].saw = 0 THEN [client |-> req[c].client, active |-> TRUE, admin |-> FALSE]
    ELSE [users[req[c].email] EXCEPT !.active = TRUE]

Grant(c) ==
    /\ pc[c] = "grant"
    /\ IF (req[c].saw = 0 => KeyIsFree(req[c].email)) /\ StillUnused(req[c].inv)
       THEN /\ users' = [users EXCEPT ![req[c].email] = Granted(c)]
            /\ invs' = [invs EXCEPT ![req[c].inv].used = TRUE]
       ELSE UNCHANGED <<users, invs>>
    /\ Close(c)
    /\ UNCHANGED <<left, worldVars, bulkVars, todo, raced>>

-----------------------------------------------------------------------------
(* A bulk upload: review hands out a signed block, send invites its rows.    *)

\* evaluar: the verdict of a row, with the live invitation that the query found.
Approved(g, client, live) ==
    IF users[g] # NoUser THEN AdmiteReinvitacion(users[g], client)
    ELSE live # 0 => invs[live].client = client

\* The second of slack: an invitation born just before the review may pass for a later one.
Review ==
    /\ Len(reviews) < MaxReviews
    /\ \E client \in Clients \ former, rows \in (SUBSET Guests) \ {{}},
          since \in Len(invs) - 1 .. Len(invs) :
          /\ since >= 0
          /\ \A g \in rows : \E i \in LiveOrNone(g) : Approved(g, client, i)
          /\ reviews' = Append(reviews, [client |-> client, rows |-> rows, since |-> since,
                                         expired |-> FALSE])
    /\ UNCHANGED <<users, invs, left, worldVars, sending, requestVars, raced>>

\* enCurso lets one confirmation of a block in; no mail leaves for a former company.
NotSending_Any(b) == TRUE
NotSending(b) == b \notin sending

StartConfirm(c) ==
    /\ pc[c] = "idle"
    /\ \E b \in DOMAIN reviews, a \in working :
          /\ Of[a] = Staff
          /\ ~reviews[b].expired
          /\ NotSending(b)
          /\ reviews[b].client \notin former
          /\ sending' = sending \cup {b}
          /\ req' = [req EXCEPT ![c] = [NewRequest("confirm", reviews[b].client,
                         CHOOSE g \in reviews[b].rows : TRUE, a, 0) EXCEPT !.block = b]]
          /\ todo' = [todo EXCEPT ![c] = reviews[b].rows]
    /\ Goto(c, "row")
    /\ UNCHANGED <<users, invs, left, worldVars, reviews, raced>>

\* Each row is judged again, by the function the review used.
Row(c) ==
    /\ pc[c] = "row"
    /\ \E g \in todo[c] : \E i \in LiveOrNone(g) :
          /\ req' = [req EXCEPT ![c].email = g, ![c].inv = 0, ![c].saw = 0]
          /\ IF Approved(g, req[c].client, i)
             THEN Goto(c, "fresh") /\ UNCHANGED todo
             ELSE /\ todo' = [todo EXCEPT ![c] = @ \ {g}]
                  /\ UNCHANGED pc
    /\ UNCHANGED <<users, invs, left, worldVars, reviews, sending, raced>>

\* An invitation born after the review is not replaced, whoever sent it.
BornAfter_OnlyReinvitations(c, i) ==
    i > reviews[req[c].block].since /\ users[req[c].email] = NoUser
BornAfter(c, i) == i > reviews[req[c].block].since

LookFresh(c) ==
    /\ pc[c] = "fresh"
    /\ \E i \in LiveOrNone(req[c].email) :
          IF i # 0 /\ BornAfter(c, i)
          THEN Finish(c)
          ELSE Goto(c, "user") /\ UNCHANGED <<req, todo>>
    /\ UNCHANGED <<users, invs, left, worldVars, reviews, sending, raced>>

\* The finally of send takes the block out of enCurso.
Released_Forgotten(b) == sending
Released(b) == sending \ {b}

EndConfirm(c) ==
    /\ pc[c] = "row"
    /\ todo[c] = {}
    /\ sending' = Released(req[c].block)
    /\ Close(c)
    /\ UNCHANGED <<users, invs, left, worldVars, reviews, todo, raced>>

-----------------------------------------------------------------------------
(* The users of a company, their administrators, the panel and the clock.     *)

\* An administrator takes the access of a user of his company who is no administrator.
StartDeactivate(c) ==
    /\ pc[c] = "idle"
    /\ \E a \in working, g \in Guests :
          /\ users[g] # NoUser /\ users[g].client = Of[a] /\ ~users[g].admin
          /\ req' = [req EXCEPT ![c] = NewRequest("deactivate", Of[a], g, a, 0)]
    /\ Goto(c, "deactivate")
    /\ UNCHANGED <<users, invs, left, worldVars, bulkVars, todo, raced>>

Deactivate(c) ==
    /\ pc[c] = "deactivate"
    /\ users' = [users EXCEPT ![req[c].email].active = FALSE]
    /\ Close(c)
    /\ UNCHANGED <<invs, left, worldVars, bulkVars, todo, raced>>

\* The staff creates or edits a user from the panel, whatever invitations are pending.
PanelCreate ==
    /\ \E g \in Guests, client \in Clients, admin \in BOOLEAN :
          /\ KeyIsFree(g)
          /\ users' = [users EXCEPT ![g] = [client |-> client, active |-> TRUE, admin |-> admin]]
    /\ UNCHANGED <<invs, left, worldVars, bulkVars, requestVars, raced>>

PanelUpdate ==
    /\ \E g \in Guests, active \in BOOLEAN, admin \in BOOLEAN :
          /\ users[g] # NoUser
          /\ users' = [users EXCEPT ![g].active = active, ![g].admin = admin]
    /\ UNCHANGED <<invs, left, worldVars, bulkVars, requestVars, raced>>

\* An author loses the account, a company stops being a customer.
AuthorLeaves ==
    /\ \E a \in working \cap MayLeave : working' = working \ {a}
    /\ UNCHANGED <<users, invs, left, former, bulkVars, requestVars, raced>>

ClientLeaves ==
    /\ \E client \in (Clients \cap MayLeave) \ former : former' = former \cup {client}
    /\ UNCHANGED <<users, invs, left, working, bulkVars, requestVars, raced>>

\* Invitations last seven days, in the order they were created; a review, half an hour.
Expire ==
    /\ \E i \in DOMAIN invs :
          /\ ~invs[i].expired
          /\ \A j \in 1 .. i - 1 : invs[j].expired
          /\ invs' = [invs EXCEPT ![i].expired = TRUE]
    /\ UNCHANGED <<users, left, worldVars, bulkVars, requestVars, raced>>

ReviewExpires ==
    /\ \E b \in DOMAIN reviews :
          /\ ~reviews[b].expired
          /\ reviews' = [reviews EXCEPT ![b].expired = TRUE]
    /\ UNCHANGED <<users, invs, left, worldVars, sending, requestVars, raced>>

\* A restart: what was in flight is gone, open transactions roll back, enCurso is empty.
Crash ==
    /\ pc' = [c \in Requests |-> "idle"]
    /\ req' = [c \in Requests |-> <<>>]
    /\ todo' = [c \in Requests |-> {}]
    /\ sending' = {}
    /\ UNCHANGED <<users, invs, left, worldVars, reviews, raced>>

Step(c) ==
    \/ LookUser(c) \/ LookLive(c) \/ Replace(c) \/ Mail(c) \/ RequestFails(c)
    \/ Lock(c) \/ CheckAccept(c) \/ Grant(c)
    \/ Row(c) \/ LookFresh(c) \/ EndConfirm(c)
    \/ Deactivate(c)
Ask(c) == StartInvite(c) \/ StartResend(c) \/ StartAccept(c) \/ StartConfirm(c) \/ StartDeactivate(c)
World == Review \/ PanelCreate \/ PanelUpdate \/ AuthorLeaves \/ ClientLeaves \/ Expire
         \/ ReviewExpires \/ Crash

Next == (\E c \in Requests : Step(c) \/ Ask(c)) \/ World
Spec == Init /\ [][Next]_vars

-----------------------------------------------------------------------------
(* Properties.                                                               *)

TypeOK ==
    /\ users \in [Guests -> User \cup {NoUser}]
    /\ invs \in Seq(Invitation) /\ left \subseteq DOMAIN invs
    /\ working \subseteq Authors /\ former \subseteq Clients
    /\ reviews \in Seq(Block)
    /\ sending \subseteq DOMAIN reviews
    /\ pc \in [Requests -> Steps]
    /\ todo \in [Requests -> SUBSET Guests]
    /\ req \in [Requests -> Call \cup {<<>>}]
    /\ \A c \in Requests :
          IF pc[c] = "idle" THEN req[c] = <<>> /\ todo[c] = {} ELSE req[c] \in Call
    /\ raced \subseteq Guests

\* "Un enlace que se filtro por el camino deja de servir en cuanto alguien reenvia": no invitation
\* is both revoked and used, whichever of accept and resend comes first.
RevokedIsNeverUsed == \A i \in DOMAIN invs : ~(invs[i].used /\ invs[i].revoked)

\* The requests implement the promise made of the links and of whom they let in: an accept and a
\* resend that cross end a link once, and only in the company that sent it.
Access == INSTANCE PortalAccess WITH
    Nobody <- "none",
    links <- [i \in DOMAIN invs |-> [client |-> invs[i].client, email |-> invs[i].email,
                                     used |-> invs[i].used, revoked |-> invs[i].revoked]],
    member <- [g \in Guests |-> users[g].client]
LinksImplemented == Access!AccessSpec

\* Condition 3 of admiteReinvitacion: whoever accepts is a user of the company that invited, also
\* when the panel gave that address to another company while the link was on its way.
AcceptedAtHome ==
    \A i \in DOMAIN invs : invs[i].used =>
        users[invs[i].email] # NoUser /\ users[invs[i].email].client = invs[i].client

\* "Un correo, una invitacion viva": two links of a company open the same address only if the
\* creations of two invitations of that address overlapped.
OneLiveUnlessRaced ==
    \A i, j \in DOMAIN invs :
        i # j /\ {i, j} \subseteq Live(invs[i].email) /\ invs[i].client = invs[j].client
        => invs[i].email \in raced

\* "Repetir la confirmacion no duplica": a confirmation, repeated or not, kills no link born after
\* its review, unless somebody else was inviting that address at the same time.
ConfirmationSparesNewLinks ==
    [][\A c \in Requests : pc[c] = "replace" /\ pc'[c] = "mail" /\ req[c].op = "confirm" =>
          \A i \in DOMAIN invs :
             invs'[i].revoked /\ ~invs[i].revoked /\ i > reviews[req[c].block].since
             => invs[i].email \in raced']_vars

\* A block is sent by one confirmation at a time, and is not locked out once it ended, however it
\* ended: enCurso holds the blocks that some request is sending, no other.
OneConfirmationPerBlock ==
    \A b \in DOMAIN reviews :
        Cardinality({c \in Requests : pc[c] # "idle" /\ req[c].op = "confirm" /\ req[c].block = b})
            = IF b \in sending THEN 1 ELSE 0

\* No request of a company kills the link of another ("un efecto cruzado entre empresas").
RevokesOnlyItsOwn ==
    [][\A c \in Requests : pc[c] = "replace" /\ pc'[c] = "mail" =>
          \A i \in DOMAIN invs : invs'[i].revoked # invs[i].revoked =>
                invs[i].client = req[c].client]_vars
=============================================================================
