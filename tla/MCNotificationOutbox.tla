------------------------ MODULE MCNotificationOutbox ------------------------
(* Instances of NotificationOutbox for TLC. *)
EXTENDS NotificationOutbox, TLC

CONSTANTS pass1, pass2

\* The registration of a ticket from the portal: a mail for each audience.
PortalCreated ==
    [NoRow EXCEPT !.type = "CREATED", !.fromPortal = TRUE, !.hasClientAuthor = TRUE,
                  !.actorClientUserId = "id"]

Message(visibility, client, user) ==
    [NoRow EXCEPT !.type = "MESSAGE_POSTED", !.hasClientAuthor = TRUE,
                  !.payloadVisibility = visibility, !.actorClientUserId = client,
                  !.actorUserId = user]

SlaAtRisk == [NoRow EXCEPT !.type = "SLA_AT_RISK", !.hasClientAuthor = TRUE]

\* Rows with a plan of two audiences, and of one.
TwoAudiences == {PortalCreated}

\* Everything a message row may say.
MessageRows ==
    {Message(v, c, u) : v \in {"PUBLICA", "INTERNA", "unreadable"},
                        c \in ActorColumn, u \in ActorColumn}

MixedRows == MessageRows \cup {PortalCreated, SlaAtRisk}

\* NOTIFY_RETRY_DELAYS_MS: one wait longer than a minute, for a cap of two attempts.
ShortDelays == <<2>>

PassSymmetry == Permutations({pass1, pass2})
=============================================================================
