------------------------- MODULE NotificationRules -------------------------
(***************************************************************************)
(* Which rows of `ticket_events` deserve a mail, and for whom.             *)
(* notifications/domain/notification-rules.ts is pure domain;              *)
(* MessageVisibilityOf and ActorKindOf are the two readers of              *)
(* notification-dispatcher.service.ts that prepare its input from the row. *)
(* A trigger key is abstracted to the audience it addresses: an audience   *)
(* appears at most once in a plan.                                         *)
(***************************************************************************)

Audiences == {"CLIENT", "TEAM"}

EventTypes == {"CREATED", "TRIAGED", "ASSIGNED", "TAKEN", "STATUS_CHANGED",
               "ESCALATED", "COMMENT", "RESOLVED", "CLOSED", "REOPENED",
               "SLA_AT_RISK", "PRIORITY_OVERRIDDEN", "MESSAGE_POSTED"}

\* An author column of the row: null, a usable id, or a value toId rejects.
ActorColumn == {"null", "id", "unreadable"}

\* What the rules look at in a row and in the ticket it belongs to.
EventRows ==
    [type : EventTypes,
     toEsperaCliente : BOOLEAN,        \* to_status = ESPERA_CLIENTE
     fromPortal : BOOLEAN,             \* ticket.origin = PORTAL
     hasClientAuthor : BOOLEAN,        \* ticket.createdByClientUserId
     payloadVisibility : {"PUBLICA", "INTERNA", "unreadable"},
     actorClientUserId : ActorColumn,
     actorUserId : ActorColumn]

MessageVisibilityOf(r) ==
    IF r.type = "MESSAGE_POSTED" /\ r.payloadVisibility # "unreadable"
    THEN r.payloadVisibility ELSE "null"

\* A client column that is there but cannot be read does not fall back to the
\* other author: that would send a client's own message out as the team's.
ActorKindOf(r) ==
    CASE r.actorClientUserId = "id"         -> "CLIENT"
      [] r.actorClientUserId = "unreadable" -> "null"
      [] OTHER -> IF r.actorUserId = "id" THEN "TEAM" ELSE "null"

\* The slip the source warns of: anything but a known internal note is public.
IsPublicMessageFrom_NotInternal(r, actorKind) ==
    /\ r.type = "MESSAGE_POSTED"
    /\ MessageVisibilityOf(r) # "INTERNA"
    /\ ActorKindOf(r) = actorKind

\* Every condition is checked in the positive: what is unknown stays silent.
IsPublicMessageFrom(r, actorKind) ==
    /\ r.type = "MESSAGE_POSTED"
    /\ MessageVisibilityOf(r) = "PUBLICA"
    /\ ActorKindOf(r) = actorKind

ClientTriggerFor(r) ==
    \/ r.type = "STATUS_CHANGED" /\ r.toEsperaCliente
    \/ IsPublicMessageFrom(r, "TEAM")
    \/ r.type \in {"CREATED", "RESOLVED", "CLOSED", "REOPENED"}

TeamTriggerFor(r) ==
    \/ r.type = "CREATED" /\ r.fromPortal
    \/ r.type = "SLA_AT_RISK"
    \/ IsPublicMessageFrom(r, "CLIENT")

PlansForEvent(r) ==
    {a \in Audiences : \/ a = "CLIENT" /\ r.hasClientAuthor /\ ClientTriggerFor(r)
                       \/ a = "TEAM" /\ TeamTriggerFor(r)}
=============================================================================
