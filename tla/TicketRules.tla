----------------------------- MODULE TicketRules -----------------------------
(***************************************************************************)
(* The pure rules of tickets: the state machine, the priority matrix and   *)
(* the arithmetic of the SLA clock.  Instants count from the ticket's      *)
(* creation, so created_at is 0; NotPaused stands for a null paused_at.    *)
(***************************************************************************)
EXTENDS Integers

Transitions ==
    [NUEVO          |-> {"TRIAJE", "ASIGNADO", "CERRADO"},
     TRIAJE         |-> {"ASIGNADO", "CERRADO"},
     ASIGNADO       |-> {"EN_ATENCION", "DERIVADO", "CERRADO"},
     EN_ATENCION    |-> {"ESPERA_CLIENTE", "DERIVADO", "RESUELTO", "CERRADO"},
     ESPERA_CLIENTE |-> {"EN_ATENCION", "RESUELTO", "CERRADO"},
     DERIVADO       |-> {"EN_ATENCION", "CERRADO"},
     RESUELTO       |-> {"CERRADO", "EN_ATENCION"},
     CERRADO        |-> {}]

Statuses == {"NUEVO", "TRIAJE", "ASIGNADO", "EN_ATENCION", "ESPERA_CLIENTE",
             "DERIVADO", "RESUELTO", "CERRADO"}

OpenStatuses == Statuses \ {"RESUELTO", "CERRADO"}

CanTransition_WaitsUnanswered(from, to) ==
    to \in Transitions[from] \/ (from = "ASIGNADO" /\ to = "ESPERA_CLIENTE")
CanTransition(from, to) == to \in Transitions[from]

IsCancellation(from, to) == to = "CERRADO" /\ from # "RESUELTO"
IsReopen(from, to) == from = "RESUELTO" /\ to = "EN_ATENCION"

RequiresReason(from, to) ==
    to = "DERIVADO" \/ IsCancellation(from, to) \/ IsReopen(from, to)
-----------------------------------------------------------------------------
Priorities == {"P1", "P2", "P3", "P4"}
Impacts    == {"ALTO", "MEDIO", "BAJO"}
Urgencies  == {"ALTA", "MEDIA", "BAJA"}

DerivePriority(impact, urgency) ==
    CASE impact \notin Impacts \/ urgency \notin Urgencies -> "P3"
      [] impact = "ALTO" /\ urgency = "ALTA" -> "P1"
      [] <<impact, urgency>> \in {<<"ALTO", "MEDIA">>, <<"MEDIO", "ALTA">>} -> "P2"
      [] impact = "BAJO" /\ urgency # "ALTA" -> "P4"
      [] OTHER -> "P3"
-----------------------------------------------------------------------------
NotPaused == -1

\* What a pause that ends at that instant has lasted.
PausedFor_Backwards(pausedAt, resumedAt) ==
    IF pausedAt = NotPaused THEN 0 ELSE pausedAt - resumedAt
PausedFor(pausedAt, resumedAt) ==
    IF pausedAt = NotPaused THEN 0 ELSE resumedAt - pausedAt

\* consumedRatio >= AT_RISK_THRESHOLD.
AtRisk_NoWindowNoRisk(now, due, pausedTotal, pausedAt) ==
    LET active == now - pausedTotal - PausedFor(pausedAt, now)
        window == due - pausedTotal
    IN  window > 0 /\ 10 * active >= 7 * window
AtRisk(now, due, pausedTotal, pausedAt) ==
    LET active == now - pausedTotal - PausedFor(pausedAt, now)
        window == due - pausedTotal
    IN  window <= 0 \/ 10 * active >= 7 * window
=============================================================================
