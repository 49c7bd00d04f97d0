--------------------------- MODULE TicketLifecycle ---------------------------
(***************************************************************************)
(* The life of one ticket under handlers that interleave.  Every handler   *)
(* reads the ticket outside any transaction, decides on what it read, and  *)
(* commits its patch later in a transaction that writes it whatever the    *)
(* row holds by then; only the client's message makes its UPDATE           *)
(* conditional on the status it read.  assign, take, escalate and triage   *)
(* commit twice: their own patch first, and then a transition that reads   *)
(* the ticket again.  Nothing touches two tickets at once, so one is       *)
(* modelled; the time a scan spends on the others is the time it may take. *)
(*                                                                         *)
(* Of the timeline what is kept is the last change of status it tells, and *)
(* how many SLA_AT_RISK events it holds.                                   *)
(***************************************************************************)
EXTENDS Integers, TicketRules

CONSTANTS
    Callers,     \* requests of staff and clients that may be in flight at once
    Scans,       \* passes of SlaRiskScheduler that may be in flight at once
    Operations,  \* what the requests of a run may ask for
    Window,      \* minutes to resolve, by priority (the client's SLA policy)
    MaxCalls,    \* bound: requests in a behaviour
    Horizon      \* bound: instants of the clock

ASSUME LifecycleAssumption ==
    /\ Callers \cap Scans = {}
    /\ Window \in [Priorities -> Nat \ {0}]
    /\ MaxCalls \in Nat
    /\ Horizon \in Nat

VARIABLES
    clock,      \* instants since the ticket was created
    ticket,     \* its row
    pc,         \* where each handler is
    call,       \* what it was asked for
    saw,        \* the row as it read it
    readAt,     \* the instant it took then
    calls,      \* requests left
    told,       \* the last change of status in the timeline
    riskTold,   \* SLA_AT_RISK events in the timeline, up to 2
    spokeSince  \* the client has written since the last change of status

handler == <<pc, call, saw, readAt>>
history == <<told, riskTold, spokeSince>>
vars    == <<clock, ticket, handler, calls, history>>

Handlers == Callers \cup Scans

\* A row that remove has deleted: UPDATEs of it affect nothing.
Gone == ticket.status = "GONE"

NoTicket == [status |-> "GONE", assignee |-> "none", priority |-> "P3",
             overridden |-> FALSE, due |-> 0, pausedAt |-> NotPaused, pausedTotal |-> 0,
             answered |-> FALSE, resolved |-> FALSE, evidence |-> FALSE, atRisk |-> FALSE]

NoCall == [op |-> "none", to |-> "none", reason |-> FALSE, evidence |-> FALSE,
           who |-> "none", priority |-> "P3"]

\* TicketsService.create has committed: the ticket is new and its clock runs.
Init ==
    /\ clock = 0
    /\ \E p \in Priorities :
         ticket = [NoTicket EXCEPT !.status = "NUEVO", !.priority = p, !.due = Window[p]]
    /\ pc = [h \in Handlers |-> "idle"]
    /\ call = [h \in Handlers |-> NoCall]
    /\ saw = [h \in Handlers |-> NoTicket]
    /\ readAt = [h \in Handlers |-> 0]
    /\ calls = MaxCalls
    /\ told = [from |-> "none", to |-> "NUEVO", reason |-> FALSE]
    /\ riskTold = 0
    /\ spokeSince = FALSE

\* Time goes by, and past the Horizon it is no longer counted.
Tick ==
    /\ clock' = IF clock = Horizon THEN clock ELSE clock + 1
    /\ UNCHANGED <<ticket, handler, calls, history>>
-----------------------------------------------------------------------------
(* What handlers are made of: a read, a patch, an event.                   *)

\* The handler takes what it was asked for, the row and the instant, together.
Read(h, k, next) ==
    /\ pc' = [pc EXCEPT ![h] = next]
    /\ call' = [call EXCEPT ![h] = k]
    /\ saw' = [saw EXCEPT ![h] = ticket]
    /\ readAt' = [readAt EXCEPT ![h] = clock]

\* A request arrives, is admitted and reads.  The rejected ones change nothing.
Receive(c, k, next) ==
    /\ calls > 0
    /\ k.op \in Operations
    /\ pc[c] \in {"idle", "refused"}
    /\ calls' = calls - 1
    /\ Read(c, k, next)
    /\ UNCHANGED <<clock, ticket, history>>

Finish(h, end) ==
    /\ pc' = [pc EXCEPT ![h] = end]
    /\ call' = [call EXCEPT ![h] = NoCall]
    /\ saw' = [saw EXCEPT ![h] = NoTicket]
    /\ readAt' = [readAt EXCEPT ![h] = 0]

\* The first of the two transactions is in; the transition comes next.
ThenTransition(c, k) ==
    /\ pc' = [pc EXCEPT ![c] = "transition"]
    /\ call' = [call EXCEPT ![c] = k]
    /\ saw' = [saw EXCEPT ![c] = NoTicket]
    /\ readAt' = [readAt EXCEPT ![c] = 0]

Update(patched) == ticket' = IF Gone THEN ticket ELSE patched

\* applyPause: both due dates move by what the pause lasted (one is kept), and
\* the total grows by as much, all computed from the row that was read.
Resumed_DueForgotten(t, h) ==
    [t EXCEPT !.pausedAt = NotPaused,
              !.pausedTotal = saw[h].pausedTotal + PausedFor(saw[h].pausedAt, readAt[h])]
Resumed(t, h) ==
    [t EXCEPT !.pausedAt = NotPaused,
              !.pausedTotal = saw[h].pausedTotal + PausedFor(saw[h].pausedAt, readAt[h]),
              !.due = saw[h].due + PausedFor(saw[h].pausedAt, readAt[h])]

\* The event of a change of status, saved in the transaction of the change.
TellStatus_OutsideTheTransaction(from, to, reason) ==
    /\ told' \in {told, [from |-> from, to |-> to, reason |-> reason]}
    /\ spokeSince' = FALSE
TellStatus(from, to, reason) ==
    /\ told' = [from |-> from, to |-> to, reason |-> reason]
    /\ spokeSince' = FALSE
-----------------------------------------------------------------------------
(* TicketTransitionsService.transition: every check is on the row it read. *)

\* "Regla 05": what resolves it comes with the request, or is in the row.
HasEvidence(t, k) == k.evidence \/ t.evidence

Admits_ReasonNotAsked(t, k) ==
    /\ CanTransition(t.status, k.to)
    /\ k.to = "RESUELTO" => HasEvidence(t, k)
Admits(t, k) ==
    /\ CanTransition(t.status, k.to)
    /\ RequiresReason(t.status, k.to) => k.reason
    /\ k.to = "RESUELTO" => HasEvidence(t, k)

StartTransition(c, to, reason, evidence) ==
    LET k == [NoCall EXCEPT !.op = "transition", !.to = to, !.reason = reason,
                            !.evidence = evidence]
    IN  /\ Admits(ticket, k)
        /\ Receive(c, k, "commit")

\* The second half of assign, take, escalate and triage.
FollowUp(c) ==
    /\ pc[c] = "transition"
    /\ IF ~Gone /\ Admits(ticket, call[c])
       THEN Read(c, call[c], "commit")
       ELSE /\ pc' = [pc EXCEPT ![c] = "refused"]
            /\ UNCHANGED <<call, saw, readAt>>
    /\ UNCHANGED <<clock, ticket, calls, history>>

\* The clock stops on entering ESPERA_CLIENTE and goes on when leaving it.
EndsPause_BackToWork(from, to) == from = "ESPERA_CLIENTE" /\ to = "EN_ATENCION"
EndsPause(from, to) == from = "ESPERA_CLIENTE"

Clocked(t, c) ==
    IF call[c].to = "ESPERA_CLIENTE" THEN [t EXCEPT !.pausedAt = readAt[c]]
    ELSE IF EndsPause(saw[c].status, call[c].to) THEN Resumed(t, c)
    ELSE t

Moved(c) ==
    LET to == call[c].to
    IN  [Clocked(ticket, c) EXCEPT
            !.status   = to,
            !.evidence = IF to = "RESUELTO" THEN call[c].evidence \/ saw[c].evidence ELSE @,
            !.resolved = (@ \/ to = "RESUELTO") /\ ~IsReopen(saw[c].status, to),
            !.answered = @ \/ to = "EN_ATENCION"]

CommitTransition(c) ==
    /\ pc[c] = "commit"
    /\ Update(Moved(c))
    /\ TellStatus(saw[c].status, call[c].to, call[c].reason)
    /\ Finish(c, "idle")
    /\ UNCHANGED <<clock, calls, riskTold>>
-----------------------------------------------------------------------------
(* TicketAssignmentService.                                                *)

StartAssign(c, who) == Receive(c, [NoCall EXCEPT !.op = "assign", !.who = who], "write")

\* The status only moves if the row it read had not been assigned yet.
WriteAssign(c) ==
    /\ pc[c] = "write" /\ call[c].op = "assign"
    /\ Update([ticket EXCEPT !.assignee = call[c].who])
    /\ IF saw[c].status \in {"NUEVO", "TRIAJE"}
       THEN ThenTransition(c, [call[c] EXCEPT !.to = "ASIGNADO"])
       ELSE Finish(c, "idle")
    /\ UNCHANGED <<clock, calls, history>>

StartTake(c) ==
    /\ CanTransition(ticket.status, "EN_ATENCION")
    /\ Receive(c, [NoCall EXCEPT !.op = "take", !.who = c], "write")

WriteTake(c) ==
    /\ pc[c] = "write" /\ call[c].op = "take"
    /\ Update([ticket EXCEPT !.assignee = call[c].who])
    /\ ThenTransition(c, [call[c] EXCEPT !.to = "EN_ATENCION"])
    /\ UNCHANGED <<clock, calls, history>>

\* The DTO demands the reason; another assignee is optional.
StartEscalate(c, who) ==
    /\ CanTransition(ticket.status, "DERIVADO")
    /\ Receive(c, [NoCall EXCEPT !.op = "escalate", !.who = who, !.reason = TRUE], "write")

WriteEscalate(c) ==
    /\ pc[c] = "write" /\ call[c].op = "escalate"
    /\ Update([ticket EXCEPT !.assignee = IF call[c].who = "none" THEN @ ELSE call[c].who])
    /\ ThenTransition(c, [call[c] EXCEPT !.to = "DERIVADO"])
    /\ UNCHANGED <<clock, calls, history>>

\* overridePriority: a priority given by hand, or derived from the matrix.
StartFixPriority(c, priority) ==
    Receive(c, [NoCall EXCEPT !.op = "fixPriority", !.priority = priority], "write")

StartRatePriority(c, impact, urgency) ==
    Receive(c, [NoCall EXCEPT !.op = "ratePriority",
                              !.priority = DerivePriority(impact, urgency)], "write")

WritePriority(c) ==
    /\ pc[c] = "write" /\ call[c].op \in {"fixPriority", "ratePriority"}
    /\ Update([ticket EXCEPT
                  !.priority = call[c].priority,
                  !.overridden = call[c].op = "fixPriority" \/ saw[c].overridden])
    /\ Finish(c, "idle")
    /\ UNCHANGED <<clock, calls, told, riskTold, spokeSince>>
-----------------------------------------------------------------------------
(* TicketAiService.triage: the LLM answers between the read and the write. *)

StartTriage(c, impact, urgency) ==
    Receive(c, [NoCall EXCEPT !.op = "triage",
                              !.priority = DerivePriority(impact, urgency)], "write")

\* "El triaje no pisa una prioridad que un humano ya fijo": in the row it read.
Reclassifies(c) == ~saw[c].overridden

\* With the priority, the due dates are computed again from the creation.
WriteTriage(c) ==
    /\ pc[c] = "write" /\ call[c].op = "triage"
    /\ Update(IF Reclassifies(c)
              THEN [ticket EXCEPT !.priority = call[c].priority,
                                  !.due = Window[call[c].priority]]
              ELSE ticket)
    /\ IF saw[c].status = "NUEVO"
       THEN ThenTransition(c, [call[c] EXCEPT !.to = "TRIAJE"])
       ELSE Finish(c, "idle")
    /\ UNCHANGED <<clock, calls, history>>
-----------------------------------------------------------------------------
(* TicketMessagesService.post, for a message of the client: always public. *)

StartPost(c) ==
    /\ ticket.status # "CERRADO"
    /\ Receive(c, [NoCall EXCEPT !.op = "post"], "write")

\* reactiva: the row it read was waiting for the client.
Wakes_Never(c) == FALSE
Wakes(c) == saw[c].status = "ESPERA_CLIENTE"

\* The UPDATE that wakes the ticket is conditional on the status it read.
StillThere(c) == ticket.status = saw[c].status

WritePost(c) ==
    /\ pc[c] = "write" /\ call[c].op = "post"
    /\ IF Wakes(c) /\ StillThere(c)
       THEN /\ Update([Resumed(ticket, c) EXCEPT !.status = "EN_ATENCION"])
            /\ TellStatus(saw[c].status, "EN_ATENCION", FALSE)
       ELSE /\ spokeSince' = TRUE
            /\ UNCHANGED <<ticket, told>>
    /\ Finish(c, "idle")
    /\ UNCHANGED <<clock, calls, riskTold>>
-----------------------------------------------------------------------------
(* TicketsService.remove.                                                  *)

StartRemove(c) ==
    /\ ticket.status \in {"NUEVO", "TRIAJE"}
    /\ Receive(c, [NoCall EXCEPT !.op = "remove"], "write")

WriteRemove(c) ==
    /\ pc[c] = "write" /\ call[c].op = "remove"
    /\ ticket' = [ticket EXCEPT !.status = "GONE"]
    /\ Finish(c, "idle")
    /\ UNCHANGED <<clock, calls, history>>
-----------------------------------------------------------------------------
(* SlaRiskScheduler: a pass lists the candidates and judges them later, on *)
(* the rows and at the instant it started with.                            *)

Candidate ==
    /\ ticket.status \in OpenStatuses
    /\ ticket.pausedAt = NotPaused
    /\ ~ticket.atRisk

ListForRisk(s) ==
    /\ pc[s] = "idle"
    /\ Candidate
    /\ Read(s, NoCall, "scan")
    /\ UNCHANGED <<clock, ticket, calls, history>>

\* Flag and event are one transaction.
FlagRisk == Update([ticket EXCEPT !.atRisk = TRUE])

MarkRisk(s) ==
    /\ pc[s] = "scan"
    /\ IF AtRisk(readAt[s], saw[s].due, saw[s].pausedTotal, saw[s].pausedAt)
       THEN /\ FlagRisk
            /\ riskTold' = IF riskTold = 2 THEN 2 ELSE riskTold + 1
       ELSE UNCHANGED <<ticket, riskTold>>
    /\ Finish(s, "idle")
    /\ UNCHANGED <<clock, calls, told, spokeSince>>

\* The process dies or the base answers with an error: a transaction that was
\* open is rolled back, one already in stays.
Fail(h) ==
    /\ pc[h] \notin {"idle", "refused"}
    /\ Finish(h, "idle")
    /\ UNCHANGED <<clock, ticket, calls, history>>
-----------------------------------------------------------------------------
StartAny(c) ==
    \/ \E to \in Statuses, reason \in BOOLEAN, evidence \in BOOLEAN :
         StartTransition(c, to, reason, evidence)
    \/ \E who \in Callers : StartAssign(c, who)
    \/ StartTake(c)
    \/ \E who \in Callers \cup {"none"} : StartEscalate(c, who)
    \/ \E priority \in Priorities : StartFixPriority(c, priority)
    \/ \E impact \in Impacts, urgency \in Urgencies :
         StartRatePriority(c, impact, urgency) \/ StartTriage(c, impact, urgency)
    \/ StartPost(c)
    \/ StartRemove(c)

Start(c) == ~Gone /\ StartAny(c)

Write(c) ==
    \/ CommitTransition(c)
    \/ FollowUp(c)
    \/ WriteAssign(c) \/ WriteTake(c) \/ WriteEscalate(c) \/ WritePriority(c)
    \/ WriteTriage(c) \/ WritePost(c) \/ WriteRemove(c)

Next ==
    \/ Tick
    \/ \E c \in Callers : Start(c) \/ Write(c)
    \/ \E s \in Scans : ListForRisk(s) \/ MarkRisk(s)
    \/ \E h \in Handlers : Fail(h)

Spec == Init /\ [][Next]_vars

\* The cron fires every five minutes for ever, and a pass cut short by an
\* error is followed by one that is not.
FairSpec == Spec /\ \A s \in Scans : WF_vars(ListForRisk(s)) /\ SF_vars(MarkRisk(s))
-----------------------------------------------------------------------------
Tickets ==
    [status : Statuses \cup {"GONE"}, assignee : Callers \cup {"none"},
     priority : Priorities, overridden : BOOLEAN, due : Nat, pausedAt : Nat \cup {NotPaused},
     pausedTotal : Nat, answered : BOOLEAN, resolved : BOOLEAN, evidence : BOOLEAN,
     atRisk : BOOLEAN]

Calls ==
    [op : Operations \cup {"none"}, to : Statuses \cup {"none"}, reason : BOOLEAN,
     evidence : BOOLEAN, who : Callers \cup {"none"}, priority : Priorities]

TypeOK ==
    /\ clock \in 0 .. Horizon
    /\ ticket \in Tickets
    /\ pc \in [Handlers -> {"idle", "commit", "transition", "write", "scan", "refused"}]
    /\ call \in [Handlers -> Calls]
    /\ saw \in [Handlers -> Tickets]
    /\ readAt \in [Handlers -> 0 .. Horizon]
    /\ calls \in 0 .. MaxCalls
    /\ told \in [from : Statuses \cup {"none"}, to : Statuses, reason : BOOLEAN]
    /\ riskTold \in 0 .. 2
    /\ spokeSince \in BOOLEAN

\* The audit invariant of ticket-transitions.service.ts: the timeline never
\* says one thing and the ticket another, however the handlers interleave,
\* because the status and its event are written together.
StatusIsTold == Gone \/ ticket.status = told.to

\* "Regla 05 - no se resuelve sin evidencia": true of the row itself, though
\* the check is made on an earlier reading of it.
ResolvedHasEvidence == ticket.status = "RESUELTO" => ticket.evidence /\ ticket.resolved

\* "Regla 03 - derivar exige motivo": a ticket escalated says why, by whatever
\* way it got there and whatever was committed in between.
EscalatedHasReason == ticket.status = "DERIVADO" => told.reason

\* A ticket waiting for the client has its clock stopped, and had its first
\* answer: the message that wakes it relies on both.
WaitingIsPaused ==
    ticket.status = "ESPERA_CLIENTE" => ticket.pausedAt # NotPaused /\ ticket.answered

\* A status comes with what it needs, though the patch was computed from a row that others have
\* written since: the three rules above, of the row that results.
StatusHasItsFacts == ResolvedHasEvidence /\ EscalatedHasReason /\ WaitingIsPaused

\* sla-risk.scheduler.ts: "si sla_at_risk = 1, hay un evento SLA_AT_RISK en el
\* timeline", and no such event without the flag.
RiskFlagIsTold == Gone \/ (ticket.atRisk <=> riskTold > 0)

\* sla.calculator.ts: "la fecha de vencimiento ya incorpora los desplazamientos
\* por pausa", so that taking the pauses away gives back an original deadline.
DueKeepsPauses == \E p \in Priorities : ticket.due = Window[p] + ticket.pausedTotal

\* The row itself only makes the moves of the state machine, with the reason
\* each requires: "CERRADO no tiene ninguna transicion de salida", and there is
\* no "reapertura sin motivo".
OnlyLegalMoves ==
    [][ticket'.status \notin {ticket.status, "GONE"}
         => /\ CanTransition(ticket.status, ticket'.status)
            /\ RequiresReason(ticket.status, ticket'.status) => told'.reason]_vars

\* The same for the client's message alone: it wakes a ticket that waits for
\* the client and moves no other, whatever happened since it read it.
MessageOnlyWakes ==
    [][\A c \in Callers : call[c].op = "post" /\ ticket'.status # ticket.status
                          /\ pc[c] = "write" /\ pc'[c] = "idle"
         => ticket.status = "ESPERA_CLIENTE"]_vars

\* "El reloj solo se detiene en ESPERA_CLIENTE."
ClockStopsOnlyWaiting ==
    ticket.pausedAt # NotPaused => ticket.status \in {"ESPERA_CLIENTE", "GONE"}

\* "El ticket dormido con la respuesta dentro que este hilo viene a evitar": no
\* ticket waits for a client who has written since it began to wait.
NoSleepingAnswer == ~(ticket.status = "ESPERA_CLIENTE" /\ spokeSince)

\* A ticket past its deadline, open and with its clock running, does not stay
\* without the flag.
OverdueIsFlagged ==
    (ticket.status \in OpenStatuses /\ ticket.pausedAt = NotPaused /\ clock >= ticket.due)
      ~> (ticket.atRisk \/ ticket.status \notin OpenStatuses
          \/ ticket.pausedAt # NotPaused \/ clock < ticket.due)
=============================================================================
