------------------------ MODULE TicketLifecycleProofs ------------------------
(***************************************************************************)
(* Proofs about TicketLifecycle, for any number of requests and scans in   *)
(* flight, any SLA policy and any length of the behaviour.                 *)
(*                                                                         *)
(* The checks of a transition are made on a row that may have changed by   *)
(* the time it is written.  What survives is what the patch itself brings  *)
(* along with the status, and what never goes back once it is there; the   *)
(* inductive invariant says which facts of a reading are of that kind.     *)
(***************************************************************************)
EXTENDS TicketLifecycle, TLAPS

\* Nobody works on a ticket, or waits for its client, before its first answer.
Answered(t) == t.status \in {"EN_ATENCION", "ESPERA_CLIENTE"} => t.answered

\* What stays true of a reading, whatever is committed after it.
ReadingHolds ==
    \A h \in Handlers :
        /\ Answered(saw[h])
        /\ saw[h].answered => ticket.answered
        /\ saw[h].pausedAt <= readAt[h] /\ readAt[h] <= clock
        /\ pc[h] = "commit" => saw[h].status \in Statuses /\ call[h].to \in Statuses
                               /\ Admits(saw[h], call[h])
        /\ pc[h] = "transition" => call[h].to \in Statuses

RowHolds ==
    /\ Answered(ticket)
    /\ ticket.pausedAt <= clock
    /\ StatusIsTold
    /\ ResolvedHasEvidence
    /\ EscalatedHasReason
    /\ WaitingIsPaused
    /\ RiskFlagIsTold

IInv == TypeOK /\ ReadingHolds /\ RowHolds

PcValues == {"idle", "commit", "transition", "write", "scan", "refused"}
-----------------------------------------------------------------------------
LEMMA DeriveFact == \A i, u : DerivePriority(i, u) \in Priorities
BY DEF DerivePriority, Priorities

LEMMA NoneFact == NoTicket \in Tickets /\ NoCall \in Calls
BY DEF NoTicket, NoCall, Tickets, Calls, Priorities, Statuses, NotPaused

\* A transition the table has: from a status to a status, and which one.
LEMMA TransitionFact ==
    ASSUME NEW from \in Statuses, NEW to \in Statuses, CanTransition(from, to)
    PROVE  /\ to = "ESPERA_CLIENTE" => from = "EN_ATENCION"
           /\ to = "RESUELTO" => from \in {"EN_ATENCION", "ESPERA_CLIENTE"}
           /\ from = "ESPERA_CLIENTE" => to \in {"EN_ATENCION", "RESUELTO", "CERRADO"}
BY DEF CanTransition, Transitions, Statuses

\* Init establishes everything.
LEMMA InitInv == Init => IInv
<1> SUFFICES ASSUME Init PROVE IInv
  OBVIOUS
<1>1. PICK p \in Priorities :
        ticket = [NoTicket EXCEPT !.status = "NUEVO", !.priority = p, !.due = Window[p]]
  BY DEF Init
<1>2. Window[p] \in Nat
  BY <1>1, LifecycleAssumption
<1>3. ticket \in Tickets
  BY <1>1, <1>2 DEF NoTicket, Tickets, Statuses, NotPaused
<1>4. MaxCalls \in Nat /\ Horizon \in Nat
  BY LifecycleAssumption
<1>5. TypeOK
  <2>1. told \in [from : Statuses \cup {"none"}, to : Statuses, reason : BOOLEAN]
    BY DEF Init, Statuses
  <2>2. /\ pc \in [Handlers -> {"idle", "commit", "transition", "write", "scan", "refused"}]
        /\ call \in [Handlers -> Calls] /\ saw \in [Handlers -> Tickets]
        /\ readAt \in [Handlers -> 0 .. Horizon]
    BY <1>4, NoneFact DEF Init
  <2>3. clock \in 0 .. Horizon /\ calls \in 0 .. MaxCalls /\ riskTold \in 0 .. 2
    BY <1>4 DEF Init
  <2>4. spokeSince \in BOOLEAN
    BY DEF Init
  <2> QED
    BY <1>3, <2>1, <2>2, <2>3, <2>4 DEF TypeOK
<1>6. ReadingHolds
  BY DEF Init, ReadingHolds, NoTicket, Answered, NotPaused
<1>7. RowHolds
  BY <1>1 DEF Init, RowHolds, NoTicket, Answered, NotPaused, StatusIsTold, Gone,
              ResolvedHasEvidence, EscalatedHasReason, WaitingIsPaused, RiskFlagIsTold
<1> QED
  BY <1>5, <1>6, <1>7 DEF IInv
-----------------------------------------------------------------------------
(* Steps that leave the row and the clock alone: what a handler becomes.   *)

\* A reading of the row as it is now.
LEMMA ReadInv ==
    ASSUME IInv, NEW h \in Handlers, NEW k \in Calls, NEW next \in PcValues,
           Read(h, k, next), calls' \in 0 .. MaxCalls,
           UNCHANGED <<clock, ticket, history>>,
           next = "commit" => ~Gone /\ k.to \in Statuses /\ Admits(ticket, k),
           next # "transition"
    PROVE  IInv'
<1>0. TypeOK /\ ReadingHolds /\ RowHolds
  BY DEF IInv
<1>1. /\ pc' = [pc EXCEPT ![h] = next] /\ call' = [call EXCEPT ![h] = k]
      /\ saw' = [saw EXCEPT ![h] = ticket] /\ readAt' = [readAt EXCEPT ![h] = clock]
  BY DEF Read
<1>2. TypeOK'
  BY <1>0, <1>1 DEF TypeOK, history, PcValues
<1>3. ReadingHolds'
  <2> SUFFICES ASSUME NEW g \in Handlers
               PROVE  /\ Answered(saw'[g])
                      /\ saw'[g].answered => ticket.answered
                      /\ saw'[g].pausedAt <= readAt'[g] /\ readAt'[g] <= clock
                      /\ pc'[g] = "commit" => saw'[g].status \in Statuses
                                              /\ call'[g].to \in Statuses
                                              /\ Admits(saw'[g], call'[g])
                      /\ pc'[g] = "transition" => call'[g].to \in Statuses
    BY DEF ReadingHolds, Answered, Admits
  <2>1. CASE g = h
    <3>1. saw'[g] = ticket /\ readAt'[g] = clock /\ pc'[g] = next /\ call'[g] = k
      BY <1>0, <1>1, <2>1 DEF TypeOK
    <3>2. ~Gone => ticket.status \in Statuses
      BY <1>0 DEF TypeOK, Tickets, Gone
    <3> QED
      BY <1>0, <3>1, <3>2 DEF RowHolds, TypeOK
  <2>2. CASE g # h
    <3>1. saw'[g] = saw[g] /\ readAt'[g] = readAt[g] /\ pc'[g] = pc[g] /\ call'[g] = call[g]
      BY <1>0, <1>1, <2>2 DEF TypeOK
    <3> QED
      BY <1>0, <3>1 DEF ReadingHolds
  <2> QED
    BY <2>1, <2>2
<1>4. RowHolds'
  BY <1>0 DEF RowHolds, Answered, StatusIsTold, Gone, ResolvedHasEvidence,
              EscalatedHasReason, WaitingIsPaused, RiskFlagIsTold, history
<1> QED
  BY <1>2, <1>3, <1>4 DEF IInv

\* The end of a handler, or of its first transaction: its reading is dropped.
Ends(h) == Finish(h, "idle") \/ \E k \in Calls : k.to \in Statuses /\ ThenTransition(h, k)

\* A write is safe when the row it leaves is, and no first answer is taken back.
LEMMA WriteInv ==
    ASSUME IInv, NEW h \in Handlers, Ends(h),
           ticket' \in Tickets, ticket.answered => ticket'.answered,
           told' \in [from : Statuses \cup {"none"}, to : Statuses, reason : BOOLEAN],
           riskTold' \in 0 .. 2, spokeSince' \in BOOLEAN,
           UNCHANGED <<clock, calls>>, RowHolds'
    PROVE  IInv'
<1>0. TypeOK /\ ReadingHolds
  BY DEF IInv
<1>c. Horizon \in Nat
  BY LifecycleAssumption
<1>1. /\ saw' = [saw EXCEPT ![h] = NoTicket] /\ readAt' = [readAt EXCEPT ![h] = 0]
      /\ \/ pc' = [pc EXCEPT ![h] = "idle"] /\ call' = [call EXCEPT ![h] = NoCall]
         \/ \E k \in Calls : /\ k.to \in Statuses
                             /\ pc' = [pc EXCEPT ![h] = "transition"]
                             /\ call' = [call EXCEPT ![h] = k]
  BY DEF Ends, Finish, ThenTransition
<1>2. TypeOK'
  <2>1. /\ pc' \in [Handlers -> {"idle", "commit", "transition", "write", "scan", "refused"}]
        /\ call' \in [Handlers -> Calls] /\ saw' \in [Handlers -> Tickets]
        /\ readAt' \in [Handlers -> 0 .. Horizon]
    BY <1>0, <1>1, <1>c, NoneFact DEF TypeOK
  <2> QED
    BY <1>0, <2>1 DEF TypeOK
<1>3. ReadingHolds'
  <2> SUFFICES ASSUME NEW g \in Handlers
               PROVE  /\ Answered(saw'[g])
                      /\ saw'[g].answered => ticket'.answered
                      /\ saw'[g].pausedAt <= readAt'[g] /\ readAt'[g] <= clock
                      /\ pc'[g] = "commit" => saw'[g].status \in Statuses
                                              /\ call'[g].to \in Statuses
                                              /\ Admits(saw'[g], call'[g])
                      /\ pc'[g] = "transition" => call'[g].to \in Statuses
    BY DEF ReadingHolds, Answered, Admits
  <2>1. CASE g = h
    <3>1. saw'[g] = NoTicket /\ readAt'[g] = 0
      BY <1>0, <1>1, <2>1 DEF TypeOK
    <3>2. pc'[g] = "idle" \/ (pc'[g] = "transition" /\ call'[g].to \in Statuses)
      BY <1>0, <1>1, <2>1 DEF TypeOK
    <3> QED
      BY <1>0, <3>1, <3>2 DEF TypeOK, NoTicket, Answered, NotPaused
  <2>2. CASE g # h
    <3>1. saw'[g] = saw[g] /\ readAt'[g] = readAt[g] /\ pc'[g] = pc[g] /\ call'[g] = call[g]
      BY <1>0, <1>1, <2>2 DEF TypeOK
    <3> QED
      BY <1>0, <3>1 DEF ReadingHolds
  <2> QED
    BY <2>1, <2>2
<1> QED
  BY <1>2, <1>3 DEF IInv

\* A patch that leaves alone the columns RowHolds is about.
LEMMA PlainPatchInv ==
    ASSUME IInv, NEW h \in Handlers, Ends(h),
           ticket' \in Tickets,
           \A f \in {"status", "answered", "resolved", "evidence", "pausedAt", "atRisk"} :
              ticket'[f] = ticket[f],
           spokeSince' \in BOOLEAN,
           UNCHANGED <<clock, calls, told, riskTold>>
    PROVE  IInv'
<1>0. TypeOK /\ RowHolds
  BY DEF IInv
<1>1. /\ ticket'.status = ticket.status /\ ticket'.answered = ticket.answered
      /\ ticket'.resolved = ticket.resolved /\ ticket'.evidence = ticket.evidence
      /\ ticket'.pausedAt = ticket.pausedAt /\ ticket'.atRisk = ticket.atRisk
  BY DEF Tickets
<1>2. RowHolds'
  BY <1>0, <1>1 DEF RowHolds, Answered, StatusIsTold, Gone, ResolvedHasEvidence,
                    EscalatedHasReason, WaitingIsPaused, RiskFlagIsTold
<1> QED
  BY <1>0, <1>1, <1>2, WriteInv DEF TypeOK
-----------------------------------------------------------------------------
(* The actions of the requests.                                            *)

\* The calls a request may be made with.
LEMMA CallFact ==
    ASSUME NEW c \in Callers, NEW to \in Statuses \cup {"none"}, NEW reason \in BOOLEAN,
           NEW evidence \in BOOLEAN, NEW who \in Callers \cup {"none"},
           NEW priority \in Priorities, NEW op \in Operations
    PROVE  [op |-> op, to |-> to, reason |-> reason, evidence |-> evidence, who |-> who,
            priority |-> priority] \in Calls
BY DEF Calls

\* A request that arrives and has only its patch to write.
LEMMA ReceiveInv ==
    ASSUME IInv, NEW c \in Callers, NEW k \in Calls, NEW next \in {"write", "commit"},
           Receive(c, k, next),
           next = "commit" => ~Gone /\ k.to \in Statuses /\ Admits(ticket, k)
    PROVE  IInv'
<1>1. c \in Handlers /\ next \in PcValues /\ next # "transition"
  BY DEF Handlers, PcValues
<1>2. calls' \in 0 .. MaxCalls
  BY LifecycleAssumption DEF Receive, IInv, TypeOK
<1> QED
  BY <1>1, <1>2, ReadInv DEF Receive

LEMMA StartInv ==
    ASSUME IInv, NEW c \in Callers, Start(c)
    PROVE  IInv'
<1>0. ~Gone /\ StartAny(c)
  BY DEF Start
<1>1. CASE \E to \in Statuses, reason \in BOOLEAN, evidence \in BOOLEAN :
             StartTransition(c, to, reason, evidence)
  <2>1. PICK to \in Statuses, reason \in BOOLEAN, evidence \in BOOLEAN :
          StartTransition(c, to, reason, evidence)
    BY <1>1
  <2> DEFINE k == [NoCall EXCEPT !.op = "transition", !.to = to, !.reason = reason,
                                 !.evidence = evidence]
  <2>2. Admits(ticket, k) /\ Receive(c, k, "commit")
    BY <2>1 DEF StartTransition
  <2>3. k.op \in Operations
    BY <2>2 DEF Receive
  <2>4. k \in Calls /\ k.to \in Statuses
    BY <2>3 DEF NoCall, Calls, Priorities
  <2> HIDE DEF k
  <2> QED
    BY <1>0, <2>2, <2>4, ReceiveInv
<1>2. ASSUME NEW k \in Calls, Receive(c, k, "write") PROVE IInv'
  BY <1>2, ReceiveInv
<1>3. CASE \E who \in Callers : StartAssign(c, who)
  <2>1. PICK who \in Callers :
          Receive(c, [NoCall EXCEPT !.op = "assign", !.who = who], "write")
    BY <1>3 DEF StartAssign
  <2>2. [NoCall EXCEPT !.op = "assign", !.who = who] \in Calls
    BY <2>1 DEF Receive, NoCall, Calls, Priorities
  <2> QED
    BY <1>2, <2>1, <2>2
<1>4. CASE StartTake(c)
  <2>1. Receive(c, [NoCall EXCEPT !.op = "take", !.who = c], "write")
    BY <1>4 DEF StartTake
  <2>2. [NoCall EXCEPT !.op = "take", !.who = c] \in Calls
    BY <2>1 DEF Receive, NoCall, Calls, Priorities
  <2> QED
    BY <1>2, <2>1, <2>2
<1>5. CASE \E who \in Callers \cup {"none"} : StartEscalate(c, who)
  <2>1. PICK who \in Callers \cup {"none"} :
          Receive(c, [NoCall EXCEPT !.op = "escalate", !.who = who, !.reason = TRUE],
                  "write")
    BY <1>5 DEF StartEscalate
  <2>2. [NoCall EXCEPT !.op = "escalate", !.who = who, !.reason = TRUE] \in Calls
    BY <2>1 DEF Receive, NoCall, Calls, Priorities
  <2> QED
    BY <1>2, <2>1, <2>2
<1>6. CASE \E priority \in Priorities : StartFixPriority(c, priority)
  <2>1. PICK priority \in Priorities :
          Receive(c, [NoCall EXCEPT !.op = "fixPriority", !.priority = priority], "write")
    BY <1>6 DEF StartFixPriority
  <2>2. [NoCall EXCEPT !.op = "fixPriority", !.priority = priority] \in Calls
    BY <2>1 DEF Receive, NoCall, Calls
  <2> QED
    BY <1>2, <2>1, <2>2
<1>7. CASE \E impact \in Impacts, urgency \in Urgencies :
             StartRatePriority(c, impact, urgency) \/ StartTriage(c, impact, urgency)
  <2>1. PICK op \in {"ratePriority", "triage"}, priority \in Priorities :
          Receive(c, [NoCall EXCEPT !.op = op, !.priority = priority], "write")
    BY <1>7, DeriveFact DEF StartRatePriority, StartTriage
  <2>2. [NoCall EXCEPT !.op = op, !.priority = priority] \in Calls
    BY <2>1 DEF Receive, NoCall, Calls
  <2> QED
    BY <1>2, <2>1, <2>2
<1>8. CASE StartPost(c)
  <2>1. Receive(c, [NoCall EXCEPT !.op = "post"], "write")
    BY <1>8 DEF StartPost
  <2>2. [NoCall EXCEPT !.op = "post"] \in Calls
    BY <2>1 DEF Receive, NoCall, Calls, Priorities
  <2> QED
    BY <1>2, <2>1, <2>2
<1>9. CASE StartRemove(c)
  <2>1. Receive(c, [NoCall EXCEPT !.op = "remove"], "write")
    BY <1>9 DEF StartRemove
  <2>2. [NoCall EXCEPT !.op = "remove"] \in Calls
    BY <2>1 DEF Receive, NoCall, Calls, Priorities
  <2> QED
    BY <1>2, <2>1, <2>2
<1> QED
  BY <1>0, <1>1, <1>3, <1>4, <1>5, <1>6, <1>7, <1>8, <1>9 DEF StartAny
-----------------------------------------------------------------------------
(* The transactions.                                                       *)

\* What a handler has read, as a typed row with a clock that has not gone past
\* the present one.
LEMMA SawFact ==
    ASSUME IInv, NEW h \in Handlers
    PROVE  /\ saw[h] \in Tickets /\ call[h] \in Calls
           /\ readAt[h] \in Nat /\ clock \in Nat /\ readAt[h] <= clock
           /\ PausedFor(saw[h].pausedAt, readAt[h]) \in Nat
<1>1. saw[h] \in Tickets /\ call[h] \in Calls /\ readAt[h] \in 0 .. Horizon
  BY DEF IInv, TypeOK
<1>2. saw[h].pausedAt \in Nat \cup {NotPaused} /\ saw[h].pausedAt <= readAt[h]
  BY <1>1 DEF Tickets, IInv, ReadingHolds
<1>3. PausedFor(saw[h].pausedAt, readAt[h]) \in Nat
  BY <1>1, <1>2, LifecycleAssumption DEF PausedFor, NotPaused
<1> QED
  BY <1>1, <1>3, LifecycleAssumption DEF IInv, ReadingHolds, TypeOK

\* Ending a pause keeps the row well typed and touches nothing but its clock.
LEMMA ResumedFact ==
    ASSUME IInv, NEW h \in Handlers
    PROVE  /\ Resumed(ticket, h) \in Tickets
           /\ Resumed(ticket, h).pausedAt = NotPaused
           /\ Resumed(ticket, h).status = ticket.status
           /\ Resumed(ticket, h).answered = ticket.answered
           /\ Resumed(ticket, h).resolved = ticket.resolved
           /\ Resumed(ticket, h).evidence = ticket.evidence
           /\ Resumed(ticket, h).atRisk = ticket.atRisk
<1>1. ticket \in Tickets
  BY DEF IInv, TypeOK
<1>2. saw[h].pausedTotal \in Nat /\ saw[h].due \in Nat
  BY SawFact DEF Tickets
<1>3. /\ saw[h].pausedTotal + PausedFor(saw[h].pausedAt, readAt[h]) \in Nat
      /\ saw[h].due + PausedFor(saw[h].pausedAt, readAt[h]) \in Nat
  BY <1>2, SawFact
<1> QED
  BY <1>1, <1>3 DEF Resumed, Tickets

\* The same of the clock a transition leaves.
LEMMA ClockedFact ==
    ASSUME IInv, NEW h \in Handlers
    PROVE  /\ Clocked(ticket, h) \in Tickets
           /\ Clocked(ticket, h).pausedAt <= clock \/ Clocked(ticket, h) = ticket
           /\ call[h].to = "ESPERA_CLIENTE" => Clocked(ticket, h).pausedAt # NotPaused
           /\ Clocked(ticket, h).status = ticket.status
           /\ Clocked(ticket, h).answered = ticket.answered
           /\ Clocked(ticket, h).resolved = ticket.resolved
           /\ Clocked(ticket, h).evidence = ticket.evidence
           /\ Clocked(ticket, h).atRisk = ticket.atRisk
<1>1. ticket \in Tickets /\ readAt[h] \in Nat /\ clock \in Nat /\ readAt[h] <= clock
  BY SawFact DEF IInv, TypeOK
<1>2. CASE call[h].to = "ESPERA_CLIENTE"
  <2>1. Clocked(ticket, h) = [ticket EXCEPT !.pausedAt = readAt[h]]
    BY <1>2 DEF Clocked
  <2> QED
    BY <1>1, <1>2, <2>1 DEF Tickets, NotPaused
<1>3. CASE call[h].to # "ESPERA_CLIENTE" /\ EndsPause(saw[h].status, call[h].to)
  <2>1. Clocked(ticket, h) = Resumed(ticket, h)
    BY <1>3 DEF Clocked
  <2> QED
    BY <1>1, <1>3, <2>1, ResumedFact DEF NotPaused
<1>4. CASE call[h].to # "ESPERA_CLIENTE" /\ ~EndsPause(saw[h].status, call[h].to)
  <2>1. Clocked(ticket, h) = ticket
    BY <1>4 DEF Clocked
  <2> QED
    BY <1>1, <1>4, <2>1
<1> QED
  BY <1>2, <1>3, <1>4

\* The second half of a handler reads again, or is refused and stays so.
LEMMA FollowUpInv ==
    ASSUME IInv, NEW c \in Callers, FollowUp(c)
    PROVE  IInv'
<1>0. c \in Handlers /\ pc[c] = "transition" /\ TypeOK /\ ReadingHolds /\ RowHolds
  BY DEF FollowUp, Handlers, IInv
<1>1. CASE ~Gone /\ Admits(ticket, call[c])
  <2>1. call[c] \in Calls /\ call[c].to \in Statuses /\ calls \in 0 .. MaxCalls
    BY <1>0 DEF TypeOK, ReadingHolds
  <2>2. Read(c, call[c], "commit") /\ UNCHANGED <<clock, ticket, calls, history>>
    BY <1>1 DEF FollowUp
  <2>3. "commit" \in PcValues
    BY DEF PcValues
  <2> QED
    BY <1>0, <1>1, <2>1, <2>2, <2>3, ReadInv
<1>2. CASE ~(~Gone /\ Admits(ticket, call[c]))
  <2>1. /\ pc' = [pc EXCEPT ![c] = "refused"]
        /\ UNCHANGED <<call, saw, readAt, clock, ticket, calls, history>>
    BY <1>2 DEF FollowUp
  <2>2. TypeOK'
    BY <1>0, <2>1 DEF TypeOK, history
  <2>3. ReadingHolds'
    <3>1. \A h \in Handlers : pc'[h] \in {pc[h], "refused"}
      BY <1>0, <2>1 DEF TypeOK
    <3> QED
      BY <1>0, <2>1, <3>1 DEF ReadingHolds, Answered, Admits, HasEvidence
  <2>4. RowHolds'
    BY <1>0, <2>1 DEF RowHolds, Answered, StatusIsTold, Gone, ResolvedHasEvidence,
                      EscalatedHasReason, WaitingIsPaused, RiskFlagIsTold, history
  <2> QED
    BY <2>2, <2>3, <2>4 DEF IInv
<1> QED
  BY <1>1, <1>2

\* The transition brings along whatever its new status needs.
LEMMA CommitTransitionInv ==
    ASSUME IInv, NEW c \in Callers, CommitTransition(c)
    PROVE  IInv'
<1> DEFINE from == saw[c].status
           to   == call[c].to
<1>0. c \in Handlers /\ TypeOK /\ RowHolds /\ pc[c] = "commit"
  BY DEF IInv, Handlers, CommitTransition
<1>1. /\ from \in Statuses /\ to \in Statuses /\ Admits(saw[c], call[c])
      /\ Answered(saw[c]) /\ (saw[c].answered => ticket.answered)
  BY <1>0 DEF IInv, ReadingHolds
<1>2. /\ told' = [from |-> from, to |-> to, reason |-> call[c].reason]
      /\ spokeSince' = FALSE /\ Ends(c)
      /\ UNCHANGED <<clock, calls, riskTold>>
  BY DEF CommitTransition, TellStatus, Ends
<1>3. CASE Gone
  <2>1. ticket' = ticket
    BY <1>3 DEF CommitTransition, Update
  <2>2. ticket'.status = "GONE"
    BY <1>3, <2>1 DEF Gone
  <2>3. RowHolds'
    BY <1>0, <1>2, <2>1, <2>2 DEF RowHolds, Answered, StatusIsTold, Gone,
          ResolvedHasEvidence, EscalatedHasReason, WaitingIsPaused, RiskFlagIsTold
  <2>4. told' \in [from : Statuses \cup {"none"}, to : Statuses, reason : BOOLEAN]
    BY <1>0, <1>1, <1>2, SawFact DEF Calls
  <2> QED
    BY <1>0, <1>2, <2>1, <2>3, <2>4, WriteInv DEF TypeOK
<1>4. CASE ~Gone
  <2>1. ticket' = Moved(c)
    BY <1>4 DEF CommitTransition, Update
  <2>2. /\ Clocked(ticket, c) \in Tickets
        /\ call[c].evidence \in BOOLEAN /\ saw[c].evidence \in BOOLEAN
        /\ ticket \in Tickets /\ saw[c] \in Tickets /\ call[c].reason \in BOOLEAN
    BY <1>0, ClockedFact, SawFact DEF TypeOK, Calls, Tickets
  <2>3. /\ ticket'.status = to
        /\ ticket'.answered = (ticket.answered \/ to = "EN_ATENCION")
        /\ ticket'.resolved = ((ticket.resolved \/ to = "RESUELTO") /\ ~IsReopen(from, to))
        /\ ticket'.evidence = IF to = "RESUELTO" THEN call[c].evidence \/ saw[c].evidence
                              ELSE ticket.evidence
        /\ ticket'.pausedAt = Clocked(ticket, c).pausedAt
        /\ ticket'.atRisk = ticket.atRisk
    BY <1>0, <2>1, <2>2, ClockedFact DEF Moved, Tickets
  <2>4. ticket' \in Tickets
    <3>1. \E e, r, a \in BOOLEAN :
            ticket' = [Clocked(ticket, c) EXCEPT !.status = to, !.evidence = e,
                                                 !.resolved = r, !.answered = a]
      <4> DEFINE e == IF to = "RESUELTO" THEN call[c].evidence \/ saw[c].evidence
                      ELSE Clocked(ticket, c).evidence
                 r == (Clocked(ticket, c).resolved \/ to = "RESUELTO") /\ ~IsReopen(from, to)
                 a == Clocked(ticket, c).answered \/ to = "EN_ATENCION"
      <4>1. e \in BOOLEAN /\ r \in BOOLEAN /\ a \in BOOLEAN
        BY <2>2 DEF Tickets
      <4>2. ticket' = [Clocked(ticket, c) EXCEPT !.status = to, !.evidence = e,
                                                 !.resolved = r, !.answered = a]
        BY <2>1 DEF Moved
      <4> QED
        BY <4>1, <4>2
    <3> QED
      BY <1>1, <2>2, <3>1 DEF Tickets
  <2>5. told' \in [from : Statuses \cup {"none"}, to : Statuses, reason : BOOLEAN]
    BY <1>1, <1>2, <2>2
  <2>6. Answered(ticket)'
    BY <1>1, <2>3, TransitionFact DEF Answered, Admits
  <2>7. ticket'.pausedAt <= clock'
    BY <1>0, <1>2, <2>3, ClockedFact DEF RowHolds
  <2>8. StatusIsTold'
    BY <1>2, <2>3 DEF StatusIsTold
  <2>9. ResolvedHasEvidence'
    BY <1>1, <2>3 DEF ResolvedHasEvidence, Admits, HasEvidence, IsReopen
  <2>10. EscalatedHasReason'
    BY <1>1, <1>2, <2>3 DEF EscalatedHasReason, Admits, RequiresReason
  <2>11. WaitingIsPaused'
    BY <1>0, <1>1, <2>3, ClockedFact, TransitionFact DEF WaitingIsPaused, Admits, Answered
  <2>12. RiskFlagIsTold'
    BY <1>0, <1>2, <1>4, <2>3 DEF RowHolds, RiskFlagIsTold, Gone
  <2>13. RowHolds'
    BY <2>6, <2>7, <2>8, <2>9, <2>10, <2>11, <2>12 DEF RowHolds
  <2> QED
    BY <1>0, <1>2, <2>3, <2>4, <2>5, <2>13, WriteInv DEF TypeOK
<1> QED
  BY <1>3, <1>4

\* A handler whose reading is dropped may have left a call for the second half.
LEMMA EndsFact ==
    ASSUME IInv, NEW c \in Callers, NEW to \in Statuses,
           \/ Finish(c, "idle")
           \/ ThenTransition(c, [call[c] EXCEPT !.to = to])
    PROVE  Ends(c)
<1>1. call[c] \in Calls
  BY DEF IInv, TypeOK, Handlers
<1>2. [call[c] EXCEPT !.to = to] \in Calls /\ [call[c] EXCEPT !.to = to].to \in Statuses
  BY <1>1 DEF Calls
<1> QED
  BY <1>2 DEF Ends

\* An assignee, a priority or a due date is written over any row: what RowHolds
\* is about stays.
LEMMA PatchInv ==
    ASSUME IInv, NEW c \in Callers,
           \/ WriteAssign(c) \/ WriteTake(c) \/ WriteEscalate(c)
           \/ WritePriority(c) \/ WriteTriage(c)
    PROVE  IInv'
<1>0. c \in Handlers /\ ticket \in Tickets /\ call[c] \in Calls /\ saw[c] \in Tickets
  BY DEF IInv, TypeOK, Handlers
<1>1. spokeSince \in BOOLEAN
  BY DEF IInv, TypeOK
<1>2. {"ASIGNADO", "EN_ATENCION", "DERIVADO", "TRIAJE"} \subseteq Statuses
  BY DEF Statuses
<1>3. ASSUME NEW patched \in Tickets, Update(patched), Ends(c),
             \A f \in {"status", "answered", "resolved", "evidence", "pausedAt", "atRisk"} :
                patched[f] = ticket[f],
             UNCHANGED <<clock, calls, told, riskTold, spokeSince>>
      PROVE  IInv'
  <2>1. ticket' \in Tickets
    BY <1>0, <1>3 DEF Update
  <2>2. \A f \in {"status", "answered", "resolved", "evidence", "pausedAt", "atRisk"} :
          ticket'[f] = ticket[f]
    BY <1>3 DEF Update
  <2> QED
    BY <1>0, <1>1, <1>3, <2>1, <2>2, PlainPatchInv
<1>4. CASE WriteAssign(c)
  <2> DEFINE patched == [ticket EXCEPT !.assignee = call[c].who]
  <2>1. /\ Update(patched) /\ UNCHANGED <<clock, calls, history>>
        /\ Finish(c, "idle") \/ ThenTransition(c, [call[c] EXCEPT !.to = "ASIGNADO"])
    BY <1>4 DEF WriteAssign
  <2>2. patched \in Tickets /\ \A f \in {"status", "answered", "resolved", "evidence",
                                         "pausedAt", "atRisk"} : patched[f] = ticket[f]
    BY <1>0 DEF Tickets, Calls
  <2> HIDE DEF patched
  <2> QED
    BY <1>1, <1>2, <1>3, <2>1, <2>2, EndsFact DEF history
<1>5. CASE WriteTake(c)
  <2> DEFINE patched == [ticket EXCEPT !.assignee = call[c].who]
  <2>1. /\ Update(patched) /\ UNCHANGED <<clock, calls, history>>
        /\ ThenTransition(c, [call[c] EXCEPT !.to = "EN_ATENCION"])
    BY <1>5 DEF WriteTake
  <2>2. patched \in Tickets /\ \A f \in {"status", "answered", "resolved", "evidence",
                                         "pausedAt", "atRisk"} : patched[f] = ticket[f]
    BY <1>0 DEF Tickets, Calls
  <2> HIDE DEF patched
  <2> QED
    BY <1>1, <1>2, <1>3, <2>1, <2>2, EndsFact DEF history
<1>6. CASE WriteEscalate(c)
  <2> DEFINE who     == IF call[c].who = "none" THEN ticket.assignee ELSE call[c].who
             patched == [ticket EXCEPT !.assignee = who]
  <2>1. /\ Update(patched) /\ UNCHANGED <<clock, calls, history>>
        /\ ThenTransition(c, [call[c] EXCEPT !.to = "DERIVADO"])
    BY <1>6 DEF WriteEscalate
  <2>2. who \in Callers \cup {"none"}
    BY <1>0 DEF Tickets, Calls
  <2>3. patched \in Tickets /\ \A f \in {"status", "answered", "resolved", "evidence",
                                         "pausedAt", "atRisk"} : patched[f] = ticket[f]
    BY <1>0, <2>2 DEF Tickets
  <2> HIDE DEF patched
  <2> QED
    BY <1>1, <1>2, <1>3, <2>1, <2>3, EndsFact DEF history
<1>7. CASE WritePriority(c)
  <2> DEFINE byHand  == call[c].op = "fixPriority" \/ saw[c].overridden
             patched == [ticket EXCEPT !.priority = call[c].priority, !.overridden = byHand]
  <2>1. /\ Update(patched) /\ Finish(c, "idle")
        /\ UNCHANGED <<clock, calls, told, riskTold, spokeSince>>
    BY <1>7 DEF WritePriority
  <2>2. byHand \in BOOLEAN /\ call[c].priority \in Priorities
    BY <1>0 DEF Calls, Tickets
  <2>3. patched \in Tickets /\ \A f \in {"status", "answered", "resolved", "evidence",
                                         "pausedAt", "atRisk"} : patched[f] = ticket[f]
    BY <1>0, <2>2 DEF Tickets
  <2> HIDE DEF patched
  <2> QED
    BY <1>3, <2>1, <2>3 DEF Ends
<1>8. CASE WriteTriage(c)
  <2> DEFINE patched == IF Reclassifies(c)
                        THEN [ticket EXCEPT !.priority = call[c].priority,
                                            !.due = Window[call[c].priority]]
                        ELSE ticket
  <2>1. /\ Update(patched) /\ UNCHANGED <<clock, calls, history>>
        /\ Finish(c, "idle") \/ ThenTransition(c, [call[c] EXCEPT !.to = "TRIAJE"])
    BY <1>8 DEF WriteTriage
  <2>2. call[c].priority \in Priorities /\ Window[call[c].priority] \in Nat
    BY <1>0, LifecycleAssumption DEF Calls
  <2>3. patched \in Tickets /\ \A f \in {"status", "answered", "resolved", "evidence",
                                         "pausedAt", "atRisk"} : patched[f] = ticket[f]
    BY <1>0, <2>2 DEF Tickets
  <2> HIDE DEF patched
  <2> QED
    BY <1>1, <1>2, <1>3, <2>1, <2>3, EndsFact DEF history
<1> QED
  BY <1>4, <1>5, <1>6, <1>7, <1>8

\* The client's message: it wakes only the row it read as waiting, and that one
\* has had its first answer.
LEMMA WritePostInv ==
    ASSUME IInv, NEW c \in Callers, WritePost(c)
    PROVE  IInv'
<1>0. c \in Handlers /\ TypeOK /\ RowHolds /\ Ends(c)
  BY DEF IInv, Handlers, WritePost, Ends
<1>1. UNCHANGED <<clock, calls, riskTold>>
  BY DEF WritePost
<1>2. CASE Wakes(c) /\ StillThere(c)
  <2>1. ticket.status = "ESPERA_CLIENTE" /\ saw[c].status = "ESPERA_CLIENTE" /\ ~Gone
    BY <1>2 DEF Wakes, StillThere, Gone
  <2>2. /\ ticket' = [Resumed(ticket, c) EXCEPT !.status = "EN_ATENCION"]
        /\ told' = [from |-> saw[c].status, to |-> "EN_ATENCION", reason |-> FALSE]
        /\ spokeSince' = FALSE
    BY <1>2, <2>1 DEF WritePost, Update, TellStatus
  <2>3. ticket' \in Tickets
    BY <1>0, <2>2, ResumedFact DEF Tickets, Statuses
  <2>4. /\ ticket'.status = "EN_ATENCION" /\ ticket'.pausedAt = NotPaused
        /\ ticket'.answered = ticket.answered /\ ticket'.atRisk = ticket.atRisk
    BY <1>0, <2>2, ResumedFact DEF Tickets
  <2>5. ticket.answered
    BY <1>0, <2>1 DEF RowHolds, WaitingIsPaused
  <2>6. told' \in [from : Statuses \cup {"none"}, to : Statuses, reason : BOOLEAN]
    BY <2>1, <2>2 DEF Statuses
  <2>7. ticket'.pausedAt <= clock'
    <3>1. clock' \in Nat
      BY <1>0, <1>1, LifecycleAssumption DEF TypeOK
    <3> QED
      BY <2>4, <3>1 DEF NotPaused
  <2>8. RiskFlagIsTold'
    BY <1>0, <1>1, <2>1, <2>4 DEF RowHolds, RiskFlagIsTold, Gone
  <2>9. RowHolds'
    BY <2>2, <2>4, <2>5, <2>7, <2>8 DEF RowHolds, Answered, StatusIsTold,
       ResolvedHasEvidence, EscalatedHasReason, WaitingIsPaused
  <2> QED
    BY <1>0, <1>1, <2>2, <2>3, <2>4, <2>5, <2>6, <2>9, WriteInv DEF TypeOK
<1>3. CASE ~(Wakes(c) /\ StillThere(c))
  <2>1. ticket' = ticket /\ told' = told /\ spokeSince' = TRUE
    BY <1>3 DEF WritePost
  <2> QED
    BY <1>0, <1>1, <2>1, PlainPatchInv DEF TypeOK
<1> QED
  BY <1>2, <1>3

LEMMA WriteRemoveInv ==
    ASSUME IInv, NEW c \in Callers, WriteRemove(c)
    PROVE  IInv'
<1>0. c \in Handlers /\ TypeOK /\ RowHolds /\ Ends(c)
  BY DEF IInv, Handlers, WriteRemove, Ends
<1>1. ticket' = [ticket EXCEPT !.status = "GONE"] /\ UNCHANGED <<clock, calls, history>>
  BY DEF WriteRemove
<1>2. /\ ticket' \in Tickets /\ ticket'.status = "GONE"
      /\ ticket'.answered = ticket.answered /\ ticket'.pausedAt = ticket.pausedAt
  BY <1>0, <1>1 DEF TypeOK, Tickets
<1>3. RowHolds'
  BY <1>0, <1>1, <1>2 DEF RowHolds, Answered, StatusIsTold, Gone, ResolvedHasEvidence,
                          EscalatedHasReason, WaitingIsPaused, RiskFlagIsTold
<1> QED
  BY <1>0, <1>1, <1>2, <1>3, WriteInv DEF TypeOK, history

\* Flag and event come together, or neither does.
LEMMA MarkRiskInv ==
    ASSUME IInv, NEW s \in Scans, MarkRisk(s)
    PROVE  IInv'
<1>0. s \in Handlers /\ TypeOK /\ RowHolds /\ Ends(s)
  BY DEF IInv, Handlers, MarkRisk, Ends
<1>1. UNCHANGED <<clock, calls, told, spokeSince>>
  BY DEF MarkRisk
<1>2. CASE UNCHANGED <<ticket, riskTold>>
  BY <1>0, <1>1, <1>2, PlainPatchInv DEF TypeOK
<1>3. CASE ~UNCHANGED <<ticket, riskTold>>
  <2>1. /\ ticket' = IF Gone THEN ticket ELSE [ticket EXCEPT !.atRisk = TRUE]
        /\ riskTold' \in 1 .. 2
    BY <1>0, <1>3 DEF MarkRisk, FlagRisk, Update, TypeOK
  <2>2. /\ ticket' \in Tickets /\ ticket'.status = ticket.status
        /\ ticket'.answered = ticket.answered /\ ticket'.pausedAt = ticket.pausedAt
        /\ ticket'.evidence = ticket.evidence /\ ticket'.resolved = ticket.resolved
        /\ ~Gone => ticket'.atRisk
    BY <1>0, <2>1 DEF TypeOK, Tickets
  <2>3. RowHolds'
    BY <1>0, <1>1, <2>1, <2>2 DEF RowHolds, Answered, StatusIsTold, Gone,
       ResolvedHasEvidence, EscalatedHasReason, WaitingIsPaused, RiskFlagIsTold
  <2>4. riskTold' \in 0 .. 2
    BY <2>1
  <2> QED
    BY <1>0, <1>1, <2>2, <2>3, <2>4, WriteInv DEF TypeOK
<1> QED
  BY <1>2, <1>3

LEMMA ListForRiskInv ==
    ASSUME IInv, NEW s \in Scans, ListForRisk(s)
    PROVE  IInv'
<1>1. s \in Handlers /\ "scan" \in PcValues /\ NoCall \in Calls
  BY NoneFact DEF Handlers, PcValues
<1>2. Read(s, NoCall, "scan") /\ UNCHANGED <<clock, ticket, calls, history>>
  BY DEF ListForRisk
<1>3. calls' \in 0 .. MaxCalls
  BY <1>2 DEF IInv, TypeOK
<1> QED
  BY <1>1, <1>2, <1>3, ReadInv

LEMMA FailInv ==
    ASSUME IInv, NEW h \in Handlers, Fail(h)
    PROVE  IInv'
<1>1. UNCHANGED <<clock, ticket, calls, history>> /\ Ends(h)
  BY DEF Fail, Ends
<1> QED
  BY <1>1, PlainPatchInv DEF IInv, TypeOK, history

\* The clock only goes forward, so no reading becomes one of the future.
LEMMA TickInv == IInv /\ Tick => IInv'
<1> SUFFICES ASSUME IInv, Tick PROVE IInv'
  OBVIOUS
<1>0. TypeOK /\ ReadingHolds /\ RowHolds /\ UNCHANGED <<ticket, handler, calls, history>>
  BY DEF IInv, Tick
<1>1. clock \in Nat /\ clock' \in 0 .. Horizon /\ clock <= clock'
  BY <1>0, LifecycleAssumption DEF TypeOK, Tick
<1>2. TypeOK'
  BY <1>0, <1>1 DEF TypeOK, handler, history
<1>3. ReadingHolds'
  <2> SUFFICES ASSUME NEW h \in Handlers PROVE readAt'[h] <= clock'
    BY <1>0 DEF ReadingHolds, Answered, Admits, HasEvidence, handler
  <2>1. readAt'[h] = readAt[h] /\ readAt[h] \in Nat /\ readAt[h] <= clock
    BY <1>0, LifecycleAssumption DEF handler, TypeOK, ReadingHolds
  <2> QED
    BY <1>1, <2>1
<1>4. RowHolds'
  <2>1. ticket.pausedAt \in Int /\ ticket.pausedAt <= clock
    BY <1>0 DEF TypeOK, Tickets, RowHolds, NotPaused
  <2> QED
    BY <1>0, <1>1, <2>1 DEF RowHolds, Answered, StatusIsTold, Gone, ResolvedHasEvidence,
       EscalatedHasReason, WaitingIsPaused, RiskFlagIsTold, history
<1> QED
  BY <1>2, <1>3, <1>4 DEF IInv

LEMMA StutterInv == IInv /\ UNCHANGED vars => IInv'
BY DEF IInv, TypeOK, ReadingHolds, RowHolds, Answered, Admits, HasEvidence, StatusIsTold, Gone,
       ResolvedHasEvidence, EscalatedHasReason, WaitingIsPaused, RiskFlagIsTold, vars, handler,
       history
-----------------------------------------------------------------------------
LEMMA NextInv == IInv /\ [Next]_vars => IInv'
<1> SUFFICES ASSUME IInv, [Next]_vars PROVE IInv'
  OBVIOUS
<1>1. CASE Tick
  BY <1>1, TickInv
<1>2. ASSUME NEW c \in Callers, Start(c) PROVE IInv'
  BY <1>2, StartInv
<1>3. ASSUME NEW c \in Callers, Write(c) PROVE IInv'
  BY <1>3, CommitTransitionInv, FollowUpInv, PatchInv, WritePostInv, WriteRemoveInv DEF Write
<1>4. ASSUME NEW s \in Scans, ListForRisk(s) \/ MarkRisk(s) PROVE IInv'
  BY <1>4, ListForRiskInv, MarkRiskInv
<1>5. ASSUME NEW h \in Handlers, Fail(h) PROVE IInv'
  BY <1>5, FailInv
<1>6. CASE UNCHANGED vars
  BY <1>6, StutterInv
<1> QED
  BY <1>1, <1>2, <1>3, <1>4, <1>5, <1>6 DEF Next

LEMMA Invariance == Spec => []IInv
BY InitInv, NextInv, PTL DEF Spec

\* Every variable keeps its type: in particular the due date and the paused
\* minutes never go below zero, though they are computed from old readings.
THEOREM TypeCorrect == Spec => []TypeOK
<1>1. IInv => TypeOK
  BY DEF IInv
<1> QED
  BY <1>1, Invariance, PTL

\* The timeline and the row agree, however many handlers interleave.
THEOREM TimelineAgrees == Spec => []StatusIsTold
<1>1. IInv => StatusIsTold
  BY DEF IInv, RowHolds
<1> QED
  BY <1>1, Invariance, PTL

\* A ticket is not resolved without evidence in its own row, nor escalated without a reason, nor
\* waiting with its clock running, although the checks are made on an earlier reading of it.
THEOREM FactsHold == Spec => []StatusHasItsFacts
<1>1. IInv => StatusHasItsFacts
  BY DEF IInv, RowHolds, StatusHasItsFacts
<1> QED
  BY <1>1, Invariance, PTL

\* The flag of risk and its event in the timeline are both there or neither is.
THEOREM RiskIsToldWithItsFlag == Spec => []RiskFlagIsTold
<1>1. IInv => RiskFlagIsTold
  BY DEF IInv, RowHolds
<1> QED
  BY <1>1, Invariance, PTL

\* A message that changes the status of the ticket found it waiting for the
\* client, in any state of the others: the UPDATE is conditional.
THEOREM MessagesOnlyWake == Spec => MessageOnlyWakes
<1>1. IInv /\ [Next]_vars
        => [\A c \in Callers : call[c].op = "post" /\ ticket'.status # ticket.status
                               /\ pc[c] = "write" /\ pc'[c] = "idle"
              => ticket.status = "ESPERA_CLIENTE"]_vars
  <2> SUFFICES ASSUME IInv, Next, NEW c \in Callers, call[c].op = "post",
                      ticket'.status # ticket.status, pc[c] = "write", pc'[c] = "idle"
               PROVE  ticket.status = "ESPERA_CLIENTE"
    OBVIOUS
  <2>0. TypeOK /\ ticket' # ticket /\ c \in Handlers
    BY DEF IInv, Handlers
  <2>1. CASE Tick
    BY <2>0, <2>1 DEF Tick
  <2>2. ASSUME NEW b \in Callers, Start(b) PROVE FALSE
    BY <2>0, <2>2 DEF Start, StartAny, StartTransition, StartAssign, StartTake, StartEscalate,
       StartFixPriority, StartRatePriority, StartTriage, StartPost, StartRemove, Receive
  <2>3. ASSUME NEW b \in Callers, Write(b), b # c PROVE FALSE
    <3>1. b \in Handlers /\ pc'[c] = pc[c]
      BY <2>0, <2>3 DEF Handlers, TypeOK, Write, CommitTransition, FollowUp, WriteAssign,
         WriteTake, WriteEscalate, WritePriority, WriteTriage, WritePost, WriteRemove, Finish,
         ThenTransition, Read
    <3> QED
      BY <3>1
  <2>4. CASE Write(c)
    <3>1. WritePost(c)
      BY <2>4 DEF Write, CommitTransition, FollowUp, WriteAssign, WriteTake, WriteEscalate,
         WritePriority, WriteTriage, WriteRemove
    <3> QED
      BY <2>0, <3>1 DEF WritePost, Wakes, StillThere
  <2>5. ASSUME NEW s \in Scans, ListForRisk(s) \/ MarkRisk(s) PROVE FALSE
    <3>1. s \in Handlers /\ s # c
      BY LifecycleAssumption DEF Handlers
    <3> QED
      BY <2>0, <2>5, <3>1 DEF ListForRisk, MarkRisk, Finish, TypeOK
  <2>6. ASSUME NEW h \in Handlers, Fail(h) PROVE FALSE
    BY <2>0, <2>6 DEF Fail
  <2> QED
    BY <2>1, <2>2, <2>3, <2>4, <2>5, <2>6 DEF Next
<1> QED
  BY <1>1, Invariance, PTL DEF Spec, MessageOnlyWakes
-----------------------------------------------------------------------------
(* What depends on who else is at work: the due date, which only triage    *)
(* computes from nothing, and the promises that hold while requests come   *)
(* one at a time.                                                          *)

\* A handler between its reading and the write it decided on.
Halfway == {"commit", "write"}

\* A step that changes neither the status, nor the clock, nor who spoke last; and a handler that
\* is halfway after it has just read, or was there with the same reading.
Quiet ==
    /\ ticket'.status = ticket.status
    /\ ticket'.pausedAt = ticket.pausedAt
    /\ spokeSince' = spokeSince
    /\ \A c \in Callers :
         pc'[c] \in Halfway => saw'[c] = ticket \/ (pc[c] \in Halfway /\ saw'[c] = saw[c])

SameDue == ticket'.due = ticket.due /\ ticket'.pausedTotal = ticket.pausedTotal

\* A reading of the row, by whoever it is.
LEMMA ReadQuiet ==
    ASSUME IInv, NEW h \in Handlers, NEW k, NEW next, Read(h, k, next),
           UNCHANGED <<ticket, history>>
    PROVE  Quiet /\ SameDue
<1>1. TypeOK /\ Callers \subseteq Handlers
  BY DEF IInv, Handlers
<1>2. ASSUME NEW c \in Callers, pc'[c] \in Halfway
      PROVE  saw'[c] = ticket \/ (pc[c] \in Halfway /\ saw'[c] = saw[c])
  BY <1>1, <1>2 DEF TypeOK, Read
<1> QED
  BY <1>2 DEF Quiet, SameDue, history

\* The end of a handler, or of its first transaction, over a row that keeps its status and clock.
LEMMA EndQuiet ==
    ASSUME IInv, NEW h \in Handlers, Ends(h),
           ticket'.status = ticket.status, ticket'.pausedAt = ticket.pausedAt,
           spokeSince' = spokeSince
    PROVE  Quiet
<1>1. TypeOK /\ Callers \subseteq Handlers
  BY DEF IInv, Handlers
<1>2. ASSUME NEW c \in Callers, pc'[c] \in Halfway
      PROVE  pc[c] \in Halfway /\ saw'[c] = saw[c]
  BY <1>1, <1>2 DEF TypeOK, Ends, Finish, ThenTransition, Halfway
<1> QED
  BY <1>2 DEF Quiet

LEMMA StartQuiet ==
    ASSUME IInv, NEW c \in Callers, Start(c)
    PROVE  Quiet /\ SameDue
<1>1. \E k, next : Read(c, k, next) /\ UNCHANGED <<ticket, history>>
  BY DEF Start, StartAny, StartTransition, StartAssign, StartTake, StartEscalate,
         StartFixPriority, StartRatePriority, StartTriage, StartPost, StartRemove, Receive
<1> QED
  BY <1>1, ReadQuiet DEF Handlers

LEMMA FollowUpQuiet ==
    ASSUME IInv, NEW c \in Callers, FollowUp(c)
    PROVE  Quiet /\ SameDue
<1>1. CASE ~Gone /\ Admits(ticket, call[c])
  BY <1>1, ReadQuiet DEF FollowUp, Handlers
<1>2. CASE ~(~Gone /\ Admits(ticket, call[c]))
  <2>1. TypeOK /\ Callers \subseteq Handlers
    BY DEF IInv, Handlers
  <2>2. /\ pc' = [pc EXCEPT ![c] = "refused"]
        /\ UNCHANGED <<saw, ticket, history>>
    BY <1>2 DEF FollowUp
  <2>3. ASSUME NEW b \in Callers, pc'[b] \in Halfway
        PROVE  pc[b] \in Halfway /\ saw'[b] = saw[b]
    BY <2>1, <2>2, <2>3 DEF TypeOK, Halfway
  <2> QED
    BY <2>2, <2>3 DEF Quiet, SameDue, history
<1> QED
  BY <1>1, <1>2

\* The patches of one column or two; only triage computes the due date again.
LEMMA PatchQuiet ==
    ASSUME IInv, NEW c \in Callers,
           \/ WriteAssign(c) \/ WriteTake(c) \/ WriteEscalate(c)
           \/ WritePriority(c) \/ WriteTriage(c)
    PROVE  Quiet /\ ("triage" \notin Operations => SameDue)
<1>1. c \in Handlers /\ ticket \in Tickets /\ call[c] \in Calls
  BY DEF IInv, TypeOK, Handlers
<1>2. {"ASIGNADO", "EN_ATENCION", "DERIVADO", "TRIAJE"} \subseteq Statuses
  BY DEF Statuses
<1>3. Ends(c)
  BY <1>2, EndsFact DEF WriteAssign, WriteTake, WriteEscalate, WritePriority, WriteTriage, Ends
<1>4. spokeSince' = spokeSince
  BY DEF WriteAssign, WriteTake, WriteEscalate, WritePriority, WriteTriage, history
<1>5. ticket'.status = ticket.status /\ ticket'.pausedAt = ticket.pausedAt
  BY <1>1 DEF WriteAssign, WriteTake, WriteEscalate, WritePriority, WriteTriage, Update, Tickets
<1>6. ASSUME "triage" \notin Operations PROVE SameDue
  <2>1. ~WriteTriage(c)
    BY <1>1, <1>6 DEF WriteTriage, Calls
  <2> QED
    BY <1>1, <2>1 DEF WriteAssign, WriteTake, WriteEscalate, WritePriority, Update, Tickets,
                      SameDue
<1> QED
  BY <1>1, <1>3, <1>4, <1>5, <1>6, EndQuiet

LEMMA MarkRiskQuiet ==
    ASSUME IInv, NEW s \in Scans, MarkRisk(s)
    PROVE  Quiet /\ SameDue
<1>1. s \in Handlers /\ ticket \in Tickets /\ Ends(s) /\ spokeSince' = spokeSince
  BY DEF IInv, TypeOK, Handlers, MarkRisk, Ends
<1>2. /\ ticket'.status = ticket.status /\ ticket'.pausedAt = ticket.pausedAt
      /\ SameDue
  BY <1>1 DEF MarkRisk, FlagRisk, Update, Tickets, SameDue
<1> QED
  BY <1>1, <1>2, EndQuiet

\* Every step is quiet but three: a transition, a message and a removal.
LEMMA QuietSteps ==
    ASSUME IInv, [Next]_vars
    PROVE  \/ Quiet /\ ("triage" \notin Operations => SameDue)
           \/ \E c \in Callers : CommitTransition(c) \/ WritePost(c) \/ WriteRemove(c)
<1>1. ASSUME UNCHANGED <<ticket, handler, history>> PROVE Quiet /\ SameDue
  BY <1>1 DEF Quiet, SameDue, handler, history
<1>2. CASE Tick
  BY <1>1, <1>2 DEF Tick
<1>3. CASE UNCHANGED vars
  BY <1>1, <1>3 DEF vars
<1>4. ASSUME NEW c \in Callers, Start(c) PROVE Quiet /\ SameDue
  BY <1>4, StartQuiet
<1>5. ASSUME NEW c \in Callers, Write(c),
             ~(CommitTransition(c) \/ WritePost(c) \/ WriteRemove(c))
      PROVE  Quiet /\ ("triage" \notin Operations => SameDue)
  BY <1>5, FollowUpQuiet, PatchQuiet DEF Write
<1>6. ASSUME NEW s \in Scans, ListForRisk(s) PROVE Quiet /\ SameDue
  BY <1>6, ReadQuiet DEF ListForRisk, Handlers
<1>7. ASSUME NEW s \in Scans, MarkRisk(s) PROVE Quiet /\ SameDue
  BY <1>7, MarkRiskQuiet
<1>8. ASSUME NEW h \in Handlers, Fail(h) PROVE Quiet /\ SameDue
  <2>1. UNCHANGED <<ticket, history>> /\ Ends(h)
    BY <1>8 DEF Fail, Ends
  <2> QED
    BY <2>1, EndQuiet DEF SameDue, history
<1> QED
  BY <1>2, <1>3, <1>4, <1>5, <1>6, <1>7, <1>8 DEF Next
-----------------------------------------------------------------------------
\* A due date that is an original deadline and the pauses there have been.
Kept(t) == \E p \in Priorities : t.due = Window[p] + t.pausedTotal

DueInv == Kept(ticket) /\ \A c \in Callers : pc[c] \in Halfway => Kept(saw[c])

\* A pause that ends moves the due date and the total of the reading by as much.
LEMMA ResumedKept ==
    ASSUME IInv, NEW c \in Callers, Kept(saw[c])
    PROVE  Kept(Resumed(ticket, c))
<1>1. c \in Handlers /\ ticket \in Tickets
  BY DEF IInv, TypeOK, Handlers
<1>2. /\ saw[c].due \in Nat /\ saw[c].pausedTotal \in Nat
      /\ PausedFor(saw[c].pausedAt, readAt[c]) \in Nat
  BY <1>1, SawFact DEF Tickets
<1>3. PICK p \in Priorities : saw[c].due = Window[p] + saw[c].pausedTotal
  BY DEF Kept
<1>4. Window[p] \in Nat
  BY LifecycleAssumption
<1>5. /\ Resumed(ticket, c).due = saw[c].due + PausedFor(saw[c].pausedAt, readAt[c])
      /\ Resumed(ticket, c).pausedTotal
           = saw[c].pausedTotal + PausedFor(saw[c].pausedAt, readAt[c])
  BY <1>1 DEF Resumed, Tickets
<1>6. Resumed(ticket, c).due = Window[p] + Resumed(ticket, c).pausedTotal
  BY <1>2, <1>3, <1>4, <1>5
<1> QED
  BY <1>6 DEF Kept

LEMMA DueNext ==
    ASSUME "triage" \notin Operations, IInv, DueInv, [Next]_vars
    PROVE  DueInv'
<1>1. CASE Quiet /\ SameDue
  BY <1>1 DEF DueInv, Kept, Quiet, SameDue
<1>2. ASSUME NEW c \in Callers, CommitTransition(c) \/ WritePost(c) \/ WriteRemove(c)
      PROVE  DueInv'
  <2>1. c \in Handlers /\ TypeOK /\ Callers \subseteq Handlers
    BY DEF IInv, Handlers
  <2>2. Finish(c, "idle") /\ pc[c] \in Halfway
    BY <1>2 DEF CommitTransition, WritePost, WriteRemove, Halfway
  <2>3. \A b \in Callers : pc'[b] \in Halfway => pc[b] \in Halfway /\ saw'[b] = saw[b]
    BY <2>1, <2>2 DEF TypeOK, Finish, Halfway
  <2>4. Kept(saw[c]) /\ Kept(Resumed(ticket, c))
    BY <2>2, ResumedKept DEF DueInv
  <2>5. Kept(ticket')
    <3>1. CASE CommitTransition(c)
      <4>1. Kept(Clocked(ticket, c)) /\ Clocked(ticket, c) \in Tickets
        <5>1. ticket \in Tickets /\ Kept(ticket) /\ Clocked(ticket, c) \in Tickets
          BY <2>1, ClockedFact DEF TypeOK, DueInv
        <5> QED
          BY <2>4, <5>1 DEF Clocked, Kept, Tickets
      <4>2. Kept(Moved(c))
        BY <4>1 DEF Moved, Kept, Tickets
      <4> QED
        BY <3>1, <4>2 DEF CommitTransition, Update, DueInv
    <3>2. CASE WritePost(c)
      <4>1. Kept([Resumed(ticket, c) EXCEPT !.status = "EN_ATENCION"])
        BY <2>1, <2>4, ResumedFact DEF Kept, Tickets
      <4> QED
        BY <3>2, <4>1 DEF WritePost, Update, DueInv
    <3>3. CASE WriteRemove(c)
      BY <2>1, <3>3 DEF WriteRemove, TypeOK, Tickets, Kept, DueInv
    <3> QED
      BY <1>2, <3>1, <3>2, <3>3
  <2> QED
    BY <2>3, <2>5 DEF DueInv, Kept
<1> QED
  BY <1>1, <1>2, QuietSteps

\* While nobody triages, taking the pauses away from the due date gives back an original deadline,
\* for any number of transitions and messages in flight: a pause ended twice from the same reading
\* is counted once, in both columns.
THEOREM DueDatesKeepPauses == "triage" \notin Operations /\ Spec => []DueKeepsPauses
<1> SUFFICES ASSUME "triage" \notin Operations PROVE Spec => []DueKeepsPauses
  OBVIOUS
<1>1. Init => DueInv
  <2> SUFFICES ASSUME Init PROVE DueInv
    OBVIOUS
  <2>1. PICK p \in Priorities :
          ticket = [NoTicket EXCEPT !.status = "NUEVO", !.priority = p, !.due = Window[p]]
    BY DEF Init
  <2>2. Window[p] \in Nat
    BY LifecycleAssumption
  <2>3. ticket.due = Window[p] + ticket.pausedTotal
    BY <2>1, <2>2 DEF NoTicket
  <2>4. \A c \in Callers : pc[c] = "idle"
    BY DEF Init, Handlers
  <2> QED
    BY <2>3, <2>4 DEF DueInv, Kept, Halfway
<1>2. IInv /\ DueInv /\ [Next]_vars => DueInv'
  BY DueNext
<1>3. DueInv => DueKeepsPauses
  BY DEF DueInv, Kept, DueKeepsPauses
<1> QED
  BY <1>1, <1>2, <1>3, Invariance, PTL DEF Spec
-----------------------------------------------------------------------------
(* Requests one at a time, with scans beside them.                         *)

Alone == \A a, b \in Callers : a = b

\* The handler that is halfway still sees the row as it is, clock and speaker included.
AloneInv ==
    /\ \A c \in Callers : pc[c] \in Halfway => saw[c].status = ticket.status
    /\ ClockStopsOnlyWaiting
    /\ NoSleepingAnswer

LEMMA AloneWrites ==
    ASSUME Alone, IInv, AloneInv, NEW c \in Callers,
           CommitTransition(c) \/ WritePost(c) \/ WriteRemove(c)
    PROVE  AloneInv'
<1>1. c \in Handlers /\ TypeOK /\ ticket \in Tickets
  BY DEF IInv, TypeOK, Handlers
<1>2. Finish(c, "idle") /\ pc[c] \in Halfway /\ saw[c].status = ticket.status
  BY DEF CommitTransition, WritePost, WriteRemove, Halfway, AloneInv
<1>3. \A b \in Callers : pc'[b] \notin Halfway
  BY <1>1, <1>2 DEF TypeOK, Finish, Halfway, Alone
<1>4. CASE CommitTransition(c)
  <2>1. saw[c].status \in Statuses /\ call[c].to \in Statuses /\ ~Gone
    BY <1>1, <1>2, <1>4 DEF IInv, ReadingHolds, CommitTransition, Gone, Statuses
  <2>2. ticket' = Moved(c) /\ spokeSince' = FALSE
    BY <1>4, <2>1 DEF CommitTransition, Update, TellStatus
  <2>3. Clocked(ticket, c) \in Tickets
    BY <1>1, ClockedFact
  <2>4. ticket'.status = call[c].to /\ ticket'.pausedAt = Clocked(ticket, c).pausedAt
    BY <2>2, <2>3 DEF Moved, Tickets
  <2>5. call[c].to # "ESPERA_CLIENTE" => Clocked(ticket, c).pausedAt = NotPaused
    <3> SUFFICES ASSUME call[c].to # "ESPERA_CLIENTE"
                 PROVE  Clocked(ticket, c).pausedAt = NotPaused
      OBVIOUS
    <3>1. CASE EndsPause(saw[c].status, call[c].to)
      <4>1. Clocked(ticket, c) = Resumed(ticket, c)
        BY <3>1 DEF Clocked
      <4> QED
        BY <1>1, <4>1 DEF Resumed, Tickets
    <3>2. CASE ~EndsPause(saw[c].status, call[c].to)
      <4>1. ticket.pausedAt = NotPaused
        BY <1>2, <2>1, <3>2 DEF EndsPause, AloneInv, ClockStopsOnlyWaiting, Gone
      <4> QED
        BY <3>2, <4>1 DEF Clocked
    <3> QED
      BY <3>1, <3>2
  <2> QED
    BY <1>3, <2>2, <2>4, <2>5 DEF AloneInv, ClockStopsOnlyWaiting, NoSleepingAnswer
<1>5. CASE WritePost(c) /\ Wakes(c)
  <2>1. StillThere(c) /\ ~Gone
    BY <1>2, <1>5 DEF StillThere, Wakes, Gone
  <2>2. ticket' = [Resumed(ticket, c) EXCEPT !.status = "EN_ATENCION"] /\ spokeSince' = FALSE
    BY <1>5, <2>1 DEF WritePost, Update, TellStatus
  <2>3. ticket'.pausedAt = NotPaused
    BY <1>1, <2>2 DEF Resumed, Tickets
  <2> QED
    BY <1>3, <2>2, <2>3 DEF AloneInv, ClockStopsOnlyWaiting, NoSleepingAnswer
<1>6. CASE WritePost(c) /\ ~Wakes(c)
  <2>1. ticket' = ticket /\ ticket.status # "ESPERA_CLIENTE"
    BY <1>2, <1>6 DEF WritePost, Wakes
  <2> QED
    BY <1>3, <2>1 DEF AloneInv, ClockStopsOnlyWaiting, NoSleepingAnswer
<1>7. CASE WriteRemove(c)
  <2>1. ticket'.status = "GONE"
    BY <1>1, <1>7 DEF WriteRemove, Tickets
  <2> QED
    BY <1>3, <2>1 DEF AloneInv, ClockStopsOnlyWaiting, NoSleepingAnswer
<1> QED
  BY <1>4, <1>5, <1>6, <1>7

LEMMA AloneNext ==
    ASSUME Alone, IInv, AloneInv, [Next]_vars
    PROVE  AloneInv'
<1>1. CASE Quiet
  BY <1>1 DEF Quiet, AloneInv, ClockStopsOnlyWaiting, NoSleepingAnswer
<1> QED
  BY <1>1, QuietSteps, AloneWrites

LEMMA AloneInvariance == Alone /\ Spec => [](IInv /\ AloneInv)
<1> SUFFICES ASSUME Alone PROVE Spec => [](IInv /\ AloneInv)
  OBVIOUS
<1>1. Init => AloneInv
  <2> SUFFICES ASSUME Init PROVE AloneInv
    OBVIOUS
  <2>1. ticket.pausedAt = NotPaused /\ spokeSince = FALSE /\ \A c \in Callers : pc[c] = "idle"
    BY DEF Init, NoTicket, Handlers
  <2> QED
    BY <2>1 DEF AloneInv, ClockStopsOnlyWaiting, NoSleepingAnswer, Halfway
<1>2. IInv /\ AloneInv /\ [Next]_vars => AloneInv'
  BY AloneNext
<1> QED
  BY <1>1, <1>2, Invariance, PTL DEF Spec

\* With requests one at a time, and any number of scans beside them, the clock of a ticket is
\* stopped only while it waits for its client.
THEOREM AloneClockStopsOnlyWaiting == Alone /\ Spec => []ClockStopsOnlyWaiting
<1>1. AloneInv => ClockStopsOnlyWaiting
  BY DEF AloneInv
<1> QED
  BY <1>1, AloneInvariance, PTL

\* With requests one at a time, no ticket waits for a client who has already written.
THEOREM AloneNoSleepingAnswer == Alone /\ Spec => []NoSleepingAnswer
<1>1. AloneInv => NoSleepingAnswer
  BY DEF AloneInv
<1> QED
  BY <1>1, AloneInvariance, PTL

\* With requests one at a time, the row makes only the moves of the state machine, each with the
\* reason it requires: the check made on a reading is true of the row that is written.
THEOREM AloneOnlyLegalMoves == Alone /\ Spec => OnlyLegalMoves
<1> SUFFICES ASSUME Alone PROVE Spec => OnlyLegalMoves
  OBVIOUS
<1>1. IInv /\ AloneInv /\ [Next]_vars
        => [ticket'.status \notin {ticket.status, "GONE"}
              => /\ CanTransition(ticket.status, ticket'.status)
                 /\ RequiresReason(ticket.status, ticket'.status) => told'.reason]_vars
  <2> SUFFICES ASSUME IInv, AloneInv, Next, ticket'.status \notin {ticket.status, "GONE"}
               PROVE  /\ CanTransition(ticket.status, ticket'.status)
                      /\ RequiresReason(ticket.status, ticket'.status) => told'.reason
    OBVIOUS
  <2>1. PICK c \in Callers : CommitTransition(c) \/ WritePost(c) \/ WriteRemove(c)
    BY QuietSteps DEF Quiet
  <2>2. c \in Handlers /\ TypeOK /\ ticket \in Tickets /\ saw[c].status = ticket.status
    BY <2>1 DEF IInv, TypeOK, Handlers, CommitTransition, WritePost, WriteRemove, Halfway,
                AloneInv
  <2>3. CASE CommitTransition(c)
    <3>1. saw[c].status \in Statuses /\ Admits(saw[c], call[c])
      BY <2>2, <2>3 DEF IInv, ReadingHolds, CommitTransition
    <3>2. ticket' = Moved(c) /\ told'.reason = call[c].reason
      BY <2>2, <2>3, <3>1 DEF CommitTransition, Update, TellStatus, Gone, Statuses
    <3>3. ticket'.status = call[c].to
      BY <2>2, <3>2, ClockedFact DEF Moved, Tickets
    <3> QED
      BY <2>2, <3>1, <3>2, <3>3 DEF Admits
  <2>4. CASE WritePost(c)
    <3>1. ticket.status = "ESPERA_CLIENTE"
      BY <2>2, <2>4 DEF WritePost, Wakes
    <3>2. ticket'.status = "EN_ATENCION"
      BY <2>2, <2>4, <3>1, ResumedFact DEF WritePost, Update, Gone, Tickets
    <3>3. /\ CanTransition("ESPERA_CLIENTE", "EN_ATENCION")
          /\ ~RequiresReason("ESPERA_CLIENTE", "EN_ATENCION")
      BY DEF CanTransition, RequiresReason, Transitions, IsCancellation, IsReopen
    <3> QED
      BY <3>1, <3>2, <3>3
  <2>5. CASE WriteRemove(c)
    BY <2>2, <2>5 DEF WriteRemove, Tickets
  <2> QED
    BY <2>1, <2>3, <2>4, <2>5
<1> QED
  BY <1>1, AloneInvariance, PTL DEF Spec, OnlyLegalMoves
=============================================================================
