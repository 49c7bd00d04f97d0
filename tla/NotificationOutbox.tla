------------------------- MODULE NotificationOutbox -------------------------
(***************************************************************************)
(* The outbox of ticket notifications.  Handlers commit rows in            *)
(* `ticket_events`; NotificationScheduler drains the pending ones every    *)
(* minute, hands each to NotificationDispatcher (one SMTP delivery per     *)
(* audience of its plan) and writes the outcome back with one UPDATE per   *)
(* row, outside any transaction.  What it knows of failing UPDATEs lives   *)
(* in memory and dies with the process.                                    *)
(*                                                                         *)
(* Time is counted in minutes and kept relative: wait[e] is what is left   *)
(* until notify_next_attempt_at (0 when it is null or past), age[p] what   *)
(* has gone by since pass p read the clock.  A pass reads the clock once,  *)
(* on entering, and uses that instant for everything it writes.            *)
(***************************************************************************)
EXTENDS Naturals, FiniteSets, Sequences, NotificationRules

CONSTANTS
    Ids,              \* ids of ticket_events, in the order of the queue
    Rows,             \* what a committed row may say: a subset of EventRows
    Leftover,         \* rows an earlier release left pending with no attempts left
    Passes,           \* drains that may be on their stack at once
    BatchSize,        \* NOTIFY_BATCH_SIZE
    MaxAttempts,      \* NOTIFY_MAX_ATTEMPTS
    RetryDelays,      \* NOTIFY_RETRY_DELAYS_MS, in minutes
    MaxDelay,         \* the longest of them
    MaxWriteFailures, \* NOTIFY_MAX_WRITE_FAILURES
    SendOutcomes,     \* what an SMTP delivery may come to
    WriteOutcomes,    \* what an UPDATE of a row may come to
    MaxCrashes        \* bound: restarts of the back end in a behaviour

ASSUME OutboxAssumption ==
    /\ Ids \subseteq Nat \ {0}
    /\ Rows \subseteq EventRows
    /\ Leftover \subseteq Ids
    /\ BatchSize \in Nat
    /\ MaxAttempts \in Nat \ {0}
    /\ MaxDelay \in Nat
    /\ RetryDelays \in Seq(0 .. MaxDelay) \ {<< >>}
    /\ MaxWriteFailures \in Nat \ {0}
    /\ SendOutcomes \subseteq {"skipped", "sent", "failed", "sentUnconfirmed"}
    /\ WriteOutcomes \subseteq {"ok", "failed", "doneUnconfirmed"}
    /\ MaxCrashes \in Nat
    /\ 0 \notin Passes

VARIABLES
    \* ticket_events
    row,            \* "none" | "pending" | "sealed", by id
    facts,          \* the row's contents
    notifyAttempts, \* notify_attempts
    wait,           \* minutes until notify_next_attempt_at
    sentMessageId,  \* TRUE when sent_message_id is not null
    \* memory of the process
    runningSince,   \* TRUE while a pass is on its stack
    cronDue,        \* the minute has struck and the cron has not fired yet
    writeFailures,  \* failed UPDATEs in a row, by id
    blocked,        \* ids no longer dispatched
    \* each pass
    pc,             \* "idle" | "loop" | "sending"
    age,            \* minutes since the pass read the clock
    batch,          \* rows it listed and has not looked at yet
    seen,           \* notify_attempts as it listed them
    cur,            \* the row it is working on, 0 for none
    todo,           \* audiences of the plan not tried yet
    failed,         \* whether the dispatch of cur has failed
    clientId,       \* whether this dispatch has a Message-ID for the client
    \* history, read by properties only
    mailed,         \* audiences a mail has reached, by id
    dispatched,     \* dispatches begun, by id
    unexcused,      \* dispatches begun minus those ended by a fault, by id
    lives           \* processes so far

db      == <<row, facts, notifyAttempts, wait, sentMessageId>>
memory  == <<writeFailures, blocked>>
pass    == <<pc, age, batch, seen, cur, todo, failed, clientId>>
history == <<mailed, dispatched, unexcused, lives>>
vars    == <<db, runningSince, cronDue, memory, pass, history>>

NoRow == [type |-> "COMMENT", toEsperaCliente |-> FALSE, fromPortal |-> FALSE,
          hasClientAuthor |-> FALSE, payloadVisibility |-> "unreadable",
          actorClientUserId |-> "null", actorUserId |-> "null"]

Minus(a, b) == IF a > b THEN a - b ELSE 0

\* A dispatch of e has begun and its outcome is not written yet.
InFlight(e) == \E p \in Passes : cur[p] = e

IdlePasses ==
    /\ pc = [p \in Passes |-> "idle"]
    /\ age = [p \in Passes |-> 0]
    /\ batch = [p \in Passes |-> {}]
    /\ seen = [p \in Passes |-> [e \in Ids |-> 0]]
    /\ cur = [p \in Passes |-> 0]
    /\ todo = [p \in Passes |-> {}]
    /\ failed = [p \in Passes |-> FALSE]
    /\ clientId = [p \in Passes |-> FALSE]

Init ==
    /\ row = [e \in Ids |-> IF e \in Leftover THEN "pending" ELSE "none"]
    /\ facts = [e \in Ids |-> NoRow]
    /\ notifyAttempts = [e \in Ids |-> IF e \in Leftover THEN MaxAttempts ELSE 0]
    /\ wait = [e \in Ids |-> 0]
    /\ sentMessageId = [e \in Ids |-> FALSE]
    /\ runningSince = FALSE
    /\ cronDue = FALSE
    /\ writeFailures = [e \in Ids |-> 0]
    /\ blocked = {}
    /\ IdlePasses
    /\ mailed = [e \in Ids |-> {}]
    /\ dispatched = [e \in Ids |-> 0]
    /\ unexcused = [e \in Ids |-> 0]
    /\ lives = 1
-----------------------------------------------------------------------------
(* The world around the scheduler.                                         *)

\* A handler commits a row together with the change it tells of.
Emit(e, r) ==
    /\ row[e] = "none"
    /\ \A d \in Ids : d < e => row[d] # "none"
    /\ row' = [row EXCEPT ![e] = "pending"]
    /\ facts' = [facts EXCEPT ![e] = r]
    /\ UNCHANGED <<notifyAttempts, wait, sentMessageId, runningSince, cronDue,
                   memory, pass, history>>

\* A minute goes by, whatever the passes are doing.
Tick ==
    /\ wait' = [e \in Ids |-> Minus(wait[e], 1)]
    /\ age' = [p \in Passes |-> IF pc[p] = "idle" \/ age[p] = MaxDelay
                                THEN age[p] ELSE age[p] + 1]
    /\ cronDue' = TRUE
    /\ UNCHANGED <<row, facts, notifyAttempts, sentMessageId, runningSince, memory,
                   pc, batch, seen, cur, todo, failed, clientId, history>>

\* The process dies and starts again: the table stays, the rest is lost.
Crash ==
    /\ lives <= MaxCrashes
    /\ lives' = lives + 1
    /\ runningSince' = FALSE
    /\ cronDue' = FALSE
    /\ writeFailures' = [e \in Ids |-> 0]
    /\ blocked' = {}
    /\ pc' = [p \in Passes |-> "idle"]
    /\ age' = [p \in Passes |-> 0]
    /\ batch' = [p \in Passes |-> {}]
    /\ seen' = [p \in Passes |-> [e \in Ids |-> 0]]
    /\ cur' = [p \in Passes |-> 0]
    /\ todo' = [p \in Passes |-> {}]
    /\ failed' = [p \in Passes |-> FALSE]
    /\ clientId' = [p \in Passes |-> FALSE]
    /\ unexcused' = [e \in Ids |-> IF InFlight(e) THEN Minus(unexcused[e], 1)
                                                  ELSE unexcused[e]]
    /\ UNCHANGED <<db, mailed, dispatched>>
-----------------------------------------------------------------------------
(* handleCron and the loop of drain.                                       *)

Due(e) == row[e] = "pending" /\ wait[e] = 0

\* ORDER BY id ASC LIMIT BatchSize: the listed rows are an initial segment.
PendingBatch ==
    {e \in Ids : Due(e) /\ Cardinality({d \in Ids : Due(d) /\ d < e}) < BatchSize}

\* The guard of handleCron: one pass at a time in a process.
MayEnter_Always == TRUE
MayEnter == ~runningSince

HandleCron(p) ==
    /\ cronDue
    /\ MayEnter
    /\ pc[p] = "idle"
    /\ cronDue' = FALSE
    /\ runningSince' = TRUE
    /\ pc' = [pc EXCEPT ![p] = "loop"]
    /\ age' = [age EXCEPT ![p] = 0]
    /\ batch' = [batch EXCEPT ![p] = PendingBatch]
    /\ seen' = [seen EXCEPT ![p] = notifyAttempts]
    /\ UNCHANGED <<db, memory, cur, todo, failed, clientId, history>>

\* A pass still running, or a listing that throws: this minute is lost.
HandleCronSkips ==
    /\ cronDue
    /\ cronDue' = FALSE
    /\ UNCHANGED <<db, runningSince, memory, pass, history>>

\* The finally of handleCron.
ReleaseBrake_Forgotten == UNCHANGED runningSince
ReleaseBrake == runningSince' = FALSE

EndPass(p) ==
    /\ pc[p] = "loop"
    /\ batch[p] = {}
    /\ pc' = [pc EXCEPT ![p] = "idle"]
    /\ age' = [age EXCEPT ![p] = 0]
    /\ seen' = [seen EXCEPT ![p] = [e \in Ids |-> 0]]
    /\ ReleaseBrake
    /\ UNCHANGED <<db, cronDue, memory, batch, cur, todo, failed, clientId, history>>

\* e is the row the loop of p turns to.
TurnsTo(p, e) ==
    /\ pc[p] = "loop"
    /\ e \in batch[p]
    /\ \A d \in batch[p] : e <= d
    /\ batch' = [batch EXCEPT ![p] = @ \ {e}]

SkipBlocked(p, e) ==
    /\ TurnsTo(p, e)
    /\ e \in blocked
    /\ UNCHANGED <<db, runningSince, cronDue, memory, pc, age, seen, cur, todo,
                   failed, clientId, history>>

\* Failures in a row after which a row is no longer dispatched.
TooManyFailures_Never(count) == FALSE
TooManyFailures(count) == count >= MaxWriteFailures

\* noteWriteOk and noteWriteFailure: what the process remembers of an UPDATE.
NoteWrite(e, outcome) ==
    IF outcome = "ok"
    THEN /\ writeFailures' = [writeFailures EXCEPT ![e] = 0]
         /\ UNCHANGED blocked
    ELSE /\ writeFailures' = [writeFailures EXCEPT ![e] = @ + 1]
         /\ blocked' = IF TooManyFailures(writeFailures[e] + 1)
                       THEN blocked \cup {e} ELSE blocked

\* markNotified, when the UPDATE takes effect (the process may not learn of it).
Seal(e, attempts, hasId, outcome) ==
    /\ IF outcome \in {"ok", "doneUnconfirmed"}
       THEN /\ row' = [row EXCEPT ![e] = "sealed"]
            /\ notifyAttempts' = [notifyAttempts EXCEPT ![e] = attempts]
            /\ wait' = [wait EXCEPT ![e] = 0]
            /\ sentMessageId' = [sentMessageId EXCEPT ![e] = hasId]
       ELSE UNCHANGED <<row, notifyAttempts, wait, sentMessageId>>
    /\ NoteWrite(e, outcome)

\* retryDelayMs: the wait after that many attempts, the last one repeating.
RetryDelay(spent) ==
    RetryDelays[IF spent > Len(RetryDelays) THEN Len(RetryDelays) ELSE spent]

\* recordNotifyFailure: the wait runs from the instant the pass read, age ago.
RecordNotifyFailure(e, spent, elapsed, outcome) ==
    /\ IF outcome \in {"ok", "doneUnconfirmed"}
       THEN /\ notifyAttempts' = [notifyAttempts EXCEPT ![e] = spent]
            /\ wait' = [wait EXCEPT ![e] = Minus(RetryDelay(spent), elapsed)]
       ELSE UNCHANGED <<notifyAttempts, wait>>
    /\ NoteWrite(e, outcome)
    /\ UNCHANGED <<row, sentMessageId>>

\* A row with no attempts left is sealed without a dispatch.
SealExhausted(p, e, outcome) ==
    /\ TurnsTo(p, e)
    /\ e \notin blocked
    /\ seen[p][e] >= MaxAttempts
    /\ Seal(e, seen[p][e], FALSE, outcome)
    /\ UNCHANGED <<facts, runningSince, cronDue, pc, age, seen, cur, todo, failed,
                   clientId, history>>
-----------------------------------------------------------------------------
(* dispatchForEvent and the UPDATE that follows it.                        *)

\* The plan is empty too when the ticket is gone; a lookup that throws ends
\* the dispatch before any mail.
BeginDispatch(p, e, plan, lookupFails) ==
    /\ TurnsTo(p, e)
    /\ e \notin blocked
    /\ seen[p][e] < MaxAttempts
    /\ plan \in {PlansForEvent(facts[e]), {}}
    /\ lookupFails => plan = {}
    /\ pc' = [pc EXCEPT ![p] = "sending"]
    /\ cur' = [cur EXCEPT ![p] = e]
    /\ todo' = [todo EXCEPT ![p] = plan]
    /\ failed' = [failed EXCEPT ![p] = lookupFails]
    /\ clientId' = [clientId EXCEPT ![p] = FALSE]
    /\ dispatched' = [dispatched EXCEPT ![e] = @ + 1]
    /\ unexcused' = [unexcused EXCEPT ![e] = @ + 1]
    /\ UNCHANGED <<db, runningSince, cronDue, memory, age, seen, mailed, lives>>

\* Whether the Message-ID of a delivery is the one a reply may answer.
IsTheClients_Any(audience) == TRUE
IsTheClients(audience) == audience = "CLIENT"

\* dispatchOne for the next entry of the plan, the client's before the team's.
\* One that throws does not keep the rest from being tried.
DispatchOne(p, audience, outcome) ==
    /\ pc[p] = "sending"
    /\ audience \in todo[p]
    /\ "CLIENT" \in todo[p] => audience = "CLIENT"
    /\ todo' = [todo EXCEPT ![p] = @ \ {audience}]
    /\ mailed' = IF outcome \in {"sent", "sentUnconfirmed"}
                 THEN [mailed EXCEPT ![cur[p]] = @ \cup {audience}] ELSE mailed
    /\ failed' = [failed EXCEPT ![p] = @ \/ outcome \in {"failed", "sentUnconfirmed"}]
    /\ clientId' = [clientId EXCEPT ![p] = @ \/ (IsTheClients(audience) /\ outcome = "sent")]
    /\ UNCHANGED <<db, runningSince, cronDue, memory, pc, age, batch, seen, cur,
                   dispatched, unexcused, lives>>

GivesUp(spent) == spent >= MaxAttempts

\* Back in the loop of drain: the outcome of the dispatch is written.
FinishDispatch(p, outcome) ==
    LET e     == cur[p]
        spent == seen[p][e] + 1
    IN  /\ pc[p] = "sending"
        /\ todo[p] = {}
        /\ CASE ~failed[p] -> Seal(e, seen[p][e], clientId[p], outcome)
             [] failed[p] /\ GivesUp(spent) -> Seal(e, spent, clientId[p], outcome)
             [] OTHER -> RecordNotifyFailure(e, spent, age[p], outcome)
        /\ pc' = [pc EXCEPT ![p] = "loop"]
        /\ cur' = [cur EXCEPT ![p] = 0]
        /\ failed' = [failed EXCEPT ![p] = FALSE]
        /\ clientId' = [clientId EXCEPT ![p] = FALSE]
        /\ unexcused' = IF failed[p] \/ outcome # "ok"
                        THEN [unexcused EXCEPT ![e] = Minus(@, 1)] ELSE unexcused
        /\ UNCHANGED <<facts, runningSince, cronDue, age, batch, seen, todo, mailed,
                       dispatched, lives>>
-----------------------------------------------------------------------------
Step(p) ==
    \/ EndPass(p)
    \/ \E e \in Ids :
         \/ SkipBlocked(p, e)
         \/ \E outcome \in WriteOutcomes : SealExhausted(p, e, outcome)
         \/ \E plan \in SUBSET Audiences, lookupFails \in BOOLEAN :
              BeginDispatch(p, e, plan, lookupFails)
    \/ \E audience \in Audiences, outcome \in SendOutcomes :
         DispatchOne(p, audience, outcome)
    \/ \E outcome \in WriteOutcomes : FinishDispatch(p, outcome)

Next ==
    \/ \E e \in Ids, r \in Rows : Emit(e, r)
    \/ Tick
    \/ Crash
    \/ HandleCronSkips
    \/ \E p \in Passes : HandleCron(p) \/ Step(p)

Spec == Init /\ [][Next]_vars

\* A pass is sequential code whose awaits all return: nodemailer and the
\* driver time out.  The clock does not stop, and a cron whose listing failed
\* is fired again the minute after, so an infinity of chances yields one.
Fairness ==
    /\ WF_vars(Tick)
    /\ \A p \in Passes : WF_vars(Step(p))
    /\ SF_vars(\E p \in Passes : HandleCron(p))

FairSpec == Spec /\ Fairness
-----------------------------------------------------------------------------
TypeOK ==
    /\ row \in [Ids -> {"none", "pending", "sealed"}]
    /\ facts \in [Ids -> EventRows]
    /\ notifyAttempts \in [Ids -> 0 .. MaxAttempts]
    /\ wait \in [Ids -> 0 .. MaxDelay]
    /\ sentMessageId \in [Ids -> BOOLEAN]
    /\ runningSince \in BOOLEAN
    /\ cronDue \in BOOLEAN
    /\ writeFailures \in [Ids -> 0 .. MaxWriteFailures]
    /\ blocked \subseteq Ids
    /\ pc \in [Passes -> {"idle", "loop", "sending"}]
    /\ age \in [Passes -> 0 .. MaxDelay]
    /\ batch \in [Passes -> SUBSET Ids]
    /\ seen \in [Passes -> [Ids -> 0 .. MaxAttempts]]
    /\ cur \in [Passes -> Ids \cup {0}]
    /\ todo \in [Passes -> SUBSET Audiences]
    /\ failed \in [Passes -> BOOLEAN]
    /\ clientId \in [Passes -> BOOLEAN]
    /\ mailed \in [Ids -> SUBSET Audiences]
    /\ dispatched \in [Ids -> Nat]
    /\ unexcused \in [Ids -> Nat]
    /\ lives \in 1 .. MaxCrashes + 1

\* What a pass read when it listed the rows is still what the table holds when
\* it gets to them, however long its deliveries take: drain decides on the
\* notify_attempts of the listing and never reads the row again.
ListingIsCurrent ==
    \A p \in Passes, e \in Ids :
        e \in batch[p] \/ cur[p] = e =>
            row[e] = "pending" /\ seen[p][e] = notifyAttempts[e]

\* "Una sola pasada a la vez": an event is dispatched again only after a fault
\* on record (a delivery or an UPDATE that failed, a crash); the happy path
\* never repeats a mail.
NoUnexcusedRepeat == \A e \in Ids : unexcused[e] <= 1

\* NOTIFY_MAX_WRITE_FAILURES: an event whose outcome cannot be written is not
\* mailed for ever.  Each attempt on record and each process buys at most
\* MaxWriteFailures dispatches.
DispatchBudget ==
    \A e \in Ids :
        dispatched[e] <= MaxWriteFailures * (notifyAttempts[e] + lives)

\* Rule 2 of the scheduler: spending the last attempt and sealing are one
\* UPDATE, so no row of this release is left pending with none to spend, not
\* by a crash and not by an UPDATE that failed.
PendingHasAttemptsLeft ==
    \A e \in Ids \ Leftover : row[e] = "pending" => notifyAttempts[e] < MaxAttempts

\* A message is announced only when it is readably public, and only to the side
\* that did not write it: to the team when its client author can be read, to the
\* client when there is none and its team author can.  One whose author nobody
\* can read, in whichever column, is announced to nobody.
MessageKeepsToItsSide ==
    \A e \in Ids : facts[e].type = "MESSAGE_POSTED" =>
        /\ mailed[e] # {} => facts[e].payloadVisibility = "PUBLICA"
        /\ "TEAM" \in mailed[e] => facts[e].actorClientUserId = "id"
        /\ "CLIENT" \in mailed[e] =>
              facts[e].actorClientUserId = "null" /\ facts[e].actorUserId = "id"

\* A saved Message-ID is that of a mail the client was sent: correlating a
\* reply by sent_message_id never starts from the mail of the team.
MessageIdIsTheClients ==
    \A e \in Ids : sentMessageId[e] => row[e] = "sealed" /\ "CLIENT" \in mailed[e]

\* The outbox implements the promise made of each event: told only to whom it was for, retried a
\* bounded number of times, sealed once, with a Message-ID only of a mail the client was sent.  The
\* promise does not say that everybody was told: mails may be skipped, and the ticket may be gone.
Delivery == INSTANCE EventDelivery WITH
    Events <- Ids, Tries <- MaxAttempts,
    state <- row, audience <- [e \in Ids |-> PlansForEvent(facts[e])], spent <- notifyAttempts,
    reached <- mailed, thread <- sentMessageId
DeliveryImplemented == Delivery!DeliverySpec

\* Sealing is final, and no mail leaves for a row already sealed, even when
\* the process believes its UPDATE failed.
SealedIsFinal ==
    [][\A e \in Ids : row[e] = "sealed" =>
          row'[e] = "sealed" /\ mailed'[e] = mailed[e] /\ dispatched'[e] = dispatched[e]]_vars

\* Rule 1 of the scheduler: every row is sealed in the end, unless its UPDATEs
\* keep failing and the process blocks it, or the blocked rows ahead of it,
\* which are still listed in every pass, fill the batch.
EveryRowSettles ==
    \A e \in Ids : row[e] = "pending" ~>
        \/ row[e] = "sealed"
        \/ e \in blocked
        \/ Cardinality({d \in blocked : d < e}) >= BatchSize
=============================================================================
