------------------------------ MODULE InboundEmail ------------------------------
(****************************************************************************)
(* The reader of the support mailbox and the retry of a mail that failed.    *)
(* A reader (a server process) drains the mailbox every minute, one mail at  *)
(* a time: it looks for a row of the mail's Message-ID, decides, inserts the *)
(* row (the unique key of message_id is the claim), writes the ticket or the *)
(* message, completes the row and marks the mail read.  An ADMIN may put a   *)
(* failed mail back: unread in the mailbox first, then its row renamed so    *)
(* that the key is free.  Every await of the code is a step here, so that    *)
(* another reader, a retry, a failure or a restart may come in between.      *)
(****************************************************************************)
EXTENDS Integers, FiniteSets, Sequences

CONSTANTS
    Readers,     \* processes that run the clock of inbound-email.scheduler.ts
    Admins,      \* requests to retry that may be in flight at once
    Mails,       \* UIDs of the folder, in order of arrival
    Mids,        \* Message-IDs, after normalizeMessageId
    Addresses,
    Companies,
    Mail,        \* what arrives with each UID
    Sender,      \* address -> "CLIENT", "STAFF" or "UNKNOWN" (active users only)
    CompanyOf,   \* address of a client user -> its company
    OldTickets,  \* the tickets there were before
    Synthetic,   \* Message-IDs made up here for mails that bring none
    Batch,       \* INBOUND_EMAIL_BATCH_SIZE
    TicketCap,   \* NEW_TICKETS_MAX_PER_ADDRESS_PER_HOUR
    ReplyCap,    \* UNKNOWN_REPLY_MAX_PER_HOUR
    MaxFaults,   \* bound: calls that fail
    MaxCrashes,  \* bound: restarts of a reader's process
    MaxAges      \* bound: times the clock passes an hour or a week

Rejections == {"DESCARTADO_PROPIO", "DESCARTADO_AUTOMATICO", "DESCARTADO_NO_AUTENTICADO"}
Claims     == {"TICKET_CREADO", "MENSAJE_ANADIDO"}
Outcomes   == Rejections \cup Claims \cup
              {"DESCARTADO_DUPLICADO", "REMITENTE_DESCONOCIDO", "DESCARTADO_POR_TOPE",
               "DESCARTADO_SIN_CONTENIDO", "ERROR"}
Ages       == {"hour", "week", "old"}

Ticket == [company: Companies, ids: SUBSET Mids]
Row    == [mid: Mids, requeued: BOOLEAN, outcome: Outcomes, ticket: Nat,
           address: Addresses, age: Ages]

ASSUME MailAssumption ==
    /\ Mails \subseteq Nat /\ IsFiniteSet(Mails)
    /\ Mail \in [Mails -> [mid: Mids, address: Addresses, verdict: Rejections \cup {"PASA"},
                           refs: SUBSET Mids, code: Nat, empty: BOOLEAN]]
    /\ Sender \in [Addresses -> {"CLIENT", "STAFF", "UNKNOWN"}]
    /\ CompanyOf \in [Addresses -> Companies]
    /\ OldTickets \in Seq(Ticket)
    /\ Synthetic \subseteq Mids
ASSUME BoundAssumption ==
    Batch \in Nat \ {0} /\ {TicketCap, ReplyCap, MaxFaults, MaxCrashes, MaxAges} \subseteq Nat

VARIABLES
    enabled,  \* the switch of the ingestion
    flag,     \* per UID: not arrived, "unseen" or "seen"
    rows,     \* the table inbound_emails
    tickets,  \* company of each ticket and the Message-IDs that lead to it
    posts,    \* messages written by mail: ticket, address
    replies,  \* answers sent to unknown senders
    opened,   \* history: tickets opened by mail, their address and age
    made,     \* history: tickets and messages written, per Message-ID
    pc, batch, trust, draft, claim,   \* per reader: where it stands, mails fetched, whether it knows the
                                  \* name of our mail server, row to insert, row claimed
    apc, arow,                 \* per retry: where it stands, row to requeue
    faults, crashes, ages

vars == <<enabled, flag, rows, tickets, posts, replies, opened, made, pc, batch, trust,
          draft, claim, apc, arow, faults, crashes, ages>>
readerVars == <<pc, batch, trust, draft, claim>>
adminVars  == <<apc, arow>>
worldVars  == <<enabled, crashes, ages>>
effectVars == <<tickets, posts, opened, made>>

NoDraft == [outcome |-> "ERROR", ticket |-> 0]

Init ==
    /\ enabled = FALSE
    /\ flag = [m \in Mails |-> "coming"]
    /\ rows = <<>>
    /\ tickets = OldTickets
    /\ posts = {} /\ replies = <<>> /\ opened = <<>>
    /\ made = [i \in Mids |-> 0]
    /\ pc = [r \in Readers |-> "idle"] /\ batch = [r \in Readers |-> {}]
    /\ trust = [r \in Readers |-> TRUE]
    /\ draft = [r \in Readers |-> NoDraft] /\ claim = [r \in Readers |-> 0]
    /\ apc = [a \in Admins |-> "idle"] /\ arow = [a \in Admins |-> 0]
    /\ faults = 0 /\ crashes = 0 /\ ages = 0

-----------------------------------------------------------------------------
(* The mailbox, the switch and the clock.                                    *)

Arrive(m) ==
    /\ flag[m] = "coming"
    /\ \A n \in Mails : n < m => flag[n] # "coming"
    /\ flag' = [flag EXCEPT ![m] = "unseen"]
    /\ UNCHANGED <<rows, effectVars, replies, readerVars, adminVars, worldVars, faults>>

\* An ADMIN turns the ingestion on or off in the settings of the workspace.
Switch ==
    /\ enabled' = ~enabled
    /\ UNCHANGED <<flag, rows, effectVars, replies, readerVars, adminVars, faults, crashes, ages>>

Older(seq, from, to) ==
    [i \in DOMAIN seq |-> IF seq[i].age \in from THEN [seq[i] EXCEPT !.age = to] ELSE seq[i]]

\* An hour, or the seven days of the cooldown, pass between two passes.
TimePasses(from, to) ==
    /\ ages < MaxAges
    /\ \A r \in Readers : pc[r] = "idle"
    /\ ages' = ages + 1
    /\ rows' = Older(rows, from, to)
    /\ replies' = Older(replies, from, to)
    /\ opened' = Older(opened, from, to)
    /\ UNCHANGED <<enabled, flag, tickets, posts, made, readerVars, adminVars, faults, crashes>>

HourPasses == TimePasses({"hour"}, "week")
WeekPasses == TimePasses({"hour", "week"}, "old")

-----------------------------------------------------------------------------
(* A pass: InboundEmailScheduler.handleCron and InboundEmailService.drain.    *)

Unseen == {m \in Mails : flag[m] = "unseen"}

\* fetchUnprocessed: the unread mails of lowest UID, at most a batch.
Fetched_CutFirst ==
    {m \in Unseen : Cardinality({n \in Mails : flag[n] # "coming" /\ n < m}) < Batch}
Fetched == {m \in Unseen : Cardinality({n \in Unseen : n < m}) < Batch}

\* The mail the reader is at: the first of those it fetched.
First(mails) == CHOOSE m \in mails : \A n \in mails : m <= n
Cur(r) == First(batch[r])

Fault == faults < MaxFaults /\ faults' = faults + 1

Goto(r, step) == pc' = [pc EXCEPT ![r] = step]

\* The brake lets one pass in at a time; with the switch off it does not even connect.  The name
\* of our server is read once for the pass, and its failure leaves the pass without it.
StartPass(r) ==
    /\ pc[r] = "idle"
    /\ enabled
    /\ Fetched # {}
    /\ batch' = [batch EXCEPT ![r] = Fetched]
    /\ \/ trust' = [trust EXCEPT ![r] = TRUE] /\ UNCHANGED faults
       \/ trust' = [trust EXCEPT ![r] = FALSE] /\ Fault
    /\ Goto(r, "look")
    /\ UNCHANGED <<flag, rows, effectVars, replies, draft, claim, adminVars, worldVars>>

\* The row whose message_id is this one: a requeued row no longer has it.
Live(mid) == {i \in DOMAIN rows : rows[i].mid = mid /\ ~rows[i].requeued}

\* The unique key of message_id lets this row in.
KeyFree_NotUnique(mid) == TRUE
KeyFree(mid) == Live(mid) = {}

\* processOne, step 2: a row of this Message-ID means it was dealt with before.
Look(r) ==
    /\ pc[r] = "look"
    /\ Goto(r, IF Live(Mail[Cur(r)].mid) = {} THEN "screen" ELSE "mark")
    /\ UNCHANGED <<flag, rows, effectVars, replies, batch, trust, draft, claim, adminVars, worldVars, faults>>

\* The tickets that one of these Message-IDs opened or was sent for.
TicketsOf(mids) == {t \in DOMAIN tickets : tickets[t].ids \cap mids # {}}

Decide(r, outcome, ticket) ==
    /\ draft' = [draft EXCEPT ![r] = [outcome |-> outcome, ticket |-> ticket]]
    /\ Goto(r, "record")

\* judgeAuthentication comes after the checks of our own mail and of automatic ones, and nothing
\* authenticates in a pass that does not know our server.
Verdict(r, mail) == IF mail.verdict = "PASA" /\ ~trust[r] THEN "DESCARTADO_NO_AUTENTICADO" ELSE mail.verdict

\* processOne, steps 2 to 5: an identifier of ours, our own mail, automatic, not authenticated.
Screen(r) ==
    LET mail == Mail[Cur(r)] IN
    /\ pc[r] = "screen"
    /\ \/ /\ TicketsOf({mail.mid}) # {}
          /\ Decide(r, "DESCARTADO_DUPLICADO", 0)
       \/ /\ TicketsOf({mail.mid}) = {}
          /\ Verdict(r, mail) # "PASA"
          /\ Decide(r, Verdict(r, mail), 0)
       \/ /\ TicketsOf({mail.mid}) = {}
          /\ Verdict(r, mail) = "PASA"
          /\ Goto(r, "judge") /\ UNCHANGED draft
    /\ UNCHANGED <<flag, rows, effectVars, replies, batch, trust, claim, adminVars, worldVars, faults>>

ByCode(code) == {code} \cap DOMAIN tickets

\* A client writes only in the tickets of its company.
BelongsToSender(t, mail) == tickets[t].company = CompanyOf[mail.address]

\* correlate: the headers decide alone when there are any, and the ticket is of the sender's company.
Thread(mail) ==
    LET found == IF mail.refs # {} THEN TicketsOf(mail.refs) ELSE ByCode(mail.code)
    IN {t \in found : found = {t} /\ BelongsToSender(t, mail)}

\* resolveStaffTicket: one ticket by the headers, and the code of the subject otherwise.
StaffTicket(mail) ==
    LET found == TicketsOf(mail.refs)
    IN IF \E t \in found : found = {t} THEN found ELSE ByCode(mail.code)

Recorded(outcome, recent, addresses) ==
    Cardinality({i \in DOMAIN rows : /\ rows[i].outcome = outcome
                                     /\ rows[i].age \in recent
                                     /\ rows[i].address \in addresses})

HasReachedNewTicketCap_OneLate(lately) == lately > TicketCap
HasReachedNewTicketCap(lately) == lately >= TicketCap

NewTicketCapReached(address) ==
    HasReachedNewTicketCap(Recorded("TICKET_CREADO", {"hour"}, {address}))

\* A client's mail continues a thread or opens a ticket, within the cap of new tickets.
JudgeClient(r, mail) ==
    /\ Sender[mail.address] = "CLIENT"
    /\ \/ /\ Thread(mail) = {}
          /\ NewTicketCapReached(mail.address)
          /\ Decide(r, "DESCARTADO_POR_TOPE", 0)
       \/ /\ Thread(mail) = {}
          /\ ~NewTicketCapReached(mail.address)
          /\ Decide(r, IF mail.empty THEN "DESCARTADO_SIN_CONTENIDO" ELSE "TICKET_CREADO", 0)
       \/ \E t \in Thread(mail) :
            Decide(r, IF mail.empty THEN "DESCARTADO_SIN_CONTENIDO" ELSE "MENSAJE_ANADIDO", t)

\* The staff opens no ticket by mail.
JudgeStaff(r, mail) ==
    /\ Sender[mail.address] = "STAFF"
    /\ \/ StaffTicket(mail) = {} /\ Decide(r, "DESCARTADO_SIN_CONTENIDO", 0)
       \/ \E t \in StaffTicket(mail) :
            Decide(r, IF mail.empty THEN "DESCARTADO_SIN_CONTENIDO" ELSE "MENSAJE_ANADIDO", t)

\* Once per address in the cooldown, and a global cap per hour.
ShouldReplyToUnknown(toAddress, inHour) == toAddress = 0 /\ inHour < ReplyCap

JudgeUnknown(r, mail) ==
    /\ Sender[mail.address] = "UNKNOWN"
    /\ Decide(r, IF ShouldReplyToUnknown(Recorded("REMITENTE_DESCONOCIDO", {"hour", "week"}, {mail.address}),
                                         Recorded("REMITENTE_DESCONOCIDO", {"hour"}, Addresses))
                 THEN "REMITENTE_DESCONOCIDO" ELSE "DESCARTADO_POR_TOPE", 0)

Judge(r) ==
    /\ pc[r] = "judge"
    /\ \E mail \in {Mail[Cur(r)]} : JudgeClient(r, mail) \/ JudgeStaff(r, mail) \/ JudgeUnknown(r, mail)
    /\ UNCHANGED <<flag, rows, effectVars, replies, batch, trust, claim, adminVars, worldVars, faults>>

\* The counts of the caps cannot be read: newTicketCapReached and allowedToReplyToUnknown deny.
JudgeBlind(r) ==
    /\ pc[r] = "judge"
    /\ Fault
    /\ \E mail \in {Mail[Cur(r)]} : \/ Sender[mail.address] = "CLIENT" /\ Thread(mail) = {}
                                    \/ Sender[mail.address] = "UNKNOWN"
    /\ Decide(r, "DESCARTADO_POR_TOPE", 0)
    /\ UNCHANGED <<flag, rows, effectVars, replies, batch, trust, claim, adminVars, worldVars>>

NewRow(mail, d) ==
    [mid |-> mail.mid, requeued |-> FALSE, outcome |-> d.outcome, ticket |-> d.ticket,
     address |-> mail.address, age |-> "hour"]

After_NoMessage(outcome) == CASE outcome = "TICKET_CREADO" -> "write"
                              [] outcome = "REMITENTE_DESCONOCIDO" -> "reply"
                              [] OTHER -> "mark"
After(outcome) == CASE outcome \in Claims -> "write"
                    [] outcome = "REMITENTE_DESCONOCIDO" -> "reply"
                    [] OTHER -> "mark"

\* What drain does with an exception of processOne: it records an ERROR.
OnException_OnlyLogged == "mark"
OnException == "recordError"

\* claim leaves the mail to who has the key; to discard, a key that is taken is an exception.
KeyTaken(outcome) == IF outcome \in Claims THEN "mark" ELSE OnException

\* discard and claim: one INSERT.
Record(r) ==
    /\ pc[r] = "record"
    /\ \/ /\ KeyFree(Mail[Cur(r)].mid)
          /\ rows' = Append(rows, NewRow(Mail[Cur(r)], draft[r]))
          /\ claim' = [claim EXCEPT ![r] = Len(rows) + 1]
          /\ Goto(r, After(draft[r].outcome))
       \/ /\ ~KeyFree(Mail[Cur(r)].mid)
          /\ Goto(r, KeyTaken(draft[r].outcome))
          /\ UNCHANGED <<rows, claim>>
    /\ UNCHANGED <<flag, effectVars, replies, batch, trust, draft, adminVars, worldVars, faults>>

\* A call before the claim fails, and the exception goes up to drain.
Throw(r) ==
    /\ pc[r] \in {"look", "screen", "judge", "record"}
    /\ Fault
    /\ Goto(r, OnException)
    /\ UNCHANGED <<flag, rows, effectVars, replies, batch, trust, draft, claim, adminVars, worldVars>>

\* The INSERT of the row is done and its answer is lost.
RecordUnconfirmed(r) ==
    /\ pc[r] = "record"
    /\ Fault
    /\ KeyFree(Mail[Cur(r)].mid)
    /\ rows' = Append(rows, NewRow(Mail[Cur(r)], draft[r]))
    /\ Goto(r, OnException)
    /\ UNCHANGED <<flag, effectVars, replies, batch, trust, draft, claim, adminVars, worldVars>>

\* recordError: always a new INSERT, whose own failure is only logged.
RecordError(r) ==
    /\ pc[r] = "recordError"
    /\ \/ /\ KeyFree(Mail[Cur(r)].mid)
          /\ rows' = Append(rows, NewRow(Mail[Cur(r)], NoDraft))
          /\ UNCHANGED faults
       \/ ~KeyFree(Mail[Cur(r)].mid) /\ UNCHANGED <<rows, faults>>
       \/ Fault /\ UNCHANGED rows
    /\ Goto(r, "mark")
    /\ UNCHANGED <<flag, effectVars, replies, batch, trust, draft, claim, adminVars, worldVars>>

\* The new ticket keeps the Message-ID of the mail that opened it.
NewTicket_NoMessageId(mail) == [company |-> CompanyOf[mail.address], ids |-> {}]
NewTicket(mail) == [company |-> CompanyOf[mail.address], ids |-> {mail.mid}]

\* TicketsService.create or TicketMessagesService.post, each a transaction of its own.
Effect(r) ==
    LET mail == Mail[Cur(r)] IN
    /\ made' = [made EXCEPT ![mail.mid] = @ + 1]
    /\ \/ /\ draft[r].outcome = "TICKET_CREADO"
          /\ tickets' = Append(tickets, NewTicket(mail))
          /\ opened' = Append(opened, [address |-> mail.address, age |-> "hour"])
          /\ UNCHANGED posts
       \/ /\ draft[r].outcome = "MENSAJE_ANADIDO"
          /\ posts' = posts \cup {[ticket |-> draft[r].ticket, address |-> mail.address]}
          /\ UNCHANGED <<tickets, opened>>

\* The ticket has its number only now; of a message the row already says everything.
Write(r) ==
    /\ pc[r] = "write"
    /\ Effect(r)
    /\ \/ /\ draft[r].outcome = "TICKET_CREADO"
          /\ draft' = [draft EXCEPT ![r].ticket = Len(tickets) + 1]
          /\ Goto(r, "link")
       \/ /\ draft[r].outcome = "MENSAJE_ANADIDO"
          /\ Goto(r, "mark") /\ UNCHANGED draft
    /\ UNCHANGED <<flag, rows, replies, batch, trust, claim, adminVars, worldVars, faults>>

\* It throws, with the transaction undone or already committed.
WriteFails(r) ==
    /\ pc[r] = "write"
    /\ Fault
    /\ Effect(r) \/ UNCHANGED effectVars
    /\ Goto(r, "fail")
    /\ UNCHANGED <<flag, rows, replies, batch, trust, draft, claim, adminVars, worldVars>>

\* updateOutcome with the number of the new ticket.
Link(r) ==
    /\ pc[r] = "link"
    /\ rows' = [rows EXCEPT ![claim[r]].ticket = draft[r].ticket]
    /\ Goto(r, "mark")
    /\ UNCHANGED <<flag, effectVars, replies, batch, trust, draft, claim, adminVars, worldVars, faults>>

LinkFails(r) ==
    /\ pc[r] = "link"
    /\ Fault
    /\ \/ rows' = [rows EXCEPT ![claim[r]].ticket = draft[r].ticket]
       \/ UNCHANGED rows
    /\ Goto(r, "fail")
    /\ UNCHANGED <<flag, effectVars, replies, batch, trust, draft, claim, adminVars, worldVars>>

\* failClaimedRow: the row of this attempt, by its id; a failure here is only logged.
FailRow(r) ==
    /\ pc[r] = "fail"
    /\ \/ rows' = [rows EXCEPT ![claim[r]].outcome = "ERROR"] /\ UNCHANGED faults
       \/ Fault /\ UNCHANGED rows
    /\ Goto(r, "mark")
    /\ UNCHANGED <<flag, effectVars, replies, batch, trust, draft, claim, adminVars, worldVars>>

\* The answer to an unknown sender, after its row; a failure is only logged.
Reply(r) ==
    /\ pc[r] = "reply"
    /\ \/ /\ replies' = Append(replies, [address |-> Mail[Cur(r)].address, age |-> "hour"])
          /\ UNCHANGED faults
       \/ Fault /\ UNCHANGED replies
    /\ Goto(r, "mark")
    /\ UNCHANGED <<flag, rows, effectVars, batch, trust, draft, claim, adminVars, worldVars>>

\* The loop of drain goes on while there are mails.
AfterMail_Loops(left) == "look"
AfterMail(left) == IF left = {} THEN "idle" ELSE "look"

\* markProcessed, whatever happened; a failure leaves the mail unread.  Then the next mail.
Mark(r) ==
    /\ pc[r] = "mark"
    /\ \/ flag' = [flag EXCEPT ![Cur(r)] = "seen"] /\ UNCHANGED faults
       \/ Fault /\ UNCHANGED flag
    /\ batch' = [batch EXCEPT ![r] = @ \ {Cur(r)}]
    /\ Goto(r, AfterMail(batch'[r]))
    /\ UNCHANGED <<rows, effectVars, replies, trust, draft, claim, adminVars, worldVars>>

Crash(r) ==
    /\ pc[r] # "idle"
    /\ crashes < MaxCrashes
    /\ crashes' = crashes + 1
    /\ Goto(r, "idle")
    /\ batch' = [batch EXCEPT ![r] = {}]
    /\ UNCHANGED <<flag, rows, effectVars, replies, trust, draft, claim, adminVars, enabled, ages, faults>>

-----------------------------------------------------------------------------
(* The retry: InboundEmailService.retry.                                      *)

\* Only a row in ERROR, not put back before, without a ticket and with a Message-ID of its own.
Requeueable(row) ==
    row.outcome = "ERROR" /\ ~row.requeued /\ row.ticket = 0 /\ row.mid \notin Synthetic

StartRetry(a, i) ==
    /\ apc[a] = "idle"
    /\ Requeueable(rows[i])
    /\ enabled
    /\ apc' = [apc EXCEPT ![a] = "unmark"]
    /\ arow' = [arow EXCEPT ![a] = i]
    /\ UNCHANGED <<flag, rows, effectVars, replies, readerVars, worldVars, faults>>

\* markUnprocessed looks for mails of this Message-ID that are read; without one it throws.
Unmark(a) ==
    LET found == {m \in Mails : Mail[m].mid = rows[arow[a]].mid /\ flag[m] = "seen"} IN
    /\ apc[a] = "unmark"
    /\ flag' = [m \in Mails |-> IF m \in found THEN "unseen" ELSE flag[m]]
    /\ apc' = [apc EXCEPT ![a] = IF found = {} THEN "idle" ELSE "rename"]
    /\ UNCHANGED <<rows, effectVars, replies, readerVars, arow, worldVars, faults>>

\* buildRequeuedMessageId: the row keeps its outcome and frees its Message-ID.
Rename(a) ==
    /\ apc[a] = "rename"
    /\ rows' = [rows EXCEPT ![arow[a]].requeued = TRUE]
    /\ apc' = [apc EXCEPT ![a] = "idle"]
    /\ UNCHANGED <<flag, effectVars, replies, readerVars, arow, worldVars, faults>>

\* The mailbox or the base fails, or the process of the request ends.
RetryFails(a) ==
    /\ apc[a] # "idle"
    /\ apc' = [apc EXCEPT ![a] = "idle"]
    /\ UNCHANGED <<flag, rows, effectVars, replies, readerVars, arow, worldVars, faults>>

-----------------------------------------------------------------------------
Advance(r) == \/ Look(r) \/ Screen(r) \/ Judge(r) \/ Record(r) \/ RecordError(r) \/ Write(r)
              \/ Link(r) \/ FailRow(r) \/ Reply(r) \/ Mark(r)
Break(r)   == JudgeBlind(r) \/ Throw(r) \/ RecordUnconfirmed(r) \/ WriteFails(r) \/ LinkFails(r) \/ Crash(r)
Retry(a)   == (\E i \in DOMAIN rows : StartRetry(a, i)) \/ Unmark(a) \/ Rename(a) \/ RetryFails(a)

Next ==
    \/ \E m \in Mails : Arrive(m)
    \/ Switch \/ HourPasses \/ WeekPasses
    \/ \E r \in Readers : StartPass(r) \/ Advance(r) \/ Break(r)
    \/ \E a \in Admins : Retry(a)

Spec == Init /\ [][Next]_vars

\* The clock fires every minute and a pass in course goes on.
FairSpec == Spec /\ \A r \in Readers : WF_vars(StartPass(r)) /\ WF_vars(Advance(r))

-----------------------------------------------------------------------------
(* Properties.                                                               *)

Steps == {"idle", "look", "screen", "judge", "record", "recordError", "write", "link", "fail",
          "reply", "mark"}

\* The variables have their types, and a reader at work has a mail.
TypeOK ==
    /\ enabled \in BOOLEAN
    /\ flag \in [Mails -> {"coming", "unseen", "seen"}]
    /\ rows \in Seq(Row)
    /\ tickets \in Seq(Ticket)
    /\ posts \subseteq [ticket: Nat, address: Addresses]
    /\ replies \in Seq([address: Addresses, age: Ages])
    /\ opened \in Seq([address: Addresses, age: Ages])
    /\ made \in [Mids -> Nat]
    /\ pc \in [Readers -> Steps]
    /\ batch \in [Readers -> SUBSET Mails]
    /\ trust \in [Readers -> BOOLEAN]
    /\ draft \in [Readers -> [outcome: Outcomes, ticket: Nat]]
    /\ claim \in [Readers -> Nat]
    /\ apc \in [Admins -> {"idle", "unmark", "rename"}]
    /\ arow \in [Admins -> Nat]
    /\ faults \in Nat /\ crashes \in Nat /\ ages \in Nat
    /\ \A r \in Readers : pc[r] # "idle" => batch[r] # {}

\* A Message-ID opens one ticket or adds one message, never two, over passes that overlap,
\* failures reported after the write, restarts and retries by hand (claim and retry).
EffectOnce == \A mid \in Mids : made[mid] <= 1

\* The ingestion implements the promise made of each Message-ID.
Once == INSTANCE MessageOnce WITH held <- {mid \in Mids : Live(mid) # {}}, written <- made
OnceImplemented == Once!OnceSpec

\* A row in ERROR without a ticket can be put back: no message was written for its Message-ID
\* (retry: "siempre seguro de reencolar").
ErrorIsSafeToRequeue ==
    \A i \in DOMAIN rows :
        /\ rows[i].outcome = "ERROR" /\ ~rows[i].requeued /\ rows[i].ticket = 0
        /\ made[rows[i].mid] > 0
        => TicketsOf({rows[i].mid}) # {}

\* A read mail leaves a row; to lose one in silence takes a failure and then a second one
\* while the first is being recorded.
NothingLostInSilence ==
    \A m \in Mails : flag[m] = "seen" /\ (\A i \in DOMAIN rows : rows[i].mid # Mail[m].mid) => faults >= 2

\* Without failures, a row that says a ticket or a message was written says the truth once
\* its reader is done with it, however the passes overlap.
OutcomeIsTrue ==
    faults = 0 /\ crashes = 0 =>
        \A i \in DOMAIN rows :
            rows[i].outcome \in Claims /\ (\A r \in Readers : pc[r] = "write" => claim[r] # i)
            => made[rows[i].mid] = 1

Lately(seq, recent, addresses) ==
    Cardinality({i \in DOMAIN seq : seq[i].age \in recent /\ seq[i].address \in addresses})

\* In an hour a sender opens no more tickets than the cap, but for those whose row went to ERROR.
TicketCapHolds ==
    \A ad \in Addresses :
        Lately(opened, {"hour"}, {ad}) <= TicketCap + Recorded("ERROR", {"hour"}, {ad})

\* An unknown sender is answered once in the cooldown, and all of them together within the cap.
ReplyBrakesHold ==
    /\ \A ad \in Addresses : Lately(replies, {"hour", "week"}, {ad}) <= 1
    /\ Lately(replies, {"hour"}, Addresses) <= ReplyCap

\* Both brakes of domain/throttle.ts, which count rows and not what they limit.
BrakesHold == TicketCapHolds /\ ReplyBrakesHold

\* With the ingestion on, a mail that arrived ends up read, also after it was put back.
EveryMailIsRead ==
    <>[]enabled => \A m \in Mails : flag[m] = "unseen" ~> flag[m] = "seen"

\* What the screen says after a retry: the mail will be processed in the next cycle.  A freed
\* Message-ID has a mail to read, a reader that found no row for it, or a new row.
RequeuedWillBeRead ==
    \A i \in DOMAIN rows : rows[i].requeued =>
        \/ Live(rows[i].mid) # {}
        \/ \E m \in Mails : Mail[m].mid = rows[i].mid /\ flag[m] = "unseen"
=============================================================================
