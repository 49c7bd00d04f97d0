# Kubo DevDocs CRM in TLA+

TLA+ modules of the back end of this repository, the TLC configurations that
model-check them and the theorems about them that TLAPS checks. Every
definition is translated from the source; the lines it stands for are in
`PROJECT.json` under `map`. Paths below are relative to
`src/backend/src/modules/` unless they start with `src/`.

    tlc -workers 2 -config OutboxFaults.cfg MCNotificationOutbox
    tlapm TicketLifecycleProofs.tla

## 1. The system

Kubo is a CRM for a software house: a NestJS back end (one process, MySQL,
Redis for BullMQ), a React web application and a Flutter application that
records meetings. Two things about the back end shape everything here:

* A handler reads a row through a repository, decides on the object it got, and
  updates by id later, in a transaction that holds the writes but not the read.
  No row has a version, and a pessimistic lock is taken in one place only
  (accepting an invitation). Any two handlers may interleave between the read
  and the write.
* Work whose effect cannot be rolled back (SMTP, IMAP, an LLM, Jira, a file) is
  done outside the transactions, and its outcome is written afterwards.

### Inventory

| Component | State it keeps | Operations | What is hard |
|---|---|---|---|
| Ticket lifecycle (`tickets/`) | row of `tickets`: status, assignee, priority, SLA clock, evidence, risk flag; timeline in `ticket_events` | create, transition, assign, take, escalate, overridePriority, triage, update, remove; SLA scan every five minutes | checks on an old reading, operations in two transactions, an LLM between read and write, overlapping scans |
| Ticket messages (`ticket-messages/`) | messages, attachments, and a status it may move | post by the team or the client, upload, download | waking a waiting ticket, a budget checked before it is spent, file and row in two stores |
| Notification outbox (`notifications/`) | `notified_at`, `notify_attempts`, `notify_next_attempt_at`, `sent_message_id` in `ticket_events`; failures and blocked ids in memory | drain every minute, dispatch, retry, seal | a mail cannot be rolled back; failing UPDATEs; restarts; overlapping passes; starvation |
| Inbound email (`inbound-email/`) | `inbound_emails`, flags of the mailbox | drain, claim, correlate, create a ticket or a message, retry | crash between claim and effect, mail read twice, caps checked before creation |
| Portal invitations (`portal/`) | `client_user_invitations`, `client_users` | invite, resend, accept, revoke, bulk upload | one live invitation per address under races, mail after commit, expiry |
| Work item board (`work-items/`) | status and `board_order` of requirements, their events | intake, accept, reject, move, change of priority | columns renumbered from snapshot reads |
| Actas (`actas/`) | acta, versions of its text, signatures | generate, regenerate, edit, sign, approve | stale save after the LLM, approval in several saves |
| Audio and transcriptions (`audio/`, `transcriptions/`) | files, rows, BullMQ jobs, status of the meeting | upload, process (three attempts), retry, retention | a queue and a table without a common transaction; a status written by several |
| Meetings (`meetings/`) | status of the meeting | start, end, setStatus | `setStatus` is unconditional |
| Documents and signatories (`documents/`, `document-signatories/`) | token and signature | requestSignature, confirmSignature, update | token rewritten before the mail leaves; check, then unconditional update |
| Ticket exports (`tickets/ticket-ai.service.ts`, `integrations/`) | key of the Jira issue | pushToJira, generateClosureDocument | check, external creation, write |
| Mobile outbox (`src/mobile/lib/core/recordings/`) | list of recordings on the device | register, retry, discard, scanOrphans | killed in the middle of an upload |
| AI providers, email delivery, reports, audit log, CRUD modules, web, deployment | rows, or nothing | | no protocol of their own |

How they interact:

* **Handlers → outbox.** A handler commits its `ticket_events` rows with its
  change, and the outbox finds them by polling: no call, no signal.
* **Outbox → inbound email.** `sent_message_id`, written when a row is sealed,
  is what the client's reply is correlated by.
* **Inbound email, portal → tickets, messages.** Both create tickets and post
  messages through the handlers the staff uses.
* **Messages → tickets.** A public message of the client moves a ticket out of
  `ESPERA_CLIENTE` in its own transaction, without `transition`.
* **Assignment, triage → transitions.** `assign`, `take`, `escalate` and
  `triage` commit their own patch and then call `transition`, which reads again.
* **Audio → transcriptions → meetings → actas → retention**, through BullMQ.

### What makes each correct

* *Ticket lifecycle*: the timeline agrees with the row; the row only makes the
  moves of the state machine, with their reasons and evidence; the clock stops
  only while waiting for the client and no paused minute is lost; a priority
  fixed by hand stays; a ticket at risk is flagged, and told once.
* *Messages*: the client's answer never leaves the ticket asleep and never
  reopens it; uploads stay within the budget and leave no orphan.
* *Outbox*: each event settles; no mail twice without a fault on record; a
  bounded number of mails under any fault; nobody is told what is not for them;
  the saved Message-ID is the client's.
* *Inbound email*: a mail has its effect at most once, and is not lost unless
  its row says so. *Invitations*: one live invitation per address, used once.
  *Board*: the positions of a column are a permutation. *Actas*: an approved
  acta does not change and has its PDF. *Transcriptions*: each is served, and
  the meeting does not go backwards. *Signatures*: a confirmation answers the
  request it was sent for. *Mobile outbox*: no recording is lost or stuck.

## 2. Plan

Done:

1. The ticket and its notifications, which every other component feeds:
   `NotificationRules`, `NotificationOutbox`, `TicketRules`, `TicketLifecycle`,
   with their proofs, and `EventDelivery`, the promise the outbox implements.
2. `InboundEmail` and the promise it implements, `MessageOnce`, with their
   proofs: claim, effect, mark, failures, restarts and retry by hand.
3. `PortalInvitations` and the promise it implements, `PortalAccess`, with their
   proofs: invitations, their acceptance, the panel and the bulk upload.
4. `WorkItemBoard`, with its proofs: transactions of snapshot reads on the cards.
5. `MeetingRecords`, with its proofs: recordings, the queue, transcriptions,
   retention and the acta.

Left, in this order:

6. `MobileOutbox`: the list of recordings of the device, killed in the middle of
   an upload; with `MeetingRecords`, what a repeated upload makes of a meeting.
7. `TicketDesk`: the lifecycle composed with the outbox, so that the events of one
   are the rows of the other; and an abstract ticket that `TicketLifecycle` with
   one caller implements.
8. Signature requests, the budget of attachments and the exports to Jira: a check
   and a write each, of which reading tells as much as a model.

## 3. The notification outbox

`NotificationRules` is `notifications/domain/notification-rules.ts`, plus
`messageVisibilityOf` and `actorKindOf` of the dispatcher: from what a row of
`ticket_events` says, the audiences that deserve a mail. A template key is
abstracted to its audience, and a column that cannot be read is a value of its
own, because that is where the rules must stay silent.

`NotificationOutbox` is `NotificationScheduler` with the part of
`NotificationDispatcher` that decides, and the queries they use.

| Variable | In the code |
|---|---|
| `row`, `facts`, `notifyAttempts`, `wait`, `sentMessageId` | a row of `ticket_events`: `notified_at`, its contents, `notify_attempts`, `notify_next_attempt_at`, `sent_message_id` |
| `runningSince`, `writeFailures`, `blocked` | the private fields of `NotificationScheduler` |
| `cronDue` | the minute has struck and `handleCron` has not run |
| `pc`, `age`, `batch`, `seen`, `cur`, `todo`, `failed`, `clientId` | the stack of a `drain`: how old its `now` is, the rows listed and not reached, their attempts as listed, the row being dispatched and what came of it |
| `mailed`, `dispatched`, `unexcused`, `lives` | history for the properties |

| Action | In the code |
|---|---|
| `HandleCron`, `HandleCronSkips`, `EndPass` | `handleCron`: the brake, the listing, the `finally` |
| `SkipBlocked`, `SealExhausted` | the two early `continue`s of `drain` |
| `BeginDispatch`, `DispatchOne`, `FinishDispatch` | `dispatchForEvent`, one delivery, and the seal or the record of the failure |
| `Emit`, `Tick`, `Crash` | a handler's commit, a minute, a restart |

A delivery is `sent`, `skipped` (template off, nobody to write to), `failed`, or
`sentUnconfirmed` (it left and the SMTP answer did not come back). An UPDATE is
`ok`, `failed`, or `doneUnconfirmed`. Those words are constants, so a run says
which faults it has. `Leftover` are rows pending with no attempts left, which
only a release with a higher limit leaves; the code has a branch for them.

`EventDelivery` is the promise, event by event and with no passes in it: while an
event is pending its mails go to the audiences it had when it happened, failed
tries are counted and bounded, and the seal, which comes last, keeps an identifier
to correlate by only if the client was sent a mail. It does not ask that anybody was
reached: a row may be sealed with its mails skipped, or with its tries failed.
`DeliveryImplemented` is the
refinement: the state, the tries and the plan of each row, the audiences in
`mailed`, and whether there is a `sentMessageId`.

| Run | Question | Bounds |
|---|---|---|
| `outbox_faults` | `NoUnexcusedRepeat`, `DispatchBudget` under every fault | two rows of two audiences, two passes, two attempts, two UPDATE failures, one restart |
| `outbox_queue` | `MessageKeepsToItsSide`, the refinement `DeliveryImplemented`, and `EveryRowSettles`, with a batch of one and an exhausted row at the head | every kind of message row, a portal registration and an SLA warning; one pass; one restart |

The bounds suffice because what can go wrong needs two passes (the brake), two
rows (a batch that goes stale while its first row is sent; a head that starves
the second), two attempts (one that is recorded, one that gives up) and two
failures of the same UPDATE (one counted, one that blocks). `ShortDelays` keeps
one wait, longer than a minute, so that rows are skipped while they wait.

*Fairness.* `WF(Tick)`: time goes on. `WF(Step(p))`: a pass is sequential code and
each of its awaits ends, well or badly, because driver and transport time out.
`SF(HandleCron)`: the cron comes back each minute, also after a listing that
threw, and not all of them throw. Strong, since a skipped minute disables it. A
delivery and an UPDATE may fail every time, and restarts are finitely many.

`EveryRowSettles` says what the class achieves, which is less than "every row is
sealed": a row may be blocked until the next restart, and blocked rows are still
listed, so as many as a batch, ahead of a row, keep it out for ever.

## 4. The ticket

`TicketRules` holds the pure functions: state machine, priority matrix, pauses
and risk ratio. `TicketLifecycle` has one ticket and any number of handlers.

| Variable | In the code |
|---|---|
| `ticket` | the columns of `tickets` that handlers decide on; `GONE` once removed. The resolution deadline stands for both; the three texts of the evidence are one flag |
| `pc`, `call`, `saw`, `readAt` | a handler between its read and its write: what it was asked, the row as it read it, its `now` |
| `told`, `riskTold` | the timeline: the last change of status, how many `SLA_AT_RISK` |
| `spokeSince` | history: the client wrote since the last change of status |

Each operation is a `Start...` action, with the read and the early returns, and a
`Write...` action, with the transaction. `CommitTransition` writes the patch that
`transition` computed (`Moved`) and the event that tells it (`TellStatus`);
`FollowUp` is the second read of `assign`, `take`, `escalate` and `triage`, after
which the handler commits or is refused. `WritePost` is the client's message with
its conditional UPDATE. `ListForRisk` and `MarkRisk` are a pass of the scan,
`Fail` an error or a crash that rolls back an open transaction. `Tick` moves the
clock, which stops counting at `Horizon`.

| Run | Question | Bounds |
|---|---|---|
| `ticket_alone` | what the comments promise, with requests one at a time: `OnlyLegalMoves`, `ClockStopsOnlyWaiting`, `NoSleepingAnswer` | one caller, all nine operations, six requests, two instants |
| `ticket_races` | what survives interleaving: `StatusIsTold`, `StatusHasItsFacts` (evidence of what is resolved, reason of what is escalated, a stopped clock in what waits), `DueKeepsPauses` | two callers, transitions and client messages, six requests, two instants |
| `ticket_risk` | `OverdueIsFlagged` | one caller (transitions, messages, triage), one scan, five requests, four instants |

Three moves reach `ESPERA_CLIENTE` from `NUEVO`; six requests leave three to
interleave there. One tick of the clock is enough for a pause that lasts;
the risk run has four, so that each deadline (1 to 3) passes. The deadlines keep
the order of the priorities, and P1's is the shortest.

*Fairness.* `WF(ListForRisk)`: the cron is periodic. `SF(MarkRisk)`: passes may
fail, not all of them. Nothing is assumed of people: a ticket may wait for ever.

## 5. The mailbox

`InboundEmail` is `InboundEmailScheduler`, `InboundEmailService.drain` and
`retry`, with the queries of `InboundEmailsRepository`, the flags of
`ImapMailboxService` and the pure rules of `domain/` (`correlate`,
`shouldReplyToUnknown`, `hasReachedNewTicketCap`). A mail is data: its
Message-ID, its sender, the verdict of the first screening, the Message-IDs it
answers, the code in its subject, whether anything is left of it.

| Variable | In the code |
|---|---|
| `flag`, `enabled` | the `\\Seen` flag of each mail of the folder; the switch of the ingestion |
| `rows` | `inbound_emails`; `requeued` is the renamed `message_id` |
| `tickets`, `posts`, `replies` | what is created: tickets with the Message-IDs that lead to them, messages, answers to strangers |
| `pc`, `batch`, `trust`, `draft`, `claim` | the stack of a `drain`: where it stands, the mails it fetched, whether it knows the name of our server, the row it is about to insert and the one it owns |
| `apc`, `arow` | the stack of a `retry` |
| `made`, `opened` | history: what was written for each Message-ID, and the age of the tickets |

| Action | In the code |
|---|---|
| `StartPass`, `Look`, `Screen`, `Judge`, `JudgeBlind` | the fetch, `findByMessageId`, the discards that need no sender, the decision by kind of sender, and the same with counts that cannot be read |
| `Record`, `RecordUnconfirmed` | the INSERT that claims or discards, whose unique key decides (a claim that finds it taken leaves the mail, a discard is an exception as any other: `KeyTaken`); its lost answer |
| `Write`, `WriteFails`, `Link`, `LinkFails`, `FailRow` | `TicketsService.create` or `TicketMessagesService.post`, the completion of the row, and their `catch` |
| `RecordError`, `Throw`, `Reply`, `Mark` | the `catch` of `drain`, the answer to a stranger, `markProcessed` |
| `StartRetry`, `Unmark`, `Rename`, `RetryFails` | `retry`, in its order: the mailbox first, the row afterwards |
| `Crash`, `Switch`, `HourPasses`, `WeekPasses` | a restart, the settings, the windows of the caps |

`MessageOnce` is the promise: a Message-ID is claimed before anything is written
for it, written for at most once, and a claim given back allows no second
writing. `OnceImplemented` is the refinement: `held` is the set of Message-IDs
with a row that has not been renamed, `written` is `made`.

| Run | Question | Bounds |
|---|---|---|
| `inbound_readers` | `EffectOnce`, `NothingLostInSilence`, `OutcomeIsTrue` | two processes, one mail delivered twice and one that answers it, two failures, one restart |
| `inbound_retry` | `ErrorIsSafeToRequeue`, `BrakesHold` (the cap of new tickets, the two brakes on answers), the refinement, `EveryMailIsRead` | one process, one administrator, five mails of a client, the staff and a stranger, batches of two, caps of one, one failure, one passing of the hour or of the week |
| `inbound_requeue_lost` | violation, see section 9 | one process, one administrator |

Two readers are the overlap of a restart that has not finished (the brake is per
process). A mail delivered twice is the smallest contention for a Message-ID. Two
failures are what it takes to fail and then fail to tell; caps of one are reached
by the second mail.

*Fairness.* `WF` of the start of a pass, because the cron fires every minute while
the ingestion is on, and of the steps of a pass, each of which ends well or badly.
`EveryMailIsRead` asks for it only once the ingestion stays on.

## 6. The portal

`PortalInvitations` is `PortalInvitationsService` and the parts of
`ClientUsersBulkService`, `ClientUsersService` and `PortalUsersService` that write
the same two tables.

| Variable | In the code |
|---|---|
| `users`, `invs` | `client_users` by address (its unique key) and `client_user_invitations` |
| `left` | invitations whose mail left: whoever has it may accept |
| `working`, `former` | authors whose account is active, companies that are customers no more |
| `reviews`, `sending` | the signed blocks of a review; `enCurso` |
| `pc`, `req`, `todo` | a request in flight, with what it read and the rows it has left |
| `raced` | history: addresses for which two creations overlapped |

| Action | In the code |
|---|---|
| `StartInvite`, `LookUser`, `LookLive`, `StartResend`, `Replace`, `Mail` | `invite` and `resend`: reads, `replaceInvitation` in one transaction, `deliver` |
| `StartAccept`, `Lock`, `CheckAccept`, `Grant` | `accept`: one transaction that begins with the only pessimistic lock of the back end |
| `Review`, `StartConfirm`, `Row`, `LookFresh`, `EndConfirm` | the bulk upload; each of its rows goes through `LookUser` ... `Mail` |
| `StartDeactivate`, `Deactivate`, `PanelCreate`, `PanelUpdate`, `AuthorLeaves`, `ClientLeaves` | what the staff, the administrators and the rest of the CRM change meanwhile |
| `Expire`, `ReviewExpires`, `RequestFails`, `Crash` | the clock, errors and restarts |

`PortalAccess` is the promise, with no requests in it: a link ends once, used or
revoked; a new one revokes none, or all the open ones of its address in its
company; an address that belongs to a company never passes to another.
`LinksImplemented` is the refinement: a link is a row without its author and its
expiry, and the member is the company of the user. It implies
`RevokedIsNeverUsed`, which is a theorem of its own.

| Run | Question | Bounds |
|---|---|---|
| `portal_links` | the refinement `LinksImplemented`, `AcceptedAtHome`, `OneLiveUnlessRaced` | two companies that invite one person, two requests, three invitations |
| `portal_bulk` | `OneConfirmationPerBlock`, `ConfirmationSparesNewLinks` | one company, one block, two requests, two invitations; the company and an author may leave |

Addresses do not interact, so one is enough; two requests are what a race takes;
three invitations are the live one, its replacement and one that crosses.
With two companies `ConfirmationSparesNewLinks` is not claimed:
`findLiveByEmail` takes any live invitation of the address, whatever its company
and in no order, so the one it looks at may not be the one born after the review.
No liveness is stated: nobody is obliged to send another request.

## 7. The board

`WorkItemBoard` is `WorkItemBoardService`, `WorkItemIntakeService`, `create` and
`remove` of `WorkItemsService`, the request made from the portal and the pure
`reorder`, `insertionIndex` and `assertMovable`. A transaction of MySQL under
REPEATABLE READ is two steps: `Begin...` reads its snapshot and decides all it
will write, and `Commit` writes. The rows that two transactions write are locked
by the first, so that no third step shows in between.

| Variable | In the code |
|---|---|
| `items`, `told` | `work_items` by id, and the events of each |
| `pc`, `req` | a request: what its snapshot told and what it will write (`Plan`) |
| `late`, `passed`, `raced`, `shaken` | history: columns changed since a snapshot, requests whose card changed status since theirs, cards written by them, and columns left with no exact numbering |

| Action | In the code |
|---|---|
| `StartMove`, `BeginMove`, `BeginPriority` | `move`, `changePriority` |
| `BeginCreate`, `Insert`, `Ask` | `create` of the staff (column, then row) and of the portal |
| `BeginAccept`, `BeginReject` | the intake |
| `StartRemove`, `Delete` | `remove`: check, then delete by id, in no transaction |
| `Commit`, `Fail` | the writes of a plan; a refusal or a rollback |

Run `board`: two requests, two cards, two statuses to move to, two priorities,
four events. `ClosedIsDated`, `StatusIsTold`, `AcceptedFirst`, `AnsweredOnce`
and `Numbered`. Where two requests cross, the code
promises nothing and the properties except what the history marks, and only it:
a card written by a request that another had passed, a column in which a change
crossed another until it is numbered again. `AcceptedFirst` has no exception. Two
cards make an order, two columns a move between them, and four events are a life
from the request to the board and back.

## 8. Recordings and actas

`MeetingRecords` is `AudioService.upload`, `TranscriptionsService`, its BullMQ
processor (one job at a time), `AudioRetentionService` and the life of an acta in
`ActasService`. TypeORM's `save` writes every column of the row the request holds:
that is what the model is about.

| Variable | In the code |
|---|---|
| `audio`, `talk` | `audio_files` (is the file there, why not) and `transcriptions` |
| `jobs`, `work` | the queue, which outlives the process, and the worker with the row it holds |
| `acta`, `pdf`, `meeting` | the row of the acta, the files of the storage by version, the status of the meeting |
| `policy` | `audioRetentionPolicy` |
| `pc`, `req` | a request, and the row it holds while it waits |
| `outdated` | history: requests that hold a row which another has written since |
| `halved`, `stale`, `trodden` | history: recordings whose request ended between row and queue; transcriptions an outdated request saved over; whether one wrote the acta or its PDF since the approval |
| `teller` | history: who wrote the status of the meeting last |

| Action | In the code |
|---|---|
| `Upload`, `Enqueue`, `Mark` | `upload`: rows, job, status of the meeting |
| `StartRetry`, `SaveRetry`, `StartEdit`, `SaveEdit` | `retry`, `update` of a transcription |
| `Take`, `Start`, `TellStart`, `Hear`, `SaveText`, `TellText`, `Forget`, `SaveFailure`, `WorkerBreaks` | `process`, with the row and the status of the meeting as two writes, and what BullMQ does with its end |
| `SetStatus` | `MeetingsService.update`: any status, at any time, by hand |
| `StartActa`, `SaveDraft`, `TellDraft`, `SaveRewrite`, `SaveSubmit`, `SaveApproved`, `TellApproved`, `StorePdf`, `Export`, `Retain` | the operations of an acta, save by save |
| `DeleteAudio`, `ChangePolicy`, `Fail`, `Crash` | retention by hand or by age, the settings, errors and restarts |

A deletion of audios (`DeleteAll`) is the removal of a file and the mark of its row,
and either may fail by itself.

Run `records`: two requests and the worker, one recording, one retry by hand, two
texts of the acta, two failures or restarts, three of the policies
(`KEEP_FOREVER` does nothing). A behaviour has one of four mixes of requests: the
transcription (`upload`, `retry`, `edit`, `delete`), the acta (`upload`, `acta`),
the policy (`upload`, `delete`, `policy`), the meeting edited by hand (`upload`,
`retry`, `status`). All at once would be the product of parts that meet only in
`meeting` and `audio`, which each mix has. What each property says, and what it
leaves out because the code does it (section 9):

* `NoForgottenTranscription`: what says PENDING or PROCESSING has a job or a
  request about to add it. Left out, for good, is a recording whose request ended
  between row and queue (`halved`), one an outdated retry or edit saved over
  (`stale`), and one with a job cut by a failed write on its last attempt or by a
  second stall (`Cut`).
* `TranscribingIsTrue`: when the worker was the last to write the meeting's status
  and left it at TRANSCRIBING, with no job left, some recording is not COMPLETED.
  Left out is what a person or an upload wrote, and again `stale` and `Cut`.
* `TextSurvivesAudio`: no audio goes by NEVER_STORE without its text kept. Left out
  is `stale`. The text may be empty, if that is what the provider heard.
* `ApprovedIsFrozen`, `PdfIsTheActa`: left out is what an outdated request wrote,
  and `PdfIsTheActa` says nothing of an acta that stays APPROVED with no PDF.

No fairness: what remains undone after a failure remains so.

## 9. Where the code and its comments disagree

`inbound_requeue_lost` is a run: `retry` marks the mail unread and then renames
its row. A pass that reads the mailbox between the two finds the row, counts a
duplicate and marks the mail read; the row is renamed, a second retry is refused,
and nobody reads the mail, although the screen has said that the next cycle will.

Seen while modelling, without a run of their own:

* *Outbox.* The mail to the client leaves, the team's fails, and the retry does
  not reach the client: the row is sealed with a null `sent_message_id`. The wait
  before a retry counts from the start of the pass. The comment at
  `notification.scheduler.ts:340` expects a crash to leave rows with no attempts; the
  theorem `NoPendingRowIsExhausted` shows that only a lowered limit does.
* *Ticket.* Two requests, or a request and an LLM, that read the same row: a move
  that the state machine lacks, a clock that stays stopped, a pause ended
  meanwhile that is lost from due date and total alike, a client's message that
  wakes nobody, a triage over a priority fixed meanwhile. Two passes of the
  risk scan tell a ticket twice. Triage after a pause moves the due date back and
  keeps the paused minutes. `take` on `RESUELTO` writes the assignee and is
  refused afterwards. A change of impact or urgency derives the priority again
  and leaves `priorityOverridden` set.
* *Mailbox.* A failed read of the server's name discards a whole pass as not
  authenticated. A crash after the claim leaves a row that says `TICKET_CREADO`
  and no ticket, and such a row cannot be put back.
* *Portal.* `resend` of an expired invitation ignores other companies, so two
  companies may have a live link for one address without any race; it keeps an
  author whose account may be closed. A FALLO may be told of a mail that left. A
  deactivation decided on an old reading may reach someone just made administrator.
  Two creations that cross leave two live invitations for the address (`raced`).
* *Board.* `domain/work-item-board.ts:80-83` says that nothing reaches SOLICITADO
  and only a rejection reaches RECHAZADO, but `MoveWorkItemDto` admits every
  status. `work-item-board.service.ts:66-75` says the reading inside the
  transaction prevents a `closed_at` left set: a snapshot only narrows the window.
  A card deleted while a transaction is open leaves an event of no card, and a
  card that started after `remove` had read it is deleted. Two moves that cross in a
  column leave positions that repeat (`shaken`); two answers that cross, a request
  accepted and rejected (`raced`).
* *The acta.* One that is rewritten while it is approved goes back to what it was,
  although `MeetingDetailPage.tsx:529` says it can be modified no more, and the
  retention may have deleted its audios by then. A failure between APPROVED and
  the PDF leaves an approved acta that nothing approves again.
* *The status of the meeting.* The upload writes TRANSCRIBING after it has queued
  the job, perhaps over the worker's TRANSCRIBED, and a recording uploaded after
  the approval takes the meeting back there. A transcription that fails for good
  leaves it at TRANSCRIBING, and so does a worker killed for the second time after
  the row was COMPLETED and before the meeting was told. The form of the meeting
  (`meetings/meetings.service.ts:91-97`) takes any status at any time.
* *Transcriptions that nothing serves.* `retry` takes only FAILED
  (`transcriptions/transcriptions.service.ts:68`), so that these stay PENDING or PROCESSING: an
  upload or a retry that ends between the row and the queue; a job whose last
  attempt (a retry by hand has only one) cannot write FAILED; a job that stalls
  twice; a retry or an edit that saves an old row after the job has ended.
* *Texts lost.* A retry reads FAILED and no text, another attempt completes,
  NEVER_STORE deletes the audio, and the retry saves the row it had read
  (`transcriptions/transcriptions.service.ts:67-76`): neither text nor audio is left. A
  correction made while the job is pending is overwritten by the worker. A retry
  during the backoff makes two jobs, and the second turns COMPLETED into FAILED,
  its text kept, once NEVER_STORE has taken the audio.
* *Retention* (`audio/services/audio-retention.service.ts:25-35`). A removal that fails leaves a file
  whose row says it was deleted; a mark that fails, a row of a file that is gone.

## 10. What is proved

`NotificationOutboxProofs`, from `OutboxAssumption` alone (the types of the
constants, and at least one attempt and one failure allowed):

* `TypeCorrect`, `ListingStaysCurrent`. `IInv` is the type invariant with
  `OnePass` (at most one pass off `idle`, and then the brake is set), `PassShape`
  (a pass holds a row exactly while it dispatches it, and that row has attempts
  left and is not blocked), `ListingIsCurrent` and `FailuresToSpare`.
  `ListingIsCurrent` is not inductive alone: it is the brake that keeps another
  pass from writing what this one listed.
* `NoRepeatWithoutAFault` and `DispatchesAreBounded`, from `Accounts`: a row not
  sealed has spent exactly the dispatch in flight (`UnexcusedAreInFlight`), and
  its dispatches are bounded by attempts on record, lives and failures counted
  (`OpenBudget`, stronger than the bound while the row is open).
* `NoPendingRowIsExhausted`, `SealedRowsAreLeftAlone`, from the same invariants.
* `MessagesKeepToTheirSide` and `MessageIdsAreTheClients`, from `MailInv`: between
  the listing and the mails the plan of a row does not change (`MailedAsPlanned`,
  `TriedAsPlanned`), so a mail goes to who the event was for when it was listed
  (of a message: only if readably public, only to the side that did not write it),
  and the identifier kept for the thread is of a mail the client was sent.
* `OutboxDelivers`: the refinement of `EventDelivery`, step by step, under the two
  invariants above. Each write of a pass is of the row it is at, and that row is
  still pending with the attempts that were listed; an UPDATE whose answer is lost
  is the step or a stutter, and a restart is a stutter.

`TicketLifecycleProofs`, from `LifecycleAssumption` (callers are not scans,
windows are positive):

* `TypeCorrect`, `TimelineAgrees`, `FactsHold`, `RiskIsToldWithItsFlag` and
  `MessagesOnlyWake`, for any number of requests and scans in flight.
  `IInv` joins `RowHolds`, the properties of the row, with `ReadingHolds`, what
  stays true of a reading whatever is committed after it: its clock is not ahead,
  an answered ticket is still answered, and a transition about to commit was
  admissible when it read. The properties that hold do so because the patch
  brings along what its status needs; those that fail with two callers
  (section 9) are the ones whose fact can be undone by another handler.
* `DueDatesKeepPauses`, for any number of transitions and messages in flight,
  while nobody triages: every row, and every reading a handler may still write
  from, holds an original deadline plus its pauses (`DueInv`). Triage computes
  the due dates from nothing and breaks it.
* `AloneClockStopsOnlyWaiting`, `AloneNoSleepingAnswer` and `AloneOnlyLegalMoves`
  under `Alone`: one request in flight, scans without limit. What makes them hold
  is that whoever is halfway still sees the status of the row (`AloneInv`), which
  a second request would falsify. `QuietSteps` gathers the steps that touch
  neither status nor clock, so only three actions are argued one by one.

`InboundEmailProofs`, from the types of the constants:

* `InboundTypes` for any constants. `MailOnce`, `ErrorIsSafe` and `MailRefines`
  under `Setting`: nobody puts mails back, or a single process reads. The code
  needs it: with two processes, one that found the row of a Message-ID missing
  may insert after a retry of another's row.
* `OnceInv` joins `SoleKey` (one row with a Message-ID that was not renamed),
  `Holding` (who is writing owns a row of its mail, and no other does),
  `WriteFresh` (nothing was written yet for it), `Remembered` and
  `UntiedHasTicket` (a Message-ID written for has a row, or a ticket that keeps
  it), `Retrying` and `Checked`. `EffectOnce` alone says nothing of the claim that
  makes the second writing impossible.
* `NothingIsLostInSilence`, for any constants, from `SilentInv`: before the second
  failure, who is past the claim, and every mail marked read, has a row of its
  Message-ID (`Kept`), which no step takes away (`RowsStay`). Who is about to record
  an exception has counted a failure, or found its key taken, and then the row is
  there.
* `OutcomesAreTrue`, under `Setting`: `OutcomeIsTrue` is inductive next to
  `OnceInv`, since the reader that writes holds a row of its own mail and nothing
  was written for it before.
* `BrakesAreHeld`, while one process reads (`Readers = {r}`). A brake is a count of
  rows made in `Judge`, spent in `Record` and paid for in `Write` or `Reply`, so
  `BrakesHold` is not inductive. `BrakesInv` counts, for each sender and window,
  the rows with the one that is judged and not inserted yet (`Within`), and what is
  opened or answered with what is about to be (`OpenedHaveRows`,
  `AnswersHaveRows`): never more than the rows that pay for it. Rows in ERROR are
  in the second count and in no cap, which is why the property allows for them.
  Two processes may judge before either inserts; the theorem needs its hypothesis.

`PortalInvitationsProofs`, from `PortalAssumption`:

* `PortalTypes`, `DeadLinks`, `NoForeignAccess`. `IInv` adds to the types what a
  request in flight may rely on (`RequestOK`) and `OneHolder`: two accepts do not
  hold one invitation. `Grows` is what every step does to the tables, so that
  what one request knows survives the others.
* `NoCrossRevocation`, an action property. `OneLiveLink`, from `RaceInv`: who is
  about to create and saw nothing alive is right, unless the address is `raced`.
  `OneSender`, from `SendInv`. `RepeatsSpareLinks` for one company, from
  `SpareInv`: invitations expire in the order of their birth, and a confirmation
  past its check has seen nothing newer than its review.
* `PortalKeepsItsPromise`: the refinement of `PortalAccess`, for any companies and
  requests. Three actions are steps of the promise: `Replace` issues, `Grant` uses,
  `PanelCreate` enrols, and the rest stutter. `Grant` needs `RequestOK`: whoever
  holds the lock sees the link still open and its user, if any, of the company.

`WorkItemBoardProofs`, for any number of cards and requests:

* `BoardTypes`, `AcceptedBeforeAnyColumn`, `EventsTellTheStatus`,
  `ClosingDateIsTrue`. What is hard is the row that a request computed from a
  snapshot and saves later. `IInv` says of each request that its event names the
  status it will write (`PlanOK`), that it commits over the status it read unless
  another has passed it, and that a card of the portal it is moving was accepted
  (`Knows`), and that a row not yet committed belongs to nobody else (`Fresh`);
  `RowOK` joins the three properties of the row. `Accepted` is never undone, which
  is why `AcceptedFirst` needs no exception for requests that crossed. Much of
  the module is the arithmetic of the columns: that reordering, whatever the
  snapshot, gives naturals to the cards that are there.
* `OneAnswerEachTime`, from `CountOK`: of a card that nobody wrote behind another's
  back, the answers, with one more while it waits, are no more than the times it
  was put to wait. The property leaves out the answer that is still owed.

`WorkItemBoardOrderProofs`, on top of it:

* `ReorderNumbersExactly`, `ReorderKeepsTheOthers`, `InsertedByPriority`: what
  `reorder` and `insertionIndex` compute, for any column, gaps and ties included,
  and any index: an exact numbering, the card where it was asked, the others in
  their order, a card that enters by priority right above the first lower one.
  `Place` is a cardinality, so they rest on counting the cards below one.
* `ColumnsAreNumbered`, from `NumInv`: a request in flight that nobody crossed
  leaves an exact numbering of the columns it renumbers (`Exact`), whatever the
  numbering was in its snapshot. A commit shakes the columns it touches, except
  those it numbers anew from a reading that nobody crossed, which it mends.

`MeetingRecordsProofs`, for any recordings, requests, retries and restarts:

* `RecordTypes`, `NoTranscriptionIsForgotten`, `MeetingTellsTheTruth`,
  `TextIsKept`, `PdfHoldsTheActa` and the action property `ApprovedStaysFrozen`.
  With no lock and no version, `IInv` rests on who may write while another holds
  a row: a request holds the row as it is, or it is marked `outdated`
  (`CurrentTalk`, `CurrentActa`).
* For the recordings, `WorkKnows` is what the worker holds at each step: a text
  whenever the audio may be gone, so that the row it saves over the table's does
  not lose it. `NoForgotten` counts the jobs that are there or were cut (`Kept`)
  instead of those still running. `Transcribing` is `TranscribingIsTrue` without the
  condition that everything is quiet: while the worker's TRANSCRIBING stands
  (`Told`) something is not transcribed, or its job is kept.
* For the acta, `Rendered`: while no outdated request wrote, the file under the
  version of who is about to export holds its text. Neither `ApprovedIsFrozen` nor
  `PdfIsTheActa` says anything of the request in between.
* The theorems hold for every value of the constants, with the exceptions of the
  properties they state (section 8): they do not say that the code never loses a
  transcription or a text, but in which ways alone it does.

Every invariant and action property of a passing run, and the three refinements,
are stated by a theorem. Only model-checked: the liveness properties
`EveryRowSettles`, `EveryMailIsRead` and `OverdueIsFlagged` (fairness and ENABLED
are beyond TLAPS). The theorems with a hypothesis say it (`Alone`, nobody triages,
`Setting`, one reader, one company); outside it nothing is claimed, and sections 6
and 9 tell what goes wrong. The prover cannot do induction over data, nor use
modules with RECURSIVE operators; the modules here have neither.

## 11. What is not modelled

* A second process of the outbox and of the risk scan. The brake and the memory of
  the scheduler are per process; a comment accepts what two would do, and the
  deployment has one. `InboundEmail` does have two readers.
* Two tickets: no handler touches two. The time a scan spends on the others is
  the time between its list and its write.
* The rendering of mails and templates; the catalogues; the messages of the team,
  which leave the ticket alone; `update`, which cannot touch the columns
  modelled; `pushToJira` and the closure document.
* A client whose SLA policy changes while its tickets are open: `Window` is fixed.
* Deletion of the ticket is in both: in the lifecycle as `GONE`, in the outbox as
  an empty plan (`ticket_events` has no foreign key to `tickets`).
* The components marked `not_modelled` in `PROJECT.json`, each with its reason;
  their hazards are listed there.
