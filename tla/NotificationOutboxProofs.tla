----------------------- MODULE NotificationOutboxProofs -----------------------
(***************************************************************************)
(* Proofs about NotificationOutbox, for any number of rows, passes,        *)
(* attempts and restarts.  The inductive invariant says that the brake of  *)
(* handleCron leaves at most one pass on its stack; everything else rests  *)
(* on that, because a pass decides on what it listed and not on the table. *)
(***************************************************************************)
EXTENDS NotificationOutbox, SequenceTheorems, TLAPS

\* The brake: while one pass is on its stack no other is.
OnePass ==
    /\ \A p, q \in Passes : pc[p] # "idle" /\ pc[q] # "idle" => p = q
    /\ \A p \in Passes : pc[p] # "idle" => runningSince

\* A pass holds a row exactly while it dispatches it, and that row is neither
\* blocked, nor out of attempts, nor still in its batch.
PassShape ==
    \A p \in Passes :
        /\ pc[p] = "idle" => batch[p] = {}
        /\ pc[p] = "sending" <=> cur[p] # 0
        /\ cur[p] # 0 => /\ cur[p] \notin blocked
                         /\ cur[p] \notin batch[p]
                         /\ seen[p][cur[p]] < MaxAttempts

\* A row not blocked has failed UPDATEs to spare.
FailuresToSpare == \A e \in Ids \ blocked : writeFailures[e] < MaxWriteFailures

\* Every dispatch of a row still open has been paid for, but the one going on.
UnexcusedAreInFlight ==
    \A e \in Ids :
        /\ unexcused[e] <= 1
        /\ row[e] # "sealed" => unexcused[e] = IF InFlight(e) THEN 1 ELSE 0

\* DispatchBudget, with what is left of it while the row is open.
OpenBudget ==
    \A e \in Ids :
        IF row[e] = "sealed"
        THEN dispatched[e] <= MaxWriteFailures * (notifyAttempts[e] + lives)
        ELSE dispatched[e] <= MaxWriteFailures * (notifyAttempts[e] + lives - 1)
                                + writeFailures[e] + (IF InFlight(e) THEN 1 ELSE 0)

\* A row that is not there yet has spent nothing.
AttemptsLeft ==
    /\ \A e \in Ids : row[e] = "none" => notifyAttempts[e] = 0
    /\ PendingHasAttemptsLeft

ControlInv == OnePass /\ PassShape /\ ListingIsCurrent /\ FailuresToSpare
IInv == TypeOK /\ ControlInv
-----------------------------------------------------------------------------
\* Helpers of the model: a difference cut at zero, a delay, a message row.
LEMMA MinusFact ==
    ASSUME NEW a \in Nat, NEW b \in Nat
    PROVE  Minus(a, b) \in Nat /\ Minus(a, b) <= a
BY DEF Minus

LEMMA RetryDelayFact ==
    ASSUME NEW spent \in Nat \ {0}
    PROVE  RetryDelay(spent) \in 0 .. MaxDelay
<1>1. RetryDelays \in Seq(0 .. MaxDelay) /\ Len(RetryDelays) \in Nat \ {0}
  BY OutboxAssumption
<1>2. \A i \in 1 .. Len(RetryDelays) : RetryDelays[i] \in 0 .. MaxDelay
  BY <1>1, ElementOfSeq
<1>3. CASE spent > Len(RetryDelays)
  BY <1>1, <1>2, <1>3 DEF RetryDelay
<1>4. CASE ~(spent > Len(RetryDelays))
  BY <1>1, <1>2, <1>4 DEF RetryDelay
<1> QED
  BY <1>3, <1>4

LEMMA NoRowFact == NoRow \in EventRows
BY DEF NoRow, EventRows, EventTypes, ActorColumn

\* The UPDATEs keep the types of what they touch.
LEMMA NoteWriteTypes ==
    ASSUME TypeOK, NEW e \in Ids, NEW outcome,
           writeFailures[e] < MaxWriteFailures, NoteWrite(e, outcome)
    PROVE  /\ writeFailures' \in [Ids -> 0 .. MaxWriteFailures]
           /\ blocked' \subseteq Ids
           /\ blocked \subseteq blocked' /\ blocked' \subseteq blocked \cup {e}
           /\ \A d \in Ids \ {e} : writeFailures'[d] = writeFailures[d]
           /\ e \notin blocked' => writeFailures'[e] < MaxWriteFailures
<1> USE OutboxAssumption DEF TypeOK, NoteWrite, TooManyFailures
<1>1. CASE outcome = "ok"
  <2>1. writeFailures' = [writeFailures EXCEPT ![e] = 0] /\ blocked' = blocked
    BY <1>1
  <2>2. 0 \in 0 .. MaxWriteFailures
    OBVIOUS
  <2> QED
    BY <2>1, <2>2
<1>2. CASE outcome # "ok"
  <2>1. /\ writeFailures' = [writeFailures EXCEPT ![e] = @ + 1]
        /\ blocked' = IF writeFailures[e] + 1 >= MaxWriteFailures
                      THEN blocked \cup {e} ELSE blocked
    BY <1>2
  <2>2. writeFailures[e] + 1 \in 0 .. MaxWriteFailures
    OBVIOUS
  <2> QED
    BY <2>1, <2>2
<1> QED
  BY <1>1, <1>2

LEMMA SealTypes ==
    ASSUME TypeOK, NEW e \in Ids, NEW attempts \in 0 .. MaxAttempts, NEW hasId \in BOOLEAN,
           NEW outcome, Seal(e, attempts, hasId, outcome)
    PROVE  /\ row' \in [Ids -> {"none", "pending", "sealed"}]
           /\ notifyAttempts' \in [Ids -> 0 .. MaxAttempts]
           /\ wait' \in [Ids -> 0 .. MaxDelay]
           /\ sentMessageId' \in [Ids -> BOOLEAN]
           /\ \A d \in Ids \ {e} : row'[d] = row[d] /\ notifyAttempts'[d] = notifyAttempts[d]
<1>1. 0 \in 0 .. MaxDelay
  BY OutboxAssumption
<1> QED
  BY <1>1 DEF TypeOK, Seal

LEMMA RecordTypes ==
    ASSUME TypeOK, NEW e \in Ids, NEW spent \in 1 .. MaxAttempts,
           NEW elapsed \in 0 .. MaxDelay, NEW outcome,
           RecordNotifyFailure(e, spent, elapsed, outcome)
    PROVE  /\ row' \in [Ids -> {"none", "pending", "sealed"}]
           /\ notifyAttempts' \in [Ids -> 0 .. MaxAttempts]
           /\ wait' \in [Ids -> 0 .. MaxDelay]
           /\ sentMessageId' \in [Ids -> BOOLEAN]
           /\ \A d \in Ids \ {e} : row'[d] = row[d] /\ notifyAttempts'[d] = notifyAttempts[d]
<1>1. MaxAttempts \in Nat /\ MaxDelay \in Nat
  BY OutboxAssumption
<1>2. RetryDelay(spent) \in 0 .. MaxDelay
  BY <1>1, RetryDelayFact
<1>3. Minus(RetryDelay(spent), elapsed) \in 0 .. MaxDelay
  BY <1>1, <1>2 DEF Minus
<1>4. spent \in 0 .. MaxAttempts
  BY <1>1
<1>5. UNCHANGED <<row, sentMessageId>>
  BY DEF RecordNotifyFailure
<1>6. CASE outcome \in {"ok", "doneUnconfirmed"}
  BY <1>3, <1>4, <1>5, <1>6 DEF TypeOK, RecordNotifyFailure
<1>7. CASE outcome \notin {"ok", "doneUnconfirmed"}
  BY <1>5, <1>7 DEF TypeOK, RecordNotifyFailure
<1> QED
  BY <1>6, <1>7
-----------------------------------------------------------------------------
\* One row of the batch is taken: what the loop may rely on.
LEMMA TurnsToFact ==
    ASSUME IInv, NEW p \in Passes, NEW e \in Ids, TurnsTo(p, e)
    PROVE  /\ batch' \in [Passes -> SUBSET Ids]
           /\ \A q \in Passes : batch'[q] \subseteq batch[q]
           /\ e \notin batch'[p]
           /\ e \in batch[p] /\ e # 0
           /\ pc[p] = "loop" /\ cur[p] = 0
           /\ \A q \in Passes : q # p => pc[q] = "idle" /\ cur[q] = 0 /\ batch[q] = {}
           /\ row[e] = "pending" /\ seen[p][e] = notifyAttempts[e]
           /\ ~InFlight(e)
<1> USE DEF IInv
<1>1. TypeOK /\ OnePass /\ PassShape /\ ListingIsCurrent
  BY DEF ControlInv
<1>2. e # 0
  BY OutboxAssumption
<1>3. pc[p] = "loop" /\ e \in batch[p] /\ batch' = [batch EXCEPT ![p] = @ \ {e}]
  BY DEF TurnsTo
<1>4. \A q \in Passes : q # p => pc[q] = "idle" /\ cur[q] = 0 /\ batch[q] = {}
  BY <1>1, <1>3 DEF OnePass, PassShape, TypeOK
<1>5. cur[p] = 0
  BY <1>1, <1>3 DEF PassShape
<1>6. batch' \in [Passes -> SUBSET Ids] /\ e \notin batch'[p]
      /\ \A q \in Passes : batch'[q] \subseteq batch[q]
  BY <1>1, <1>3 DEF TypeOK
<1>7. ~InFlight(e)
  BY <1>2, <1>4, <1>5 DEF InFlight
<1>8. row[e] = "pending" /\ seen[p][e] = notifyAttempts[e]
  BY <1>1, <1>3 DEF ListingIsCurrent
<1> QED
  BY <1>2, <1>3, <1>4, <1>5, <1>6, <1>7, <1>8

\* The row a pass is dispatching.
LEMMA CurFact ==
    ASSUME IInv, NEW p \in Passes, pc[p] = "sending"
    PROVE  /\ cur[p] \in Ids
           /\ \A q \in Passes : q # p => pc[q] = "idle" /\ cur[q] = 0 /\ batch[q] = {}
           /\ row[cur[p]] = "pending" /\ seen[p][cur[p]] = notifyAttempts[cur[p]]
           /\ cur[p] \notin blocked /\ writeFailures[cur[p]] < MaxWriteFailures
           /\ seen[p][cur[p]] < MaxAttempts
           /\ cur[p] \notin batch[p]
<1>1. TypeOK /\ OnePass /\ PassShape /\ ListingIsCurrent /\ FailuresToSpare
  BY DEF IInv, ControlInv
<1>2. cur[p] \in Ids
  BY <1>1 DEF TypeOK, PassShape
<1>3. \A q \in Passes : q # p => pc[q] = "idle" /\ cur[q] = 0 /\ batch[q] = {}
  BY <1>1 DEF OnePass, PassShape, TypeOK
<1>4. cur[p] # 0
  BY <1>1 DEF PassShape
<1>5. /\ cur[p] \notin blocked /\ cur[p] \notin batch[p]
      /\ seen[p][cur[p]] < MaxAttempts
  BY <1>1, <1>4 DEF PassShape
<1>6. writeFailures[cur[p]] < MaxWriteFailures
  BY <1>1, <1>2, <1>5 DEF FailuresToSpare
<1>7. row[cur[p]] = "pending" /\ seen[p][cur[p]] = notifyAttempts[cur[p]]
  BY <1>1, <1>2 DEF ListingIsCurrent
<1> QED
  BY <1>2, <1>3, <1>5, <1>6, <1>7

LEMMA InitTypeOK == Init => TypeOK
<1> SUFFICES ASSUME Init PROVE TypeOK
  OBVIOUS
<1>1. /\ MaxAttempts \in Nat /\ MaxDelay \in Nat /\ MaxWriteFailures \in Nat
      /\ MaxCrashes \in Nat
  BY OutboxAssumption
<1>2. /\ row \in [Ids -> {"none", "pending", "sealed"}]
      /\ notifyAttempts \in [Ids -> 0 .. MaxAttempts]
  BY <1>1 DEF Init
<1>3. 0 \in 0 .. MaxAttempts /\ 0 \in 0 .. MaxDelay /\ 0 \in 0 .. MaxWriteFailures
      /\ 1 \in 1 .. MaxCrashes + 1
  BY <1>1
<1>4. /\ seen \in [Passes -> [Ids -> 0 .. MaxAttempts]]
      /\ batch \in [Passes -> SUBSET Ids]
      /\ todo \in [Passes -> SUBSET Audiences]
      /\ age \in [Passes -> 0 .. MaxDelay]
      /\ cur \in [Passes -> Ids \cup {0}]
  BY <1>3 DEF Init, IdlePasses
<1> QED
  BY <1>2, <1>3, <1>4, NoRowFact DEF Init, IdlePasses, TypeOK

LEMMA InitControl == Init => ControlInv
<1> SUFFICES ASSUME Init PROVE ControlInv
  OBVIOUS
<1> USE DEF Init, IdlePasses
<1>1. OnePass
  BY DEF OnePass
<1>2. PassShape
  BY DEF PassShape
<1>3. ListingIsCurrent
  BY OutboxAssumption DEF ListingIsCurrent
<1>4. FailuresToSpare
  BY OutboxAssumption DEF FailuresToSpare
<1> QED
  BY <1>1, <1>2, <1>3, <1>4 DEF ControlInv
-----------------------------------------------------------------------------
\* Type correctness, action by action.
LEMMA NextTypeOK == IInv /\ [Next]_vars => TypeOK'
<1> SUFFICES ASSUME IInv, [Next]_vars PROVE TypeOK'
  OBVIOUS
<1>0. TypeOK /\ PassShape /\ FailuresToSpare
  BY DEF IInv, ControlInv
<1>c. /\ MaxAttempts \in Nat \ {0} /\ MaxDelay \in Nat /\ MaxWriteFailures \in Nat \ {0}
      /\ MaxCrashes \in Nat /\ Rows \subseteq EventRows
  BY OutboxAssumption
<1>1. ASSUME NEW e \in Ids, NEW r \in Rows, Emit(e, r)
      PROVE  TypeOK'
  BY <1>0, <1>1, <1>c DEF TypeOK, Emit, memory, pass, history
<1>2. CASE Tick
  <2>1. wait' \in [Ids -> 0 .. MaxDelay]
    BY <1>0, <1>2, <1>c DEF TypeOK, Tick, Minus
  <2>2. age' \in [Passes -> 0 .. MaxDelay]
    <3>1. /\ age \in [Passes -> 0 .. MaxDelay]
          /\ age' = [p \in Passes |-> IF pc[p] = "idle" \/ age[p] = MaxDelay
                                       THEN age[p] ELSE age[p] + 1]
      BY <1>0, <1>2 DEF TypeOK, Tick
    <3>2. \A n \in 0 .. MaxDelay : n # MaxDelay => n + 1 \in 0 .. MaxDelay
      BY <1>c
    <3> QED
      BY <3>1, <3>2
  <2> QED
    BY <1>0, <1>2, <2>1, <2>2 DEF TypeOK, Tick, memory, history
<1>3. CASE Crash
  <2>1. unexcused' \in [Ids -> Nat]
    BY <1>0, <1>3 DEF TypeOK, Crash, Minus
  <2>2. lives' \in 1 .. MaxCrashes + 1
    BY <1>0, <1>3, <1>c DEF TypeOK, Crash
  <2>3. /\ writeFailures' \in [Ids -> 0 .. MaxWriteFailures]
        /\ seen' \in [Passes -> [Ids -> 0 .. MaxAttempts]]
        /\ age' \in [Passes -> 0 .. MaxDelay]
        /\ batch' \in [Passes -> SUBSET Ids]
        /\ todo' \in [Passes -> SUBSET Audiences]
    BY <1>3, <1>c DEF Crash
  <2> QED
    BY <1>0, <1>3, <2>1, <2>2, <2>3 DEF TypeOK, Crash, db
<1>4. CASE HandleCronSkips
  BY <1>0, <1>4 DEF TypeOK, HandleCronSkips, db, memory, pass, history
<1>5. ASSUME NEW p \in Passes, HandleCron(p)
      PROVE  TypeOK'
  <2>1. batch' \in [Passes -> SUBSET Ids]
    BY <1>0, <1>5 DEF TypeOK, HandleCron, PendingBatch
  <2>2. /\ age' \in [Passes -> 0 .. MaxDelay]
        /\ seen' \in [Passes -> [Ids -> 0 .. MaxAttempts]]
        /\ pc' \in [Passes -> {"idle", "loop", "sending"}]
    BY <1>0, <1>5, <1>c DEF TypeOK, HandleCron
  <2> QED
    BY <1>0, <1>5, <2>1, <2>2 DEF TypeOK, HandleCron, db, memory, history
<1>6. ASSUME NEW p \in Passes, EndPass(p)
      PROVE  TypeOK'
  <2>1. /\ age' \in [Passes -> 0 .. MaxDelay]
        /\ seen' \in [Passes -> [Ids -> 0 .. MaxAttempts]]
        /\ pc' \in [Passes -> {"idle", "loop", "sending"}]
    BY <1>0, <1>6, <1>c DEF TypeOK, EndPass
  <2> QED
    BY <1>0, <1>6, <2>1 DEF TypeOK, EndPass, ReleaseBrake, db, memory, history
<1>7. ASSUME NEW p \in Passes, NEW e \in Ids, SkipBlocked(p, e)
      PROVE  TypeOK'
  BY <1>0, <1>7, TurnsToFact DEF TypeOK, SkipBlocked, db, memory, history
<1>8. ASSUME NEW p \in Passes, NEW e \in Ids, NEW outcome \in WriteOutcomes,
             SealExhausted(p, e, outcome)
      PROVE  TypeOK'
  <2>1. /\ TurnsTo(p, e)
        /\ Seal(e, seen[p][e], FALSE, outcome)
        /\ NoteWrite(e, outcome)
        /\ e \notin blocked
    BY <1>8 DEF SealExhausted, Seal
  <2>2. seen[p][e] \in 0 .. MaxAttempts /\ writeFailures[e] < MaxWriteFailures
    BY <1>0, <2>1 DEF TypeOK, FailuresToSpare
  <2>3. batch' \in [Passes -> SUBSET Ids]
    BY <2>1, TurnsToFact
  <2> QED
    BY <1>0, <1>8, <2>1, <2>2, <2>3, SealTypes, NoteWriteTypes
       DEF TypeOK, SealExhausted, history
<1>9. ASSUME NEW p \in Passes, NEW e \in Ids, NEW plan \in SUBSET Audiences,
             NEW lookupFails \in BOOLEAN, BeginDispatch(p, e, plan, lookupFails)
      PROVE  TypeOK'
  BY <1>0, <1>9, TurnsToFact DEF TypeOK, BeginDispatch, db, memory
<1>10. ASSUME NEW p \in Passes, NEW audience \in Audiences, NEW outcome \in SendOutcomes,
              DispatchOne(p, audience, outcome)
       PROVE  TypeOK'
  <2>1. cur[p] \in Ids
    BY <1>10, CurFact DEF DispatchOne
  <2>2. mailed' \in [Ids -> SUBSET Audiences]
    BY <1>0, <1>10, <2>1 DEF TypeOK, DispatchOne
  <2>3. /\ failed' \in [Passes -> BOOLEAN]
        /\ clientId' \in [Passes -> BOOLEAN]
        /\ todo' \in [Passes -> SUBSET Audiences]
    BY <1>0, <1>10 DEF TypeOK, DispatchOne
  <2> QED
    BY <1>0, <1>10, <2>2, <2>3 DEF TypeOK, DispatchOne, db, memory
<1>11. ASSUME NEW p \in Passes, NEW outcome \in WriteOutcomes, FinishDispatch(p, outcome)
       PROVE  TypeOK'
  <2> DEFINE e == cur[p]
             spent == seen[p][e] + 1
  <2>1. pc[p] = "sending"
    BY <1>11 DEF FinishDispatch
  <2>2. e \in Ids /\ writeFailures[e] < MaxWriteFailures /\ seen[p][e] < MaxAttempts
    BY <2>1, CurFact
  <2>3. /\ seen[p][e] \in 0 .. MaxAttempts /\ spent \in 1 .. MaxAttempts
        /\ age[p] \in 0 .. MaxDelay /\ clientId[p] \in BOOLEAN
    BY <1>0, <1>c, <2>2 DEF TypeOK
  <2>4. \/ Seal(e, seen[p][e], clientId[p], outcome)
        \/ Seal(e, spent, clientId[p], outcome)
        \/ RecordNotifyFailure(e, spent, age[p], outcome)
    BY <1>11 DEF FinishDispatch
  <2>5. NoteWrite(e, outcome)
    BY <2>4 DEF Seal, RecordNotifyFailure
  <2>6. /\ row' \in [Ids -> {"none", "pending", "sealed"}]
        /\ notifyAttempts' \in [Ids -> 0 .. MaxAttempts]
        /\ wait' \in [Ids -> 0 .. MaxDelay]
        /\ sentMessageId' \in [Ids -> BOOLEAN]
    BY <1>0, <1>c, <2>2, <2>3, <2>4, SealTypes, RecordTypes
  <2>7. /\ writeFailures' \in [Ids -> 0 .. MaxWriteFailures]
        /\ blocked' \subseteq Ids
    BY <1>0, <2>2, <2>5, NoteWriteTypes
  <2>8. unexcused' \in [Ids -> Nat]
    BY <1>0, <1>11, <2>2 DEF TypeOK, FinishDispatch, Minus
  <2> QED
    BY <1>0, <1>11, <2>6, <2>7, <2>8 DEF TypeOK, FinishDispatch
<1>12. CASE UNCHANGED vars
  BY <1>0, <1>12 DEF TypeOK, vars, db, memory, pass, history
<1> QED
  BY <1>1, <1>2, <1>3, <1>4, <1>5, <1>6, <1>7, <1>8, <1>9, <1>10, <1>11, <1>12
     DEF Next, Step
-----------------------------------------------------------------------------
\* The brake, the shape of a pass and the freshness of its listing.
LEMMA NextControl == IInv /\ [Next]_vars => ControlInv'
<1> SUFFICES ASSUME IInv, [Next]_vars PROVE ControlInv'
  OBVIOUS
<1>0. TypeOK /\ OnePass /\ PassShape /\ ListingIsCurrent /\ FailuresToSpare
  BY DEF IInv, ControlInv
<1>c. MaxWriteFailures \in Nat \ {0} /\ 0 \notin Ids /\ MaxAttempts \in Nat
  BY OutboxAssumption
<1>1. ASSUME NEW e \in Ids, NEW r \in Rows, Emit(e, r)
      PROVE  ControlInv'
  <2>1. UNCHANGED <<pass, memory, runningSince, notifyAttempts>>
        /\ \A d \in Ids : row[d] = "pending" => row'[d] = "pending"
    BY <1>0, <1>1 DEF Emit, TypeOK
  <2> QED
    BY <1>0, <2>1 DEF ControlInv, OnePass, PassShape, ListingIsCurrent,
                      FailuresToSpare, pass, memory
<1>2. CASE Tick
  BY <1>0, <1>2 DEF Tick, ControlInv, OnePass, PassShape, ListingIsCurrent,
                    FailuresToSpare, memory
<1>3. CASE Crash
  <2>1. OnePass' /\ PassShape'
    BY <1>3 DEF Crash, OnePass, PassShape
  <2>2. ListingIsCurrent'
    BY <1>3, <1>c DEF Crash, ListingIsCurrent
  <2>3. FailuresToSpare'
    BY <1>3, <1>c DEF Crash, FailuresToSpare
  <2> QED
    BY <2>1, <2>2, <2>3 DEF ControlInv
<1>4. CASE HandleCronSkips
  BY <1>0, <1>4 DEF HandleCronSkips, ControlInv, OnePass, PassShape, ListingIsCurrent,
                    FailuresToSpare, memory, pass, db
<1>5. ASSUME NEW p \in Passes, HandleCron(p)
      PROVE  ControlInv'
  <2>1. \A q \in Passes : pc[q] = "idle" /\ cur[q] = 0 /\ batch[q] = {}
    BY <1>0, <1>5 DEF HandleCron, MayEnter, OnePass, PassShape
  <2>2. /\ pc' = [pc EXCEPT ![p] = "loop"] /\ runningSince' = TRUE
        /\ batch' = [batch EXCEPT ![p] = PendingBatch]
        /\ seen' = [seen EXCEPT ![p] = notifyAttempts]
        /\ UNCHANGED <<db, memory, cur>>
    BY <1>5 DEF HandleCron
  <2>3. \A q \in Passes : pc'[q] = IF q = p THEN "loop" ELSE "idle"
    BY <1>0, <2>1, <2>2 DEF TypeOK
  <2>4. /\ batch'[p] = PendingBatch /\ seen'[p] = notifyAttempts
        /\ \A q \in Passes : q # p => batch'[q] = {}
    BY <1>0, <2>1, <2>2 DEF TypeOK
  <2>5. OnePass'
    BY <2>2, <2>3 DEF OnePass
  <2>6. PassShape'
    BY <2>1, <2>2, <2>3, <2>4 DEF PassShape
  <2>7. \A e \in PendingBatch : row[e] = "pending"
    BY DEF PendingBatch, Due
  <2>8. ListingIsCurrent'
    BY <1>c, <2>1, <2>2, <2>4, <2>7 DEF ListingIsCurrent, db
  <2>9. FailuresToSpare'
    BY <1>0, <2>2 DEF FailuresToSpare, memory
  <2> QED
    BY <2>5, <2>6, <2>8, <2>9 DEF ControlInv
<1>6. ASSUME NEW p \in Passes, EndPass(p)
      PROVE  ControlInv'
  <2>1. /\ pc[p] = "loop" /\ batch[p] = {} /\ pc' = [pc EXCEPT ![p] = "idle"]
        /\ runningSince' = FALSE
        /\ seen' = [seen EXCEPT ![p] = [e \in Ids |-> 0]]
        /\ UNCHANGED <<db, memory, batch, cur>>
    BY <1>6 DEF EndPass, ReleaseBrake
  <2>2. \A q \in Passes : pc'[q] = "idle" /\ cur[q] = 0 /\ batch[q] = {}
    BY <1>0, <2>1 DEF TypeOK, OnePass, PassShape
  <2>3. OnePass' /\ PassShape'
    BY <2>1, <2>2 DEF OnePass, PassShape
  <2>4. ListingIsCurrent'
    BY <1>c, <2>1, <2>2 DEF ListingIsCurrent
  <2>5. FailuresToSpare'
    BY <1>0, <2>1 DEF FailuresToSpare, memory
  <2> QED
    BY <2>3, <2>4, <2>5 DEF ControlInv
<1>7. ASSUME NEW p \in Passes, NEW e \in Ids, SkipBlocked(p, e)
      PROVE  ControlInv'
  <2>1. /\ TurnsTo(p, e)
        /\ UNCHANGED <<db, memory, runningSince, pc, seen, cur>>
    BY <1>7 DEF SkipBlocked
  <2>2. \A q \in Passes : batch'[q] \subseteq batch[q]
    BY <2>1, TurnsToFact
  <2> QED
    BY <1>0, <2>1, <2>2 DEF ControlInv, OnePass, PassShape, ListingIsCurrent,
                            FailuresToSpare, memory, db
<1>8. ASSUME NEW p \in Passes, NEW e \in Ids, NEW outcome \in WriteOutcomes,
             SealExhausted(p, e, outcome)
      PROVE  ControlInv'
  <2>1. /\ TurnsTo(p, e)
        /\ Seal(e, seen[p][e], FALSE, outcome)
        /\ NoteWrite(e, outcome)
        /\ e \notin blocked
        /\ UNCHANGED <<runningSince, pc, seen, cur>>
    BY <1>8 DEF SealExhausted, Seal
  <2>2. /\ \A q \in Passes : batch'[q] \subseteq batch[q]
        /\ e \notin batch'[p] /\ cur[p] = 0
        /\ \A q \in Passes : q # p => cur[q] = 0 /\ batch[q] = {}
    BY <2>1, TurnsToFact
  <2>3. seen[p][e] \in 0 .. MaxAttempts /\ writeFailures[e] < MaxWriteFailures
    BY <1>0, <2>1 DEF TypeOK, FailuresToSpare
  <2>4. \A d \in Ids \ {e} : row'[d] = row[d] /\ notifyAttempts'[d] = notifyAttempts[d]
    BY <1>0, <2>1, <2>3, SealTypes
  <2>5. OnePass' /\ PassShape'
    BY <1>0, <2>1, <2>2 DEF OnePass, PassShape
  <2>6. ListingIsCurrent'
    BY <1>0, <1>c, <2>1, <2>2, <2>4 DEF ListingIsCurrent
  <2>7. FailuresToSpare'
    BY <1>0, <2>1, <2>3, NoteWriteTypes DEF FailuresToSpare
  <2> QED
    BY <2>5, <2>6, <2>7 DEF ControlInv
<1>9. ASSUME NEW p \in Passes, NEW e \in Ids, NEW plan \in SUBSET Audiences,
             NEW lookupFails \in BOOLEAN, BeginDispatch(p, e, plan, lookupFails)
      PROVE  ControlInv'
  <2>1. /\ TurnsTo(p, e) /\ e \notin blocked /\ seen[p][e] < MaxAttempts
        /\ pc' = [pc EXCEPT ![p] = "sending"] /\ cur' = [cur EXCEPT ![p] = e]
        /\ UNCHANGED <<db, memory, runningSince, seen>>
    BY <1>9 DEF BeginDispatch
  <2>2. /\ \A q \in Passes : batch'[q] \subseteq batch[q]
        /\ e \notin batch'[p] /\ e # 0 /\ pc[p] = "loop"
        /\ row[e] = "pending" /\ seen[p][e] = notifyAttempts[e]
    BY <2>1, TurnsToFact
  <2>3. \A q \in Passes : /\ pc'[q] = IF q = p THEN "sending" ELSE pc[q]
                          /\ cur'[q] = IF q = p THEN e ELSE cur[q]
    BY <1>0, <2>1 DEF TypeOK
  <2>4. OnePass'
    BY <1>0, <2>1, <2>2, <2>3 DEF OnePass
  <2>5. PassShape'
    BY <1>0, <2>1, <2>2, <2>3 DEF PassShape, memory
  <2>6. ListingIsCurrent'
    BY <1>0, <2>1, <2>2, <2>3 DEF ListingIsCurrent, db
  <2>7. FailuresToSpare'
    BY <1>0, <2>1 DEF FailuresToSpare, memory
  <2> QED
    BY <2>4, <2>5, <2>6, <2>7 DEF ControlInv
<1>10. ASSUME NEW p \in Passes, NEW audience \in Audiences, NEW outcome \in SendOutcomes,
              DispatchOne(p, audience, outcome)
       PROVE  ControlInv'
  <2>1. UNCHANGED <<db, runningSince, memory, pc, batch, seen, cur>>
    BY <1>10 DEF DispatchOne
  <2> QED
    BY <1>0, <2>1 DEF ControlInv, OnePass, PassShape, ListingIsCurrent,
                      FailuresToSpare, memory, db
<1>11. ASSUME NEW p \in Passes, NEW outcome \in WriteOutcomes, FinishDispatch(p, outcome)
       PROVE  ControlInv'
  <2> DEFINE e == cur[p]
             spent == seen[p][e] + 1
  <2>1. /\ pc[p] = "sending"
        /\ pc' = [pc EXCEPT ![p] = "loop"] /\ cur' = [cur EXCEPT ![p] = 0]
        /\ UNCHANGED <<runningSince, batch, seen>>
    BY <1>11 DEF FinishDispatch
  <2>2. /\ e \in Ids /\ writeFailures[e] < MaxWriteFailures /\ seen[p][e] < MaxAttempts
        /\ e \notin batch[p]
        /\ \A q \in Passes : q # p => pc[q] = "idle" /\ cur[q] = 0 /\ batch[q] = {}
    BY <2>1, CurFact
  <2>3. /\ seen[p][e] \in 0 .. MaxAttempts /\ spent \in 1 .. MaxAttempts
        /\ age[p] \in 0 .. MaxDelay /\ clientId[p] \in BOOLEAN
    BY <1>0, <1>c, <2>2 DEF TypeOK
  <2>4. \/ Seal(e, seen[p][e], clientId[p], outcome)
        \/ Seal(e, spent, clientId[p], outcome)
        \/ RecordNotifyFailure(e, spent, age[p], outcome)
    BY <1>11 DEF FinishDispatch
  <2>5. NoteWrite(e, outcome)
    BY <2>4 DEF Seal, RecordNotifyFailure
  <2>6. \A d \in Ids \ {e} : row'[d] = row[d] /\ notifyAttempts'[d] = notifyAttempts[d]
    BY <1>0, <1>c, <2>2, <2>3, <2>4, SealTypes, RecordTypes
  <2>7. \A q \in Passes : /\ pc'[q] = IF q = p THEN "loop" ELSE pc[q]
                          /\ cur'[q] = 0
    BY <1>0, <2>1, <2>2 DEF TypeOK
  <2>8. OnePass'
    BY <1>0, <2>1, <2>2, <2>7 DEF OnePass
  <2>9. PassShape'
    BY <1>0, <2>1, <2>2, <2>7 DEF PassShape
  <2>10. ListingIsCurrent'
    BY <1>0, <1>c, <2>1, <2>2, <2>6, <2>7 DEF ListingIsCurrent
  <2>11. FailuresToSpare'
    BY <1>0, <2>2, <2>5, NoteWriteTypes DEF FailuresToSpare
  <2> QED
    BY <2>8, <2>9, <2>10, <2>11 DEF ControlInv
<1>12. CASE UNCHANGED vars
  BY <1>0, <1>12 DEF ControlInv, OnePass, PassShape, ListingIsCurrent,
                     FailuresToSpare, vars, db, memory, pass
<1> QED
  BY <1>1, <1>2, <1>3, <1>4, <1>5, <1>6, <1>7, <1>8, <1>9, <1>10, <1>11, <1>12
     DEF Next, Step

\* The invariant the rest stands on.
LEMMA Invariance == Spec => []IInv
<1>1. Init => IInv
  BY InitTypeOK, InitControl DEF IInv
<1>2. IInv /\ [Next]_vars => IInv'
  BY NextTypeOK, NextControl DEF IInv
<1> QED
  BY <1>1, <1>2, PTL DEF Spec

\* Every variable keeps to its range: no row spends more than MaxAttempts, no
\* counter of failed UPDATEs goes past the cap that blocks the row.
THEOREM TypeCorrect == Spec => []TypeOK
<1>1. IInv => TypeOK
  BY DEF IInv
<1> QED
  BY <1>1, Invariance, PTL

\* drain decides on rows it listed earlier, and they are still what the table
\* holds: nothing else writes them while a pass is on its stack.
THEOREM ListingStaysCurrent == Spec => []ListingIsCurrent
<1>1. IInv => ListingIsCurrent
  BY DEF IInv, ControlInv
<1> QED
  BY <1>1, Invariance, PTL
-----------------------------------------------------------------------------
(* The accounts: what dispatches have cost, and what is left to spend.     *)

Accounts == UnexcusedAreInFlight /\ OpenBudget /\ AttemptsLeft

\* A product grows with its second factor, and by the first for each unit.
LEMMA ProductFact ==
    ASSUME NEW w \in Nat, NEW m \in Nat, NEW n \in Nat
    PROVE  /\ w * (m + 1) = w * m + w
           /\ m <= n => w * m <= w * n
           /\ w * m \in Nat
<1>1. w * (m + 1) = w * m + w
  OBVIOUS
<1>2. m <= n => w * m <= w * n
  OBVIOUS
<1>3. w * m \in Nat
  OBVIOUS
<1> QED
  BY <1>1, <1>2, <1>3

\* Steps that begin, end and write nothing.
LEMMA QuietAccounts ==
    ASSUME IInv, Accounts,
           UNCHANGED <<notifyAttempts, writeFailures, cur, dispatched, unexcused, lives>>,
           \A d \in Ids : row'[d] = row[d] \/ (row[d] = "none" /\ row'[d] = "pending")
    PROVE  Accounts'
<1>1. \A d \in Ids : InFlight(d)' <=> InFlight(d)
  BY DEF InFlight
<1>2. UnexcusedAreInFlight'
  BY <1>1 DEF Accounts, UnexcusedAreInFlight
<1>3. OpenBudget'
  BY <1>1 DEF Accounts, OpenBudget
<1>4. AttemptsLeft'
  BY OutboxAssumption DEF Accounts, AttemptsLeft, PendingHasAttemptsLeft
<1> QED
  BY <1>2, <1>3, <1>4 DEF Accounts

LEMMA InitAccounts == Init => Accounts
<1> SUFFICES ASSUME Init PROVE Accounts
  OBVIOUS
<1>c. MaxWriteFailures \in Nat \ {0} /\ MaxAttempts \in Nat \ {0}
  BY OutboxAssumption
<1>1. \A e \in Ids : ~InFlight(e)
  BY OutboxAssumption DEF Init, IdlePasses, InFlight
<1>2. UnexcusedAreInFlight
  BY <1>1 DEF Init, UnexcusedAreInFlight
<1>3. OpenBudget
  <2> SUFFICES ASSUME NEW e \in Ids
               PROVE  /\ row[e] # "sealed"
                      /\ dispatched[e] <= MaxWriteFailures * (notifyAttempts[e] + lives - 1)
                                            + writeFailures[e] + 0
    BY <1>1 DEF OpenBudget
  <2>1. notifyAttempts[e] \in Nat /\ lives = 1 /\ notifyAttempts[e] + lives - 1 \in Nat
    BY <1>c DEF Init
  <2>2. MaxWriteFailures * (notifyAttempts[e] + lives - 1) \in Nat
    BY <1>c, <2>1, ProductFact
  <2>3. row[e] # "sealed" /\ dispatched[e] = 0 /\ writeFailures[e] = 0
    BY DEF Init
  <2> QED
    BY <2>2, <2>3
<1>4. AttemptsLeft
  BY <1>c DEF Init, AttemptsLeft, PendingHasAttemptsLeft
<1> QED
  BY <1>2, <1>3, <1>4 DEF Accounts

\* The account of a row whose dispatch ends: its UPDATE took effect, or it is
\* one more failure.
LEMMA FinishAccounts ==
    ASSUME IInv, Accounts, NEW p \in Passes, NEW outcome \in WriteOutcomes,
           FinishDispatch(p, outcome)
    PROVE  Accounts'
<1> DEFINE e     == cur[p]
           spent == seen[p][e] + 1
           W     == MaxWriteFailures
<1>0. TypeOK /\ UnexcusedAreInFlight /\ OpenBudget /\ AttemptsLeft
  BY DEF IInv, Accounts
<1>c. /\ W \in Nat \ {0} /\ MaxAttempts \in Nat \ {0} /\ 0 \notin Ids
      /\ WriteOutcomes \subseteq {"ok", "failed", "doneUnconfirmed"}
  BY OutboxAssumption
<1>1. /\ pc[p] = "sending" /\ cur' = [cur EXCEPT ![p] = 0]
      /\ dispatched' = dispatched /\ lives' = lives
  BY DEF FinishDispatch
<1>2. /\ e \in Ids /\ writeFailures[e] < W /\ seen[p][e] < MaxAttempts
      /\ row[e] = "pending" /\ seen[p][e] = notifyAttempts[e]
      /\ \A q \in Passes : q # p => cur[q] = 0
  BY <1>1, CurFact
<1>3. /\ notifyAttempts[e] \in Nat /\ lives \in Nat \ {0} /\ writeFailures[e] \in Nat
      /\ dispatched[e] \in Nat /\ unexcused[e] \in Nat
      /\ seen[p][e] \in 0 .. MaxAttempts /\ spent \in 1 .. MaxAttempts
      /\ age[p] \in 0 .. MaxDelay /\ clientId[p] \in BOOLEAN /\ failed[p] \in BOOLEAN
  BY <1>0, <1>c, <1>2 DEF TypeOK
<1>4. \/ Seal(e, seen[p][e], clientId[p], outcome)
      \/ Seal(e, spent, clientId[p], outcome)
      \/ /\ RecordNotifyFailure(e, spent, age[p], outcome)
         /\ failed[p] /\ spent < MaxAttempts
  BY <1>3, <1>c DEF FinishDispatch, GivesUp
<1>5. NoteWrite(e, outcome)
  BY <1>4 DEF Seal, RecordNotifyFailure
<1>6. \A d \in Ids \ {e} : row'[d] = row[d] /\ notifyAttempts'[d] = notifyAttempts[d]
  BY <1>0, <1>c, <1>2, <1>3, <1>4, SealTypes, RecordTypes
<1>7. \A d \in Ids \ {e} : writeFailures'[d] = writeFailures[d] /\ unexcused'[d] = unexcused[d]
  BY <1>0, <1>2, <1>5, NoteWriteTypes DEF FinishDispatch, TypeOK
<1>8. /\ writeFailures'[e] \in Nat
      /\ outcome = "failed" => writeFailures'[e] = writeFailures[e] + 1
  BY <1>0, <1>2, <1>3, <1>5 DEF NoteWrite, TypeOK
<1>9. InFlight(e) /\ \A d \in Ids : ~InFlight(d)' /\ (d # e => ~InFlight(d))
  BY <1>0, <1>c, <1>1, <1>2 DEF InFlight, TypeOK
<1>10. unexcused[e] = 1
  BY <1>0, <1>2, <1>9 DEF UnexcusedAreInFlight
<1>11. /\ unexcused'[e] <= 1
       /\ failed[p] \/ outcome # "ok" => unexcused'[e] = 0
  BY <1>0, <1>2, <1>10 DEF FinishDispatch, Minus, TypeOK
<1>12. \/ /\ row'[e] = "sealed"
          /\ notifyAttempts'[e] \in {notifyAttempts[e], notifyAttempts[e] + 1}
       \/ /\ row'[e] = "pending" /\ notifyAttempts'[e] = notifyAttempts[e] + 1
          /\ failed[p] /\ notifyAttempts'[e] < MaxAttempts
       \/ /\ row'[e] = "pending" /\ notifyAttempts'[e] = notifyAttempts[e]
          /\ outcome = "failed"
  <2>1. CASE outcome = "failed"
    BY <1>0, <1>2, <1>4, <2>1 DEF Seal, RecordNotifyFailure, TypeOK
  <2>2. CASE outcome # "failed"
    <3>1. outcome \in {"ok", "doneUnconfirmed"}
      BY <1>c, <2>2
    <3> QED
      BY <1>0, <1>2, <1>3, <1>4, <3>1 DEF Seal, RecordNotifyFailure, TypeOK
  <2> QED
    BY <2>1, <2>2
<1>13. UnexcusedAreInFlight'
  BY <1>0, <1>7, <1>6, <1>9, <1>11, <1>12 DEF UnexcusedAreInFlight
<1>14. OpenBudget'
  <2> DEFINE n == notifyAttempts[e] + lives - 1
  <2>1. n \in Nat
    BY <1>3
  <2>2. dispatched[e] <= W * n + writeFailures[e] + 1
    BY <1>0, <1>2, <1>9 DEF OpenBudget
  <2>3. W * (n + 1) = W * n + W /\ W * n \in Nat /\ W * (n + 1) \in Nat
    BY <1>c, <2>1, ProductFact
  <2>4. dispatched[e] <= W * (n + 1)
    <3> HIDE DEF n
    <3> QED
      BY <1>c, <1>2, <1>3, <2>1, <2>2, <2>3
  <2>5. CASE row'[e] = "sealed"
    <3>1. n + 1 <= notifyAttempts'[e] + lives /\ notifyAttempts'[e] + lives \in Nat
      BY <1>3, <1>12, <2>5
    <3>2. W * (n + 1) <= W * (notifyAttempts'[e] + lives)
          /\ W * (notifyAttempts'[e] + lives) \in Nat
      BY <1>c, <2>1, <3>1, ProductFact
    <3>3. dispatched[e] <= W * (notifyAttempts'[e] + lives)
      <4> HIDE DEF n
      <4> QED
        BY <1>3, <2>3, <2>4, <3>2
    <3> QED
      BY <1>0, <1>1, <1>6, <1>7, <1>9, <2>5, <3>3 DEF OpenBudget
  <2>6. CASE row'[e] # "sealed" /\ notifyAttempts'[e] = notifyAttempts[e] + 1
    <3>1. notifyAttempts'[e] + lives - 1 = n + 1
      BY <1>3, <2>6
    <3>2. dispatched[e] <= W * (notifyAttempts'[e] + lives - 1) + writeFailures'[e] + 0
      <4> HIDE DEF n
      <4> QED
        BY <1>3, <1>8, <2>3, <2>4, <3>1
    <3> QED
      BY <1>0, <1>1, <1>6, <1>7, <1>9, <2>6, <3>2 DEF OpenBudget
  <2>7. CASE row'[e] # "sealed" /\ notifyAttempts'[e] = notifyAttempts[e] /\ outcome = "failed"
    <3>1. dispatched[e] <= W * (notifyAttempts'[e] + lives - 1) + writeFailures'[e] + 0
      BY <1>3, <1>8, <2>2, <2>3, <2>7
    <3> QED
      BY <1>0, <1>1, <1>6, <1>7, <1>9, <2>7, <3>1 DEF OpenBudget
  <2> QED
    BY <1>12, <2>5, <2>6, <2>7
<1>15. AttemptsLeft'
  BY <1>0, <1>2, <1>6, <1>12 DEF AttemptsLeft, PendingHasAttemptsLeft
<1> QED
  BY <1>13, <1>14, <1>15 DEF Accounts

\* A row sealed for want of attempts: the UPDATE takes effect, or fails.
LEMMA ExhaustedAccounts ==
    ASSUME IInv, Accounts, NEW p \in Passes, NEW e \in Ids, NEW outcome \in WriteOutcomes,
           SealExhausted(p, e, outcome)
    PROVE  Accounts'
<1> DEFINE W == MaxWriteFailures
<1>0. TypeOK /\ UnexcusedAreInFlight /\ OpenBudget /\ AttemptsLeft /\ FailuresToSpare
  BY DEF IInv, ControlInv, Accounts
<1>c. /\ W \in Nat \ {0} /\ WriteOutcomes \subseteq {"ok", "failed", "doneUnconfirmed"}
  BY OutboxAssumption
<1>1. /\ TurnsTo(p, e) /\ e \notin blocked
      /\ Seal(e, seen[p][e], FALSE, outcome)
      /\ NoteWrite(e, outcome)
      /\ UNCHANGED <<cur, dispatched, unexcused, lives>>
  BY DEF SealExhausted, Seal, history
<1>2. row[e] = "pending" /\ seen[p][e] = notifyAttempts[e] /\ ~InFlight(e)
  BY <1>1, TurnsToFact
<1>3. /\ notifyAttempts[e] \in 0 .. MaxAttempts /\ lives \in Nat \ {0}
      /\ writeFailures[e] \in Nat /\ writeFailures[e] < W /\ dispatched[e] \in Nat
  BY <1>0, <1>1 DEF TypeOK, FailuresToSpare
<1>4. \A d \in Ids : InFlight(d)' <=> InFlight(d)
  BY <1>1 DEF InFlight
<1>5. \A d \in Ids \ {e} : /\ row'[d] = row[d] /\ notifyAttempts'[d] = notifyAttempts[d]
                           /\ writeFailures'[d] = writeFailures[d]
  BY <1>0, <1>1, <1>2, <1>3, SealTypes, NoteWriteTypes
<1>6. /\ notifyAttempts'[e] = notifyAttempts[e]
      /\ row'[e] = "sealed" \/ (row'[e] = "pending" /\ outcome = "failed")
  <2>1. CASE outcome = "failed"
    BY <1>0, <1>1, <1>2, <2>1 DEF Seal, TypeOK
  <2>2. CASE outcome # "failed"
    BY <1>0, <1>c, <1>1, <1>2, <2>2 DEF Seal, TypeOK
  <2> QED
    BY <2>1, <2>2
<1>7. outcome = "failed" => writeFailures'[e] = writeFailures[e] + 1
  BY <1>0, <1>1 DEF NoteWrite, TypeOK
<1>8. UnexcusedAreInFlight'
  BY <1>0, <1>1, <1>2, <1>4, <1>5, <1>6 DEF UnexcusedAreInFlight
<1>9. OpenBudget'
  <2> DEFINE n == notifyAttempts[e] + lives - 1
  <2>1. n \in Nat /\ notifyAttempts'[e] + lives - 1 = n /\ notifyAttempts'[e] + lives = n + 1
    BY <1>3, <1>6
  <2>2. dispatched[e] <= W * n + writeFailures[e] + 0
    BY <1>0, <1>2 DEF OpenBudget
  <2>3. W * (n + 1) = W * n + W /\ W * n \in Nat
    BY <1>c, <2>1, ProductFact
  <2>4. CASE row'[e] = "sealed"
    <3>1. dispatched[e] <= W * (notifyAttempts'[e] + lives)
      <4>1. dispatched[e] <= W * (n + 1)
        <5> HIDE DEF n
        <5> QED
          BY <1>c, <1>3, <2>2, <2>3
      <4> QED
        BY <2>1, <4>1
    <3> QED
      BY <1>0, <1>1, <1>4, <1>5, <2>4, <3>1 DEF OpenBudget
  <2>5. CASE row'[e] = "pending" /\ outcome = "failed"
    <3>1. dispatched[e] <= W * (notifyAttempts'[e] + lives - 1) + writeFailures'[e] + 0
      <4>1. dispatched[e] <= W * n + (writeFailures[e] + 1) + 0
        <5> HIDE DEF n
        <5> QED
          BY <1>c, <1>3, <2>2, <2>3
      <4> QED
        BY <1>7, <2>1, <2>5, <4>1
    <3> QED
      BY <1>0, <1>1, <1>2, <1>4, <1>5, <2>5, <3>1 DEF OpenBudget
  <2> QED
    BY <1>6, <2>4, <2>5
<1>10. AttemptsLeft'
  BY <1>0, <1>2, <1>5, <1>6 DEF AttemptsLeft, PendingHasAttemptsLeft
<1> QED
  BY <1>8, <1>9, <1>10 DEF Accounts

\* A dispatch begins: it is in flight, and nothing else is.
LEMMA BeginAccounts ==
    ASSUME IInv, Accounts, NEW p \in Passes, NEW e \in Ids, NEW plan \in SUBSET Audiences,
           NEW lookupFails \in BOOLEAN, BeginDispatch(p, e, plan, lookupFails)
    PROVE  Accounts'
<1>0. TypeOK /\ UnexcusedAreInFlight /\ OpenBudget /\ AttemptsLeft
  BY DEF IInv, Accounts
<1>1. /\ TurnsTo(p, e) /\ cur' = [cur EXCEPT ![p] = e]
      /\ dispatched' = [dispatched EXCEPT ![e] = @ + 1]
      /\ unexcused' = [unexcused EXCEPT ![e] = @ + 1]
      /\ UNCHANGED <<row, notifyAttempts, writeFailures, lives>>
  BY DEF BeginDispatch, db, memory
<1>2. /\ row[e] = "pending" /\ ~InFlight(e)
      /\ cur[p] = 0 /\ e # 0 /\ \A q \in Passes : q # p => cur[q] = 0
  BY <1>1, TurnsToFact
<1>3. InFlight(e)' /\ \A d \in Ids \ {e} : ~InFlight(d)' /\ ~InFlight(d)
  BY <1>0, <1>1, <1>2, OutboxAssumption DEF InFlight, TypeOK
<1>4. /\ unexcused[e] = 0 /\ unexcused'[e] = 1
      /\ \A d \in Ids \ {e} : unexcused'[d] = unexcused[d] /\ dispatched'[d] = dispatched[d]
      /\ dispatched'[e] = dispatched[e] + 1 /\ dispatched[e] \in Nat
  BY <1>0, <1>1, <1>2 DEF UnexcusedAreInFlight, TypeOK
<1>5. UnexcusedAreInFlight'
  BY <1>0, <1>1, <1>2, <1>3, <1>4 DEF UnexcusedAreInFlight
<1>6. OpenBudget'
  <2> DEFINE allowance == MaxWriteFailures * (notifyAttempts[e] + lives - 1) + writeFailures[e]
  <2>1. /\ MaxWriteFailures * (notifyAttempts[e] + lives - 1) \in Nat
        /\ writeFailures[e] \in Nat
    <3>1. MaxWriteFailures \in Nat /\ notifyAttempts[e] + lives - 1 \in Nat
      BY <1>0, OutboxAssumption DEF TypeOK
    <3> QED
      BY <1>0, <3>1, ProductFact DEF TypeOK
  <2>2. dispatched[e] <= allowance + 0 /\ allowance \in Nat
    BY <1>0, <1>2, <2>1 DEF OpenBudget
  <2>3. dispatched'[e] <= allowance + 1
    <3> HIDE DEF allowance
    <3> QED
      BY <1>4, <2>2
  <2> QED
    BY <1>0, <1>1, <1>2, <1>3, <1>4, <2>3 DEF OpenBudget
<1>7. AttemptsLeft'
  BY <1>0, <1>1 DEF AttemptsLeft, PendingHasAttemptsLeft
<1> QED
  BY <1>5, <1>6, <1>7 DEF Accounts

\* A crash: the memory of failed UPDATEs is lost, and a new process has its own
\* allowance, which covers that memory and the dispatch it cut short.
LEMMA CrashAccounts ==
    ASSUME IInv, Accounts, Crash
    PROVE  Accounts'
<1> DEFINE W == MaxWriteFailures
<1>0. TypeOK /\ PassShape /\ UnexcusedAreInFlight /\ OpenBudget /\ AttemptsLeft
  BY DEF IInv, ControlInv, Accounts
<1>c. W \in Nat \ {0} /\ 0 \notin Ids
  BY OutboxAssumption
<1>1. /\ cur' = [p \in Passes |-> 0] /\ lives' = lives + 1
      /\ writeFailures' = [e \in Ids |-> 0]
      /\ unexcused' = [e \in Ids |-> IF InFlight(e) THEN Minus(unexcused[e], 1)
                                                    ELSE unexcused[e]]
      /\ UNCHANGED <<row, notifyAttempts, dispatched>>
  BY DEF Crash, db
<1>2. \A e \in Ids : ~InFlight(e)'
  BY <1>c, <1>1 DEF InFlight
<1>3. \A e \in Ids : InFlight(e) => writeFailures[e] < W
  <2> SUFFICES ASSUME NEW e \in Ids, NEW p \in Passes, cur[p] = e
               PROVE  writeFailures[e] < W
    BY DEF InFlight
  <2>1. pc[p] = "sending"
    BY <1>0, <1>c DEF PassShape
  <2> QED
    BY <2>1, CurFact
<1>4. UnexcusedAreInFlight'
  <2> SUFFICES ASSUME NEW e \in Ids
               PROVE  unexcused'[e] <= 1 /\ (row[e] # "sealed" => unexcused'[e] = 0)
    BY <1>1, <1>2 DEF UnexcusedAreInFlight
  <2>1. unexcused[e] \in Nat /\ unexcused[e] <= 1
        /\ (row[e] # "sealed" => unexcused[e] = IF InFlight(e) THEN 1 ELSE 0)
    BY <1>0 DEF UnexcusedAreInFlight, TypeOK
  <2>2. unexcused'[e] = IF InFlight(e) THEN Minus(unexcused[e], 1) ELSE unexcused[e]
    BY <1>1
  <2> QED
    BY <2>1, <2>2 DEF Minus
<1>5. OpenBudget'
  <2> SUFFICES ASSUME NEW e \in Ids
               PROVE  IF row[e] = "sealed"
                      THEN dispatched[e] <= W * (notifyAttempts[e] + (lives + 1))
                      ELSE dispatched[e] <= W * (notifyAttempts[e] + (lives + 1) - 1) + 0 + 0
    BY <1>1, <1>2 DEF OpenBudget
  <2> DEFINE n == notifyAttempts[e] + lives - 1
  <2>1. /\ n \in Nat /\ notifyAttempts[e] + lives = n + 1
        /\ notifyAttempts[e] + (lives + 1) - 1 = n + 1
        /\ notifyAttempts[e] + (lives + 1) = (n + 1) + 1
        /\ n + 1 \in Nat
    BY <1>0 DEF TypeOK
  <2>2. /\ dispatched[e] \in Nat /\ writeFailures[e] \in Nat /\ writeFailures[e] <= W
        /\ InFlight(e) => writeFailures[e] < W
    BY <1>0, <1>3, OutboxAssumption DEF TypeOK
  <2>3. /\ W * (n + 1) = W * n + W /\ W * n \in Nat /\ W * (n + 1) \in Nat
        /\ W * ((n + 1) + 1) = W * (n + 1) + W
    <3> HIDE DEF n
    <3> QED
      BY <1>c, <2>1, ProductFact
  <2>4. IF row[e] = "sealed"
        THEN dispatched[e] <= W * (n + 1)
        ELSE dispatched[e] <= W * n + writeFailures[e] + (IF InFlight(e) THEN 1 ELSE 0)
    BY <1>0, <2>1 DEF OpenBudget
  <2>5. CASE row[e] = "sealed"
    <3>1. dispatched[e] <= W * ((n + 1) + 1)
      <4> HIDE DEF n
      <4> QED
        BY <1>c, <2>2, <2>3, <2>4, <2>5
    <3> QED
      BY <2>1, <2>5, <3>1
  <2>6. CASE row[e] # "sealed"
    <3>1. dispatched[e] <= W * (n + 1)
      <4> HIDE DEF n
      <4> QED
        BY <1>c, <2>2, <2>3, <2>4, <2>6
    <3>2. dispatched[e] <= W * (notifyAttempts[e] + (lives + 1) - 1) + 0 + 0
      <4>1. W * (notifyAttempts[e] + (lives + 1) - 1) = W * (n + 1)
        BY <2>1
      <4> HIDE DEF n
      <4> QED
        BY <2>3, <3>1, <4>1
    <3> QED
      BY <2>6, <3>2
  <2> QED
    BY <2>5, <2>6
<1>6. AttemptsLeft'
  BY <1>0, <1>1 DEF AttemptsLeft, PendingHasAttemptsLeft
<1> QED
  BY <1>4, <1>5, <1>6 DEF Accounts

LEMMA NextAccounts == IInv /\ Accounts /\ [Next]_vars => Accounts'
<1> SUFFICES ASSUME IInv, Accounts, [Next]_vars PROVE Accounts'
  OBVIOUS
<1>t. TypeOK
  BY DEF IInv
<1>1. ASSUME NEW e \in Ids, NEW r \in Rows, Emit(e, r)
      PROVE  Accounts'
  <2>1. \A d \in Ids : row'[d] = row[d] \/ (row[d] = "none" /\ row'[d] = "pending")
    BY <1>t, <1>1 DEF Emit, TypeOK
  <2> QED
    BY <1>1, <2>1, QuietAccounts DEF Emit, memory, pass, history
<1>2. CASE Tick
  BY <1>2, QuietAccounts DEF Tick, memory, history
<1>3. CASE Crash
  BY <1>3, CrashAccounts
<1>4. CASE HandleCronSkips
  BY <1>4, QuietAccounts DEF HandleCronSkips, db, memory, pass, history
<1>5. ASSUME NEW p \in Passes, HandleCron(p)
      PROVE  Accounts'
  BY <1>5, QuietAccounts DEF HandleCron, db, memory, history
<1>6. ASSUME NEW p \in Passes, EndPass(p)
      PROVE  Accounts'
  BY <1>6, QuietAccounts DEF EndPass, db, memory, history
<1>7. ASSUME NEW p \in Passes, NEW e \in Ids, SkipBlocked(p, e)
      PROVE  Accounts'
  BY <1>7, QuietAccounts DEF SkipBlocked, db, memory, history
<1>10. ASSUME NEW p \in Passes, NEW audience \in Audiences, NEW outcome \in SendOutcomes,
              DispatchOne(p, audience, outcome)
       PROVE  Accounts'
  BY <1>10, QuietAccounts DEF DispatchOne, db, memory
<1>12. CASE UNCHANGED vars
  BY <1>12, QuietAccounts DEF vars, db, memory, pass, history
<1> QED
  BY <1>1, <1>2, <1>3, <1>4, <1>5, <1>6, <1>7, <1>10, <1>12, ExhaustedAccounts,
     BeginAccounts, FinishAccounts DEF Next, Step

LEMMA AccountsInvariance == Spec => [](IInv /\ Accounts)
<1>1. Init => Accounts
  BY InitAccounts
<1>2. IInv /\ Accounts /\ [Next]_vars => Accounts'
  BY NextAccounts
<1>3. Spec => []IInv
  BY Invariance
<1> QED
  BY <1>1, <1>2, <1>3, PTL DEF Spec

\* "Una sola pasada a la vez": no event is dispatched twice without a fault in
\* between, however many passes, events and restarts there are.
THEOREM NoRepeatWithoutAFault == Spec => []NoUnexcusedRepeat
<1>1. Accounts => NoUnexcusedRepeat
  BY DEF Accounts, UnexcusedAreInFlight, NoUnexcusedRepeat
<1> QED
  BY <1>1, AccountsInvariance, PTL

\* NOTIFY_MAX_WRITE_FAILURES bounds the mail of an event whose outcome cannot
\* be written, restarts included.
THEOREM DispatchesAreBounded == Spec => []DispatchBudget
<1>1. IInv /\ Accounts => DispatchBudget
  <2> SUFFICES ASSUME IInv, Accounts, NEW e \in Ids
               PROVE  dispatched[e] <= MaxWriteFailures * (notifyAttempts[e] + lives)
    BY DEF DispatchBudget
  <2> DEFINE W == MaxWriteFailures
             n == notifyAttempts[e] + lives - 1
  <2>0. TypeOK /\ PassShape /\ OpenBudget /\ W \in Nat \ {0} /\ 0 \notin Ids
    BY OutboxAssumption DEF IInv, ControlInv, Accounts
  <2>1. CASE row[e] = "sealed"
    BY <2>0, <2>1 DEF OpenBudget
  <2>2. CASE row[e] # "sealed"
    <3>1. n \in Nat /\ notifyAttempts[e] + lives = n + 1
      BY <2>0 DEF TypeOK
    <3>2. W * (n + 1) = W * n + W /\ W * n \in Nat
      <4> HIDE DEF n
      <4> QED
        BY <2>0, <3>1, ProductFact
    <3>3. /\ dispatched[e] \in Nat /\ writeFailures[e] \in 0 .. W
          /\ InFlight(e) => writeFailures[e] < W
      <4>1. ASSUME NEW p \in Passes, cur[p] = e
            PROVE  writeFailures[e] < W
        <5>1. pc[p] = "sending"
          BY <2>0, <4>1 DEF PassShape
        <5> QED
          BY <4>1, <5>1, CurFact
      <4> QED
        BY <2>0, <4>1 DEF TypeOK, InFlight
    <3>4. dispatched[e] <= W * n + writeFailures[e] + (IF InFlight(e) THEN 1 ELSE 0)
      BY <2>0, <2>2 DEF OpenBudget
    <3>5. dispatched[e] <= W * (n + 1)
      <4> HIDE DEF n
      <4> QED
        BY <2>0, <3>2, <3>3, <3>4
    <3> QED
      BY <3>1, <3>5
  <2> QED
    BY <2>1, <2>2
<1> QED
  BY <1>1, AccountsInvariance, PTL

\* Rule 2 of the scheduler: spending the last attempt and sealing are one
\* UPDATE, so a row with none left is never found pending.
THEOREM NoPendingRowIsExhausted == Spec => []PendingHasAttemptsLeft
<1>1. Accounts => PendingHasAttemptsLeft
  BY DEF Accounts, AttemptsLeft
<1> QED
  BY <1>1, AccountsInvariance, PTL

\* Sealing is final: a sealed row is neither opened, nor dispatched, nor mailed
\* again, because a pass only works on rows that were open when it listed them
\* and that no one else can have sealed since.
THEOREM SealedRowsAreLeftAlone == Spec => SealedIsFinal
<1> DEFINE Alone(e) == row'[e] = "sealed" /\ mailed'[e] = mailed[e]
                                          /\ dispatched'[e] = dispatched[e]
<1>1. ASSUME IInv, [Next]_vars, NEW e \in Ids, row[e] = "sealed"
      PROVE  Alone(e)
  <2>0. TypeOK
    BY <1>1 DEF IInv
  <2>1. ASSUME NEW d \in Ids, NEW r \in Rows, Emit(d, r)
        PROVE  Alone(e)
    BY <1>1, <2>0, <2>1 DEF Emit, TypeOK, history
  <2>2. CASE Tick \/ Crash \/ HandleCronSkips
    BY <1>1, <2>2 DEF Tick, Crash, HandleCronSkips, db, history
  <2>3. ASSUME NEW p \in Passes, HandleCron(p) \/ EndPass(p)
        PROVE  Alone(e)
    BY <1>1, <2>3 DEF HandleCron, EndPass, db, history
  <2>4. ASSUME NEW p \in Passes, NEW d \in Ids, SkipBlocked(p, d)
        PROVE  Alone(e)
    BY <1>1, <2>4 DEF SkipBlocked, db, history
  <2>5. ASSUME NEW p \in Passes, NEW d \in Ids, NEW outcome \in WriteOutcomes,
               SealExhausted(p, d, outcome)
        PROVE  Alone(e)
    BY <1>1, <2>0, <2>5 DEF SealExhausted, Seal, TypeOK, history
  <2>6. ASSUME NEW p \in Passes, NEW d \in Ids, NEW plan \in SUBSET Audiences,
               NEW lookupFails \in BOOLEAN, BeginDispatch(p, d, plan, lookupFails)
        PROVE  Alone(e)
    <3>1. TurnsTo(p, d) /\ row' = row /\ mailed' = mailed
          /\ dispatched' = [dispatched EXCEPT ![d] = @ + 1]
      BY <2>6 DEF BeginDispatch, db
    <3>2. d # e
      BY <1>1, <3>1, TurnsToFact
    <3> QED
      BY <1>1, <2>0, <3>1, <3>2 DEF TypeOK
  <2>7. ASSUME NEW p \in Passes, NEW audience \in Audiences, NEW outcome \in SendOutcomes,
               DispatchOne(p, audience, outcome)
        PROVE  Alone(e)
    <3>1. /\ pc[p] = "sending" /\ row' = row /\ dispatched' = dispatched
          /\ \/ mailed' = mailed
             \/ mailed' = [mailed EXCEPT ![cur[p]] = @ \cup {audience}]
      BY <2>7 DEF DispatchOne, db
    <3>2. cur[p] \in Ids \ {e}
      BY <1>1, <3>1, CurFact
    <3> QED
      BY <1>1, <2>0, <3>1, <3>2 DEF TypeOK
  <2>8. ASSUME NEW p \in Passes, NEW outcome \in WriteOutcomes, FinishDispatch(p, outcome)
        PROVE  Alone(e)
    <3>1. mailed' = mailed /\ dispatched' = dispatched
      BY <2>8 DEF FinishDispatch
    <3>2. \/ row' = row
          \/ row' = [row EXCEPT ![cur[p]] = "sealed"]
      BY <2>8 DEF FinishDispatch, Seal, RecordNotifyFailure
    <3> QED
      BY <1>1, <2>0, <3>1, <3>2 DEF TypeOK
  <2>9. CASE UNCHANGED vars
    BY <1>1, <2>9 DEF vars, db, history
  <2> QED
    BY <1>1, <2>1, <2>2, <2>3, <2>4, <2>5, <2>6, <2>7, <2>8, <2>9 DEF Next, Step
<1>2. IInv /\ [Next]_vars =>
        [\A e \in Ids : row[e] = "sealed" =>
           row'[e] = "sealed" /\ mailed'[e] = mailed[e] /\ dispatched'[e] = dispatched[e]]_vars
  BY <1>1
<1> QED
  BY <1>2, Invariance, PTL DEF Spec, SealedIsFinal
-----------------------------------------------------------------------------
(* Who is told: what a pass tries is still planned when it tries it.       *)

\* A mail went to the audiences of its row, and a row not there yet has none.
MailedAsPlanned ==
    \A e \in Ids : /\ mailed[e] \subseteq PlansForEvent(facts[e])
                   /\ row[e] = "none" => mailed[e] = {}

\* What a pass has still to try is in the plan of its row, and the Message-ID it
\* keeps is of a mail the client got.
TriedAsPlanned ==
    \A p \in Passes :
        /\ cur[p] # 0 => todo[p] \subseteq PlansForEvent(facts[cur[p]])
        /\ clientId[p] => cur[p] # 0 /\ "CLIENT" \in mailed[cur[p]]

MailInv == MailedAsPlanned /\ TriedAsPlanned /\ MessageIdIsTheClients

\* The plan of a message row: nothing for what is not readably public, and not
\* the client when the author column of the client holds anything.
LEMMA MessagePlans ==
    ASSUME NEW r \in EventRows, r.type = "MESSAGE_POSTED"
    PROVE  /\ PlansForEvent(r) # {} => r.payloadVisibility = "PUBLICA"
           /\ "TEAM" \in PlansForEvent(r) => r.actorClientUserId = "id"
           /\ "CLIENT" \in PlansForEvent(r) => r.actorClientUserId = "null" /\ r.actorUserId = "id"
<1>1. r.payloadVisibility # "PUBLICA" => MessageVisibilityOf(r) # "PUBLICA"
  BY DEF MessageVisibilityOf
<1>2. ActorKindOf(r) = "CLIENT" => r.actorClientUserId = "id"
  BY DEF ActorKindOf, EventRows, ActorColumn
<1>3. ActorKindOf(r) = "TEAM" => r.actorClientUserId = "null" /\ r.actorUserId = "id"
  BY DEF ActorKindOf, EventRows, ActorColumn
<1> QED
  BY <1>1, <1>2, <1>3 DEF PlansForEvent, ClientTriggerFor, TeamTriggerFor, IsPublicMessageFrom

\* Steps that neither write nor open a row, nor move a pass past one.
LEMMA QuietMail ==
    ASSUME MailInv, UNCHANGED <<facts, row, sentMessageId, mailed, cur, todo, clientId>>
    PROVE  MailInv'
BY DEF MailInv, MailedAsPlanned, TriedAsPlanned, MessageIdIsTheClients

LEMMA EmitMail ==
    ASSUME IInv, MailInv, NEW e \in Ids, NEW r \in Rows, Emit(e, r)
    PROVE  MailInv'
<1>1. /\ row[e] = "none" /\ row' = [row EXCEPT ![e] = "pending"]
      /\ facts' = [facts EXCEPT ![e] = r]
      /\ UNCHANGED <<sentMessageId, mailed, cur, todo, clientId>>
  BY DEF Emit, pass, history
<1>2. /\ row' \in [Ids -> {"none", "pending", "sealed"}] /\ row'[e] = "pending"
      /\ \A d \in Ids \ {e} : row'[d] = row[d] /\ facts'[d] = facts[d]
  BY <1>1 DEF IInv, TypeOK
<1>3. mailed[e] = {} /\ ~sentMessageId[e]
  BY <1>1 DEF MailInv, MailedAsPlanned, MessageIdIsTheClients
<1>4. \A p \in Passes : cur[p] # 0 => cur[p] \in Ids \ {e}
  BY <1>1 DEF IInv, TypeOK, ControlInv, ListingIsCurrent
<1>5. MailedAsPlanned'
  BY <1>1, <1>2, <1>3 DEF MailInv, MailedAsPlanned
<1>6. TriedAsPlanned'
  BY <1>1, <1>2, <1>4 DEF MailInv, TriedAsPlanned
<1>7. MessageIdIsTheClients'
  BY <1>1, <1>2, <1>3 DEF MailInv, MessageIdIsTheClients
<1> QED
  BY <1>5, <1>6, <1>7 DEF MailInv

\* The UPDATE that seals a row keeps a Message-ID only of a mail the client got.
LEMMA SealMail ==
    ASSUME IInv, MailInv, NEW e \in Ids, NEW attempts, NEW hasId \in BOOLEAN, NEW outcome,
           Seal(e, attempts, hasId, outcome), row[e] # "none",
           hasId => "CLIENT" \in mailed[e],
           UNCHANGED <<facts, mailed>>
    PROVE  MailedAsPlanned' /\ MessageIdIsTheClients'
<1>1. CASE outcome \in {"ok", "doneUnconfirmed"}
  <2>1. /\ row'[e] = "sealed" /\ sentMessageId'[e] = hasId
        /\ \A d \in Ids \ {e} : row'[d] = row[d] /\ sentMessageId'[d] = sentMessageId[d]
    BY <1>1 DEF Seal, IInv, TypeOK
  <2> QED
    BY <2>1 DEF MailInv, MailedAsPlanned, MessageIdIsTheClients
<1>2. CASE outcome \notin {"ok", "doneUnconfirmed"}
  BY <1>2 DEF Seal, MailInv, MailedAsPlanned, MessageIdIsTheClients
<1> QED
  BY <1>1, <1>2

LEMMA DispatchMail ==
    ASSUME IInv, MailInv, NEW p \in Passes, NEW audience \in Audiences, NEW outcome \in SendOutcomes,
           DispatchOne(p, audience, outcome)
    PROVE  MailInv'
<1> DEFINE e == cur[p]
<1>1. /\ pc[p] = "sending" /\ audience \in todo[p]
      /\ todo' = [todo EXCEPT ![p] = @ \ {audience}]
      /\ mailed' = IF outcome \in {"sent", "sentUnconfirmed"}
                   THEN [mailed EXCEPT ![cur[p]] = @ \cup {audience}] ELSE mailed
      /\ clientId' = [clientId EXCEPT ![p] = @ \/ (IsTheClients(audience) /\ outcome = "sent")]
      /\ UNCHANGED <<row, facts, sentMessageId, cur>>
  BY DEF DispatchOne, db
<1>2. e \in Ids /\ e # 0 /\ row[e] = "pending" /\ \A q \in Passes : q # p => cur[q] = 0
  BY <1>1, CurFact, OutboxAssumption
<1>3. audience \in PlansForEvent(facts[e])
  BY <1>1, <1>2 DEF MailInv, TriedAsPlanned
<1>4. /\ \A d \in Ids \ {e} : mailed'[d] = mailed[d]
      /\ mailed[e] \subseteq mailed'[e] /\ mailed'[e] \subseteq mailed[e] \cup {audience}
      /\ outcome = "sent" => audience \in mailed'[e]
  BY <1>1, <1>2 DEF IInv, TypeOK
<1>5. /\ todo'[p] \subseteq todo[p] /\ \A q \in Passes \ {p} : todo'[q] = todo[q] /\ clientId'[q] = clientId[q]
      /\ clientId'[p] => clientId[p] \/ (audience = "CLIENT" /\ outcome = "sent")
  BY <1>1 DEF IInv, TypeOK, IsTheClients
<1>6. MailedAsPlanned'
  BY <1>1, <1>2, <1>3, <1>4 DEF MailInv, MailedAsPlanned
<1>7. TriedAsPlanned'
  BY <1>1, <1>2, <1>4, <1>5 DEF MailInv, TriedAsPlanned
<1>8. MessageIdIsTheClients'
  BY <1>1, <1>4 DEF MailInv, MessageIdIsTheClients
<1> QED
  BY <1>6, <1>7, <1>8 DEF MailInv

LEMMA NextMail == IInv /\ MailInv /\ [Next]_vars => MailInv'
<1> SUFFICES ASSUME IInv, MailInv, [Next]_vars PROVE MailInv'
  OBVIOUS
<1>t. TypeOK
  BY DEF IInv
<1>1. CASE Tick \/ HandleCronSkips \/ UNCHANGED vars
  BY <1>1, QuietMail DEF Tick, HandleCronSkips, vars, db, pass, history
<1>2. CASE Crash
  BY <1>2 DEF Crash, db, MailInv, MailedAsPlanned, TriedAsPlanned, MessageIdIsTheClients
<1>3. ASSUME NEW p \in Passes, HandleCron(p) \/ EndPass(p)
      PROVE  MailInv'
  BY <1>3, QuietMail DEF HandleCron, EndPass, db, history
<1>4. ASSUME NEW p \in Passes, NEW e \in Ids, SkipBlocked(p, e)
      PROVE  MailInv'
  BY <1>4, QuietMail DEF SkipBlocked, db, history
<1>5. ASSUME NEW p \in Passes, NEW e \in Ids, NEW outcome \in WriteOutcomes, SealExhausted(p, e, outcome)
      PROVE  MailInv'
  <2>1. TurnsTo(p, e) /\ Seal(e, seen[p][e], FALSE, outcome)
        /\ UNCHANGED <<facts, mailed, cur, todo, clientId>>
    BY <1>5 DEF SealExhausted, history
  <2>2. row[e] # "none"
    BY <2>1, TurnsToFact
  <2>3. MailedAsPlanned' /\ MessageIdIsTheClients'
    BY <2>1, <2>2, SealMail
  <2>4. TriedAsPlanned'
    BY <2>1 DEF MailInv, TriedAsPlanned
  <2> QED
    BY <2>3, <2>4 DEF MailInv
<1>6. ASSUME NEW p \in Passes, NEW e \in Ids, NEW plan \in SUBSET Audiences, NEW lookupFails \in BOOLEAN,
             BeginDispatch(p, e, plan, lookupFails)
      PROVE  MailInv'
  <2>1. /\ plan \subseteq PlansForEvent(facts[e]) /\ cur' = [cur EXCEPT ![p] = e]
        /\ todo' = [todo EXCEPT ![p] = plan] /\ clientId' = [clientId EXCEPT ![p] = FALSE]
        /\ UNCHANGED <<row, facts, sentMessageId, mailed>>
    BY <1>6 DEF BeginDispatch, db
  <2>2. TriedAsPlanned'
    BY <1>t, <2>1 DEF MailInv, TriedAsPlanned, TypeOK
  <2> QED
    BY <2>1, <2>2 DEF MailInv, MailedAsPlanned, MessageIdIsTheClients
<1>7. ASSUME NEW p \in Passes, NEW outcome \in WriteOutcomes, FinishDispatch(p, outcome)
      PROVE  MailInv'
  <2> DEFINE e == cur[p]
  <2>1. /\ pc[p] = "sending" /\ cur' = [cur EXCEPT ![p] = 0] /\ clientId' = [clientId EXCEPT ![p] = FALSE]
        /\ UNCHANGED <<facts, mailed, todo>>
        /\ \/ \E attempts : Seal(e, attempts, clientId[p], outcome)
           \/ UNCHANGED <<row, sentMessageId>>
    BY <1>7 DEF FinishDispatch, RecordNotifyFailure
  <2>2. e \in Ids /\ row[e] # "none" /\ clientId[p] \in BOOLEAN /\ (clientId[p] => "CLIENT" \in mailed[e])
    BY <1>t, <2>1, CurFact DEF MailInv, TriedAsPlanned, TypeOK
  <2>3. TriedAsPlanned'
    BY <1>t, <2>1 DEF MailInv, TriedAsPlanned, TypeOK
  <2>4. MailedAsPlanned' /\ MessageIdIsTheClients'
    <3>1. CASE \E attempts : Seal(e, attempts, clientId[p], outcome)
      <4> HIDE DEF e
      <4> QED
        BY <2>1, <2>2, <3>1, SealMail
    <3>2. CASE UNCHANGED <<row, sentMessageId>>
      BY <2>1, <3>2 DEF MailInv, MailedAsPlanned, MessageIdIsTheClients
    <3> QED
      BY <2>1, <3>1, <3>2
  <2> QED
    BY <2>3, <2>4 DEF MailInv
<1> QED
  BY <1>1, <1>2, <1>3, <1>4, <1>5, <1>6, <1>7, EmitMail, DispatchMail DEF Next, Step

LEMMA MailInvariance == Spec => [](IInv /\ MailInv)
<1>1. Init => MailInv
  BY DEF Init, IdlePasses, MailInv, MailedAsPlanned, TriedAsPlanned, MessageIdIsTheClients
<1> QED
  BY <1>1, NextMail, Invariance, PTL DEF Spec

\* A message is announced only when it is readably public, to the team when its
\* client author can be read and to the client when it has only a team author that
\* can (plansForEvent, actorKindOf): the row does not change between its plan and
\* its mails, whatever the pass waits for in between.
THEOREM MessagesKeepToTheirSide == Spec => []MessageKeepsToItsSide
<1>1. IInv /\ MailInv => MessageKeepsToItsSide
  BY MessagePlans DEF IInv, TypeOK, MailInv, MailedAsPlanned, MessageKeepsToItsSide
<1> QED
  BY <1>1, MailInvariance, PTL

\* A saved Message-ID is that of a mail the client got, also when the outcome is
\* written in a later attempt or by an UPDATE the process takes for failed.
THEOREM MessageIdsAreTheClients == Spec => []MessageIdIsTheClients
<1>1. MailInv => MessageIdIsTheClients
  BY DEF MailInv
<1> QED
  BY <1>1, MailInvariance, PTL
-----------------------------------------------------------------------------
(* The refinement of EventDelivery: what is written belongs to the row the  *)
(* pass is at, which is still as it was listed.                              *)

\* Steps that touch nothing the promise speaks of.
LEMMA QuietDelivery ==
    ASSUME UNCHANGED <<row, facts, notifyAttempts, mailed, sentMessageId>>
    PROVE  UNCHANGED Delivery!deliveryVars
BY DEF Delivery!deliveryVars

LEMMA PlanFact == \A r : PlansForEvent(r) \in SUBSET Audiences
BY DEF PlansForEvent

LEMMA EmitDelivers ==
    ASSUME TypeOK, NEW e \in Ids, NEW r \in Rows, Emit(e, r)
    PROVE  Delivery!DeliveryNext
<1>1. /\ row[e] = "none" /\ row' = [row EXCEPT ![e] = "pending"]
      /\ facts' = [facts EXCEPT ![e] = r]
      /\ UNCHANGED <<notifyAttempts, sentMessageId, mailed>>
  BY DEF Emit, history
<1> DEFINE plans == [d \in Ids |-> PlansForEvent(facts[d])]
<1>2. plans' = [plans EXCEPT ![e] = PlansForEvent(r)]
  <2>1. \A d \in Ids : facts'[d] = IF d = e THEN r ELSE facts[d]
    BY <1>1 DEF TypeOK
  <2> QED BY <2>1
<1>3. PlansForEvent(r) \in SUBSET Audiences
  BY PlanFact
<1> HIDE DEF plans
<1>4. \E who \in SUBSET Audiences : plans' = [plans EXCEPT ![e] = who]
  BY <1>2, <1>3
<1>5. Delivery!Happen(e)
  BY <1>1, <1>4 DEF Delivery!Happen, plans
<1> QED BY <1>5 DEF Delivery!DeliveryNext

\* An UPDATE that seals: nothing, or the last step of the event.
LEMMA SealDelivers ==
    ASSUME TypeOK, NEW e \in Ids, NEW attempts, NEW hasId \in BOOLEAN, NEW outcome,
           Seal(e, attempts, hasId, outcome), row[e] = "pending",
           hasId => "CLIENT" \in mailed[e],
           attempts = notifyAttempts[e] \/ (attempts = notifyAttempts[e] + 1 /\ attempts = MaxAttempts),
           UNCHANGED <<facts, mailed>>
    PROVE  Delivery!DeliveryNext \/ UNCHANGED Delivery!deliveryVars
<1>1. CASE outcome \in {"ok", "doneUnconfirmed"}
  <2>1. /\ row' = [row EXCEPT ![e] = "sealed"]
        /\ notifyAttempts' = [notifyAttempts EXCEPT ![e] = attempts]
        /\ sentMessageId' = [sentMessageId EXCEPT ![e] = hasId]
    BY <1>1 DEF Seal
  <2>2. \/ UNCHANGED notifyAttempts
        \/ notifyAttempts[e] + 1 = MaxAttempts /\ notifyAttempts' = [notifyAttempts EXCEPT ![e] = MaxAttempts]
    BY <2>1 DEF TypeOK
  <2>3. Delivery!SealEvent(e, hasId)
    BY <2>1, <2>2 DEF Delivery!SealEvent
  <2> QED BY <2>3 DEF Delivery!DeliveryNext
<1>2. CASE outcome \notin {"ok", "doneUnconfirmed"}
  BY <1>2, QuietDelivery DEF Seal
<1> QED BY <1>1, <1>2

LEMMA DispatchDelivers ==
    ASSUME IInv, MailInv, NEW p \in Passes, NEW audience \in Audiences, NEW outcome \in SendOutcomes,
           DispatchOne(p, audience, outcome)
    PROVE  Delivery!DeliveryNext \/ UNCHANGED Delivery!deliveryVars
<1> DEFINE e == cur[p]
<1>1. /\ pc[p] = "sending" /\ audience \in todo[p]
      /\ \/ mailed' = mailed
         \/ mailed' = [mailed EXCEPT ![e] = @ \cup {audience}]
      /\ UNCHANGED <<row, facts, notifyAttempts, sentMessageId>>
  BY DEF DispatchOne, db
<1>2. e \in Ids /\ e # 0 /\ row[e] = "pending" /\ notifyAttempts[e] < MaxAttempts
  BY <1>1, CurFact, OutboxAssumption
<1>3. audience \in PlansForEvent(facts[e])
  BY <1>1, <1>2 DEF MailInv, TriedAsPlanned
<1> HIDE DEF e
<1>4. CASE mailed' = mailed
  BY <1>1, <1>4, QuietDelivery
<1>5. CASE mailed' = [mailed EXCEPT ![e] = @ \cup {audience}]
  <2>1. Delivery!Tell(e, audience)
    BY <1>1, <1>2, <1>3, <1>5 DEF Delivery!Tell
  <2> QED BY <1>2, <2>1 DEF Delivery!DeliveryNext
<1> QED BY <1>1, <1>4, <1>5

LEMMA FinishDelivers ==
    ASSUME IInv, MailInv, NEW p \in Passes, NEW outcome \in WriteOutcomes, FinishDispatch(p, outcome)
    PROVE  Delivery!DeliveryNext \/ UNCHANGED Delivery!deliveryVars
<1> DEFINE e == cur[p]
           spent == seen[p][e] + 1
<1>1. /\ pc[p] = "sending" /\ UNCHANGED <<facts, mailed>>
      /\ \/ Seal(e, seen[p][e], clientId[p], outcome)
         \/ GivesUp(spent) /\ Seal(e, spent, clientId[p], outcome)
         \/ ~GivesUp(spent) /\ RecordNotifyFailure(e, spent, age[p], outcome)
  BY DEF FinishDispatch
<1>2. /\ e \in Ids /\ e # 0 /\ row[e] = "pending" /\ seen[p][e] = notifyAttempts[e]
      /\ notifyAttempts[e] < MaxAttempts /\ notifyAttempts[e] \in Nat /\ MaxAttempts \in Nat
  <2>1. /\ e \in Ids /\ row[e] = "pending" /\ seen[p][e] = notifyAttempts[e]
        /\ seen[p][e] < MaxAttempts
    BY <1>1, CurFact
  <2>2. notifyAttempts \in [Ids -> 0 .. MaxAttempts] /\ MaxAttempts \in Nat
    BY OutboxAssumption DEF IInv, TypeOK
  <2>3. e # 0
    BY <2>1, OutboxAssumption
  <2> HIDE DEF e
  <2> QED BY <2>1, <2>2, <2>3
<1>3. TypeOK /\ clientId[p] \in BOOLEAN /\ (clientId[p] => "CLIENT" \in mailed[e])
  BY <1>1, <1>2 DEF IInv, TypeOK, MailInv, TriedAsPlanned
<1> HIDE DEF e
<1>4. CASE Seal(e, seen[p][e], clientId[p], outcome)
  BY <1>1, <1>2, <1>3, <1>4, SealDelivers
<1>5. CASE GivesUp(spent) /\ Seal(e, spent, clientId[p], outcome)
  <2>1. spent = notifyAttempts[e] + 1 /\ spent = MaxAttempts
    BY <1>2, <1>5 DEF GivesUp
  <2> HIDE DEF spent
  <2> QED BY <1>1, <1>2, <1>3, <1>5, <2>1, SealDelivers
<1>6. CASE ~GivesUp(spent) /\ RecordNotifyFailure(e, spent, age[p], outcome)
  <2>1. spent = notifyAttempts[e] + 1 /\ notifyAttempts[e] + 1 < MaxAttempts
    BY <1>2, <1>6 DEF GivesUp
  <2>2. CASE outcome \in {"ok", "doneUnconfirmed"}
    <3>1. notifyAttempts' = [notifyAttempts EXCEPT ![e] = @ + 1] /\ UNCHANGED <<row, sentMessageId>>
      BY <1>6, <2>1, <2>2 DEF RecordNotifyFailure
    <3>2. Delivery!TryAgain(e)
      BY <1>1, <1>2, <2>1, <3>1 DEF Delivery!TryAgain
    <3> QED BY <1>2, <3>2 DEF Delivery!DeliveryNext
  <2>3. CASE outcome \notin {"ok", "doneUnconfirmed"}
    BY <1>1, <1>6, <2>3, QuietDelivery DEF RecordNotifyFailure
  <2> QED BY <2>2, <2>3
<1> QED BY <1>1, <1>4, <1>5, <1>6

LEMMA DeliveryStep == IInv /\ MailInv /\ [Next]_vars => [Delivery!DeliveryNext]_(Delivery!deliveryVars)
<1> SUFFICES ASSUME IInv, MailInv, [Next]_vars
             PROVE  Delivery!DeliveryNext \/ UNCHANGED Delivery!deliveryVars
  OBVIOUS
<1>t. TypeOK
  BY DEF IInv
<1>1. CASE Tick \/ Crash \/ HandleCronSkips \/ UNCHANGED vars
  BY <1>1, QuietDelivery DEF Tick, Crash, HandleCronSkips, vars, db, history
<1>2. ASSUME NEW p \in Passes, HandleCron(p) \/ EndPass(p) \/ (\E e \in Ids : SkipBlocked(p, e))
      PROVE  UNCHANGED Delivery!deliveryVars
  BY <1>2, QuietDelivery DEF HandleCron, EndPass, SkipBlocked, db, history
<1>3. ASSUME NEW p \in Passes, NEW e \in Ids, NEW plan, NEW lookupFails,
             BeginDispatch(p, e, plan, lookupFails)
      PROVE  UNCHANGED Delivery!deliveryVars
  BY <1>3, QuietDelivery DEF BeginDispatch, db
<1>4. ASSUME NEW p \in Passes, NEW e \in Ids, NEW outcome \in WriteOutcomes, SealExhausted(p, e, outcome)
      PROVE  Delivery!DeliveryNext \/ UNCHANGED Delivery!deliveryVars
  <2>1. TurnsTo(p, e) /\ Seal(e, seen[p][e], FALSE, outcome) /\ UNCHANGED <<facts, mailed>>
    BY <1>4 DEF SealExhausted, history
  <2>2. row[e] = "pending" /\ seen[p][e] = notifyAttempts[e]
    BY <2>1, TurnsToFact
  <2> QED BY <1>t, <2>1, <2>2, SealDelivers
<1> QED
  BY <1>t, <1>1, <1>2, <1>3, <1>4, EmitDelivers, DispatchDelivers, FinishDelivers DEF Next, Step

\* The outbox does nothing of an event but what EventDelivery allows: the mails are of who it was for
\* when it happened, the failed tries are counted and bounded, and the seal comes last (drain, seal).
THEOREM OutboxDelivers == Spec => DeliveryImplemented
<1>1. Init => Delivery!DeliveryInit
  <2> SUFFICES ASSUME Init PROVE Delivery!DeliveryInit
    OBVIOUS
  <2>1. PlansForEvent(NoRow) = {}
    BY DEF PlansForEvent, ClientTriggerFor, TeamTriggerFor, IsPublicMessageFrom, NoRow
  <2>2. \A e \in Ids : facts[e] = NoRow
    BY DEF Init
  <2>3. [e \in Ids |-> PlansForEvent(facts[e])] = [e \in Ids |-> {}]
    BY <2>1, <2>2
  <2>4. /\ row \in [Ids -> {"none", "pending"}] /\ mailed = [e \in Ids |-> {}]
        /\ notifyAttempts = [e \in Ids |-> IF row[e] = "pending" THEN MaxAttempts ELSE 0]
        /\ sentMessageId = [e \in Ids |-> FALSE]
    BY DEF Init
  <2> QED BY <2>3, <2>4 DEF Delivery!DeliveryInit
<1> QED
  BY <1>1, DeliveryStep, MailInvariance, PTL DEF Spec, DeliveryImplemented, Delivery!DeliverySpec
=============================================================================
