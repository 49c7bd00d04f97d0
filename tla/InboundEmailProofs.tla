--------------------------- MODULE InboundEmailProofs ---------------------------
(***************************************************************************)
(* Theorems of InboundEmail: types, one effect per mail, an ERROR row that  *)
(* is safe to put back, the refinement of MessageOnce, what is lost and     *)
(* what a row says, and the brakes.  Some need no retries or a single       *)
(* reader (Setting), the brakes a single reader: each says so.              *)
(***************************************************************************)
EXTENDS InboundEmail, SequenceTheorems, FiniteSetTheorems, WellFoundedInduction, TLAPS

\* A set of mails that is not empty has a first one.
LEMMA FirstFact ==
    ASSUME NEW mails \in SUBSET Mails, mails # {}
    PROVE  First(mails) \in mails
<1> DEFINE Upto == {0 .. m : m \in mails}
<1>1. Upto \subseteq FiniteSubsetsOf(Nat) /\ Upto # {}
  <2>1. \A m \in mails : m \in Nat
    BY MailAssumption
  <2>2. \A m \in mails : IsFiniteSet(0 .. m)
    BY <2>1, FS_Interval
  <2>3. \A m \in mails : 0 .. m \in SUBSET Nat
    BY <2>1
  <2> QED BY <2>2, <2>3 DEF FiniteSubsetsOf
<1>2. PICK m \in mails : \A n \in mails : ~(0 .. n \subseteq 0 .. m /\ 0 .. n # 0 .. m)
  <2>1. IsWellFoundedOn(StrictSubsetOrdering(Nat), FiniteSubsetsOf(Nat))
    BY FS_StrictSubsetOrderingWellFounded
  <2> HIDE DEF Upto
  <2>2. PICK x \in Upto : \A y \in Upto : ~ (<<y, x>> \in StrictSubsetOrdering(Nat))
    BY <1>1, <2>1, WFMin, Zenon
  <2>3. \A y \in Upto : y \in SUBSET Nat
    BY <1>1 DEF FiniteSubsetsOf
  <2>4. \A y \in Upto : ~(y \subseteq x /\ y # x)
    BY <2>2, <2>3 DEF StrictSubsetOrdering
  <2>5. PICK m \in mails : x = 0 .. m
    BY DEF Upto
  <2>6. \A n \in mails : 0 .. n \in Upto
    BY DEF Upto
  <2> QED BY <2>4, <2>5, <2>6, Zenon
<1>3. \A n \in mails : m <= n
  <2>1. SUFFICES ASSUME NEW n \in mails, n < m PROVE FALSE
    BY MailAssumption
  <2>2. m \in Nat /\ n \in Nat
    BY MailAssumption
  <2>3. 0 .. n \subseteq 0 .. m /\ m \in 0 .. m /\ m \notin 0 .. n
    BY <2>1, <2>2
  <2> QED BY <1>2, <2>3
<1> QED BY <1>3 DEF First


\* A reader at work is at a mail of the mailbox.
LEMMA CurFact ==
    ASSUME TypeOK, NEW r \in Readers, pc[r] # "idle"
    PROVE  /\ Cur(r) \in batch[r] /\ Cur(r) \in Mails
           /\ Mail[Cur(r)].mid \in Mids /\ Mail[Cur(r)].address \in Addresses
           /\ Mail[Cur(r)].verdict \in Rejections \cup {"PASA"}
<1>1. batch[r] \in SUBSET Mails /\ batch[r] # {}
  BY DEF TypeOK
<1>2. Cur(r) \in batch[r]
  BY <1>1, FirstFact DEF Cur
<1> QED BY <1>1, <1>2, MailAssumption

\* Growing older changes the age of the entries of a sequence and nothing else.
LEMMA OlderFact ==
    ASSUME NEW S, NEW seq \in Seq(S), NEW from, NEW to \in Ages,
           \A e \in S : [e EXCEPT !.age = to] \in S
    PROVE  Older(seq, from, to) \in Seq(S) /\ DOMAIN Older(seq, from, to) = DOMAIN seq
<1>1. DOMAIN seq = 1 .. Len(seq) /\ Len(seq) \in Nat
  OBVIOUS
<1>2. \A i \in 1 .. Len(seq) :
        (IF seq[i].age \in from THEN [seq[i] EXCEPT !.age = to] ELSE seq[i]) \in S
  OBVIOUS
<1>3. Older(seq, from, to)
        = [i \in 1 .. Len(seq) |-> IF seq[i].age \in from THEN [seq[i] EXCEPT !.age = to] ELSE seq[i]]
  BY <1>1 DEF Older
<1> QED BY <1>1, <1>2, <1>3, IsASeq

\* The row a reader or a retry changes stays a row.
LEMMA RowFact ==
    ASSUME TypeOK, NEW i \in Nat
    PROVE  /\ \A t \in Nat : [rows EXCEPT ![i].ticket = t] \in Seq(Row)
           /\ [rows EXCEPT ![i].outcome = "ERROR"] \in Seq(Row)
           /\ [rows EXCEPT ![i].requeued = TRUE] \in Seq(Row)
<1>1. CASE i \in DOMAIN rows
  <2>1. rows[i] \in Row /\ i \in 1 .. Len(rows)
    BY <1>1 DEF TypeOK
  <2>2. \A t \in Nat : [rows[i] EXCEPT !.ticket = t] \in Row
    BY <2>1 DEF Row
  <2>3. [rows[i] EXCEPT !.outcome = "ERROR"] \in Row /\ [rows[i] EXCEPT !.requeued = TRUE] \in Row
    BY <2>1 DEF Row, Outcomes
  <2> QED BY <2>1, <2>2, <2>3, ExceptSeq DEF TypeOK
<1>2. CASE i \notin DOMAIN rows
  <2>1. \A e : [rows EXCEPT ![i] = e] = rows
    BY <1>2 DEF TypeOK
  <2> QED BY <2>1 DEF TypeOK
<1> QED BY <1>1, <1>2

\* The rows inserted for the mail at hand are rows.
LEMMA NewRowFact ==
    ASSUME TypeOK, NEW r \in Readers, pc[r] # "idle", NEW d \in [outcome: Outcomes, ticket: Nat]
    PROVE  /\ NewRow(Mail[Cur(r)], d) \in Row
           /\ Append(rows, NewRow(Mail[Cur(r)], d)) \in Seq(Row)
<1>1. NewRow(Mail[Cur(r)], d) \in Row
  BY CurFact DEF NewRow, Row, Ages
<1> QED BY <1>1, AppendProperties DEF TypeOK

LEMMA DraftFact ==
    ASSUME TypeOK, NEW r \in Readers, NEW o \in Outcomes, NEW t \in Nat, Decide(r, o, t)
    PROVE  /\ draft' \in [Readers -> [outcome: Outcomes, ticket: Nat]]
           /\ pc' \in [Readers -> Steps] /\ pc'[r] = "record" /\ \A q \in Readers : q # r => pc'[q] = pc[q]
BY DEF TypeOK, Decide, Goto, Steps

\* Opening a ticket or adding a message keeps the types of what they change.
LEMMA EffectType ==
    ASSUME TypeOK, NEW r \in Readers, pc[r] # "idle", Effect(r)
    PROVE  /\ tickets' \in Seq(Ticket)
           /\ posts' \subseteq [ticket: Nat, address: Addresses]
           /\ opened' \in Seq([address: Addresses, age: Ages])
           /\ made' \in [Mids -> Nat]
<1> USE CurFact
<1>1. made' \in [Mids -> Nat]
  <2>1. made' = [made EXCEPT ![Mail[Cur(r)].mid] = @ + 1]
    BY DEF Effect
  <2>2. made \in [Mids -> Nat]
    BY DEF TypeOK
  <2> QED BY <2>1, <2>2
<1>2. NewTicket(Mail[Cur(r)]) \in Ticket
  BY MailAssumption DEF Ticket, NewTicket
<1>3. [address |-> Mail[Cur(r)].address, age |-> "hour"] \in [address: Addresses, age: Ages]
  BY DEF Ages
<1>4. tickets' \in Seq(Ticket) /\ opened' \in Seq([address: Addresses, age: Ages])
  <2>1. tickets \in Seq(Ticket) /\ opened \in Seq([address: Addresses, age: Ages])
    BY DEF TypeOK
  <2>2. /\ Append(tickets, NewTicket(Mail[Cur(r)]))
             \in Seq(Ticket)
        /\ Append(opened, [address |-> Mail[Cur(r)].address, age |-> "hour"])
             \in Seq([address: Addresses, age: Ages])
    BY <1>2, <1>3, <2>1, AppendProperties
  <2> QED BY <2>1, <2>2 DEF Effect
<1>5. posts' \subseteq [ticket: Nat, address: Addresses]
  BY DEF Effect, TypeOK
<1> QED BY <1>1, <1>4, <1>5
-----------------------------------------------------------------------------
\* The types of a step that changes at most the state of the readers, the answers and the failures.
LEMMA ReaderTypes ==
    ASSUME TypeOK, UNCHANGED <<rows, effectVars, claim, adminVars, worldVars>>,
           flag' \in [Mails -> {"coming", "unseen", "seen"}],
           batch' \in [Readers -> SUBSET Mails], trust' \in [Readers -> BOOLEAN],
           draft' \in [Readers -> [outcome: Outcomes, ticket: Nat]], pc' \in [Readers -> Steps],
           replies' \in Seq([address: Addresses, age: Ages]), faults' \in Nat,
           \A r \in Readers : pc'[r] # "idle" => batch'[r] # {}
    PROVE  TypeOK'
BY DEF TypeOK, effectVars, adminVars, worldVars

\* Every step keeps the types.
LEMMA TypeStep == TypeOK /\ [Next]_vars => TypeOK'
<1> SUFFICES ASSUME TypeOK, [Next]_vars PROVE TypeOK'
  OBVIOUS
<1> USE DEF Goto, Steps, readerVars, adminVars, worldVars, effectVars, Fault
<1>1. ASSUME NEW m \in Mails, Arrive(m) PROVE TypeOK'
  BY <1>1 DEF TypeOK, Arrive
<1>2. CASE Switch
  BY <1>2 DEF TypeOK, Switch
<1>3. ASSUME NEW from, NEW to \in Ages, TimePasses(from, to) PROVE TypeOK'
  <2>1. rows' \in Seq(Row)
    <3>1. \A e \in Row : [e EXCEPT !.age = to] \in Row
      BY DEF Row
    <3> QED BY <1>3, <3>1, OlderFact DEF TypeOK, TimePasses
  <2>2. replies' \in Seq([address: Addresses, age: Ages]) /\ opened' \in Seq([address: Addresses, age: Ages])
    <3>1. \A e \in [address: Addresses, age: Ages] : [e EXCEPT !.age = to] \in [address: Addresses, age: Ages]
      OBVIOUS
    <3> QED BY <1>3, <3>1, OlderFact DEF TypeOK, TimePasses
  <2> QED BY <1>3, <2>1, <2>2, BoundAssumption DEF TypeOK, TimePasses
<1>4. ASSUME NEW r \in Readers, StartPass(r) PROVE TypeOK'
  <2>1. Fetched \subseteq Mails
    BY DEF Fetched, Unseen
  <2>2. batch' \in [Readers -> SUBSET Mails] /\ \A q \in Readers : pc'[q] # "idle" => batch'[q] # {}
    BY <1>4, <2>1 DEF TypeOK, StartPass
  <2>3. trust' \in [Readers -> BOOLEAN] /\ faults' \in Nat /\ pc' \in [Readers -> Steps]
    <3>1. trust \in [Readers -> BOOLEAN] /\ faults \in Nat /\ pc \in [Readers -> Steps]
      BY DEF TypeOK
    <3>2. \E b \in BOOLEAN : trust' = [trust EXCEPT ![r] = b]
      BY <1>4, Zenon DEF StartPass
    <3>3. trust' \in [Readers -> BOOLEAN]
      BY <3>1, <3>2
    <3>4. faults' = faults \/ faults' = faults + 1
      BY <1>4 DEF StartPass
    <3>5. pc' = [pc EXCEPT ![r] = "look"]
      BY <1>4 DEF StartPass
    <3> QED BY <3>1, <3>3, <3>4, <3>5
  <2>4. UNCHANGED <<flag, rows, effectVars, replies, draft, claim, adminVars, worldVars>>
    BY <1>4 DEF StartPass
  <2> QED BY <2>2, <2>3, <2>4, ReaderTypes DEF TypeOK
<1>5. ASSUME NEW r \in Readers, Look(r) PROVE TypeOK'
  BY <1>5 DEF TypeOK, Look
<1>6. ASSUME NEW r \in Readers, Screen(r) PROVE TypeOK'
  <2>1. Verdict(r, Mail[Cur(r)]) \in Rejections \cup {"PASA"}
    BY <1>6, CurFact DEF Screen, Verdict, Rejections
  <2>2. /\ draft' \in [Readers -> [outcome: Outcomes, ticket: Nat]] /\ pc' \in [Readers -> Steps]
        /\ pc'[r] # "idle" /\ \A q \in Readers : q # r => pc'[q] = pc[q]
    BY <1>6, <2>1, DraftFact DEF Screen, Outcomes, TypeOK
  <2> QED BY <1>6, <2>2 DEF TypeOK, Screen
<1>7. ASSUME NEW r \in Readers, Judge(r) PROVE TypeOK'
  <2>1. PICK mail \in {Mail[Cur(r)]} : JudgeClient(r, mail) \/ JudgeStaff(r, mail) \/ JudgeUnknown(r, mail)
    BY <1>7 DEF Judge
  <2>2. \A t \in Thread(mail) \cup StaffTicket(mail) : t \in Nat
    <3>1. DOMAIN tickets \subseteq Nat
      BY DEF TypeOK
    <3>2. Thread(mail) \subseteq DOMAIN tickets
      BY DEF Thread, TicketsOf, ByCode
    <3>3. StaffTicket(mail) \subseteq DOMAIN tickets
      BY DEF StaffTicket, TicketsOf, ByCode
    <3> QED BY <3>1, <3>2, <3>3
  <2>3. \E o \in Outcomes, t \in Nat : Decide(r, o, t)
    BY <2>1, <2>2 DEF JudgeClient, JudgeStaff, JudgeUnknown, Outcomes, Claims
  <2>4. /\ draft' \in [Readers -> [outcome: Outcomes, ticket: Nat]] /\ pc' \in [Readers -> Steps]
        /\ pc'[r] = "record" /\ \A q \in Readers : q # r => pc'[q] = pc[q]
    BY <2>3, DraftFact
  <2> QED BY <1>7, <2>4 DEF TypeOK, Judge
<1>25. ASSUME NEW r \in Readers, JudgeBlind(r) PROVE TypeOK'
  <2>1. /\ draft' \in [Readers -> [outcome: Outcomes, ticket: Nat]] /\ pc' \in [Readers -> Steps]
        /\ pc'[r] = "record" /\ \A q \in Readers : q # r => pc'[q] = pc[q]
    BY <1>25, DraftFact DEF JudgeBlind, Outcomes
  <2>2. UNCHANGED <<flag, rows, effectVars, replies, batch, trust, claim, adminVars, worldVars>>
        /\ pc[r] = "judge" /\ faults' = faults + 1
    BY <1>25 DEF JudgeBlind
  <2>3. faults \in Nat /\ \A q \in Readers : pc[q] # "idle" => batch[q] # {}
    BY DEF TypeOK
  <2>4. faults' \in Nat /\ \A q \in Readers : pc'[q] # "idle" => batch'[q] # {}
    BY <2>1, <2>2, <2>3
  <2> QED BY <2>1, <2>2, <2>4, ReaderTypes DEF TypeOK
<1>8. ASSUME NEW r \in Readers, Record(r) PROVE TypeOK'
  <2>1. Append(rows, NewRow(Mail[Cur(r)], draft[r])) \in Seq(Row)
    BY <1>8, NewRowFact DEF TypeOK, KeyFree, Record
  <2>2. {After(draft[r].outcome), KeyTaken(draft[r].outcome)} \subseteq Steps \ {"idle"}
    BY DEF After, KeyTaken, OnException
  <2>3. rows' \in Seq(Row) /\ claim' \in [Readers -> Nat]
    <3>1. rows \in Seq(Row) /\ Len(rows) \in Nat /\ claim \in [Readers -> Nat]
      BY DEF TypeOK
    <3>2. rows' = rows \/ rows' = Append(rows, NewRow(Mail[Cur(r)], draft[r]))
      BY <1>8 DEF Record
    <3>3. claim' = claim \/ claim' = [claim EXCEPT ![r] = Len(rows) + 1]
      BY <1>8 DEF Record
    <3>4. [claim EXCEPT ![r] = Len(rows) + 1] \in [Readers -> Nat]
      BY <3>1
    <3> QED BY <2>1, <3>1, <3>2, <3>3, <3>4
  <2>4. /\ pc' \in [Readers -> Steps] /\ \A q \in Readers : q # r => pc'[q] = pc[q]
    BY <1>8, <2>2 DEF TypeOK, KeyFree, Record
  <2>5. pc[r] # "idle"
    BY <1>8 DEF Record
  <2> QED BY <1>8, <2>3, <2>4, <2>5 DEF TypeOK, KeyFree, Record
<1>9. ASSUME NEW r \in Readers, Throw(r) PROVE TypeOK'
  BY <1>9, BoundAssumption DEF TypeOK, OnException, Throw
<1>10. ASSUME NEW r \in Readers, RecordUnconfirmed(r) PROVE TypeOK'
  <2>1. Append(rows, NewRow(Mail[Cur(r)], draft[r])) \in Seq(Row)
    BY <1>10, NewRowFact DEF TypeOK, KeyFree, OnException, RecordUnconfirmed
  <2> QED BY <1>10, <2>1, BoundAssumption DEF TypeOK, KeyFree, OnException, RecordUnconfirmed
<1>11. ASSUME NEW r \in Readers, RecordError(r) PROVE TypeOK'
  <2>1. NoDraft \in [outcome: Outcomes, ticket: Nat]
    BY DEF NoDraft, Outcomes
  <2>2. Append(rows, NewRow(Mail[Cur(r)], NoDraft)) \in Seq(Row)
    BY <1>11, <2>1, NewRowFact DEF TypeOK, KeyFree, RecordError
  <2>3. rows' \in Seq(Row) /\ faults' \in Nat
    <3>1. rows \in Seq(Row) /\ faults \in Nat
      BY DEF TypeOK
    <3> QED BY <1>11, <2>2, <3>1 DEF KeyFree, RecordError
  <2> QED BY <1>11, <2>3 DEF TypeOK, KeyFree, RecordError
<1>12. ASSUME NEW r \in Readers, Write(r) PROVE TypeOK'
  <2>1. pc[r] = "write" /\ Effect(r)
    BY <1>12 DEF Write
  <2>2. Len(tickets) \in Nat /\ draft[r] \in [outcome: Outcomes, ticket: Nat]
    BY DEF TypeOK
  <2>3. draft' \in [Readers -> [outcome: Outcomes, ticket: Nat]]
    <3>1. [draft[r] EXCEPT !.ticket = Len(tickets) + 1] \in [outcome: Outcomes, ticket: Nat]
      BY <2>2
    <3>2. draft \in [Readers -> [outcome: Outcomes, ticket: Nat]]
      BY DEF TypeOK
    <3>3. \/ draft' = [draft EXCEPT ![r] = [draft[r] EXCEPT !.ticket = Len(tickets) + 1]]
          \/ draft' = draft
      BY <1>12 DEF Write
    <3> HIDE <1>12
    <3> QED BY <3>1, <3>2, <3>3
  <2>4. /\ tickets' \in Seq(Ticket)
        /\ posts' \subseteq [ticket: Nat, address: Addresses]
        /\ opened' \in Seq([address: Addresses, age: Ages])
        /\ made' \in [Mids -> Nat]
    BY <2>1, EffectType
  <2>5. pc' \in [Readers -> Steps] /\ batch' = batch /\ \A q \in Readers : q # r => pc'[q] = pc[q]
    BY <1>12 DEF TypeOK, Write
  <2> QED BY <1>12, <2>1, <2>3, <2>4, <2>5 DEF TypeOK, Write
<1>13. ASSUME NEW r \in Readers, WriteFails(r) PROVE TypeOK'
  <2>1. pc[r] = "write"
    BY <1>13 DEF WriteFails
  <2>2. /\ tickets' \in Seq(Ticket)
        /\ posts' \subseteq [ticket: Nat, address: Addresses]
        /\ opened' \in Seq([address: Addresses, age: Ages])
        /\ made' \in [Mids -> Nat]
    BY <1>13, <2>1, EffectType DEF TypeOK, WriteFails
  <2>3. /\ UNCHANGED <<flag, rows, replies, batch, trust, draft, claim, adminVars, worldVars>>
        /\ pc' = [pc EXCEPT ![r] = "fail"] /\ faults' = faults + 1
    BY <1>13 DEF WriteFails
  <2> QED BY <2>1, <2>2, <2>3 DEF TypeOK
<1>14. ASSUME NEW r \in Readers, Link(r) PROVE TypeOK'
  <2>1. rows' \in Seq(Row)
    BY <1>14, RowFact DEF TypeOK, Link
  <2> QED BY <1>14, <2>1 DEF TypeOK, Link
<1>15. ASSUME NEW r \in Readers, LinkFails(r) PROVE TypeOK'
  <2>1. rows' \in Seq(Row)
    <3>1. rows \in Seq(Row) /\ claim[r] \in Nat /\ draft[r].ticket \in Nat
      BY DEF TypeOK
    <3>2. [rows EXCEPT ![claim[r]].ticket = draft[r].ticket] \in Seq(Row)
      BY <3>1, RowFact
    <3> QED BY <1>15, <3>1, <3>2 DEF LinkFails
  <2>2. /\ UNCHANGED <<flag, effectVars, replies, batch, trust, draft, claim, adminVars, worldVars>>
        /\ pc[r] = "link" /\ pc' = [pc EXCEPT ![r] = "fail"] /\ faults' = faults + 1
    BY <1>15 DEF LinkFails
  <2> QED BY <2>1, <2>2 DEF TypeOK
<1>16. ASSUME NEW r \in Readers, FailRow(r) PROVE TypeOK'
  <2>1. rows' \in Seq(Row)
    <3>1. rows \in Seq(Row) /\ claim[r] \in Nat
      BY DEF TypeOK
    <3>2. [rows EXCEPT ![claim[r]].outcome = "ERROR"] \in Seq(Row)
      BY <3>1, RowFact
    <3> QED BY <1>16, <3>1, <3>2 DEF FailRow
  <2>2. /\ UNCHANGED <<flag, effectVars, replies, batch, trust, draft, claim, adminVars, worldVars>>
        /\ pc[r] = "fail" /\ pc' = [pc EXCEPT ![r] = "mark"] /\ faults' \in {faults, faults + 1}
    BY <1>16 DEF FailRow
  <2> QED BY <2>1, <2>2 DEF TypeOK
<1>17. ASSUME NEW r \in Readers, Reply(r) PROVE TypeOK'
  <2>1. [address |-> Mail[Cur(r)].address, age |-> "hour"] \in [address: Addresses, age: Ages]
    BY <1>17, CurFact DEF Reply, Ages
  <2>2. replies' \in Seq([address: Addresses, age: Ages])
    <3>1. replies \in Seq([address: Addresses, age: Ages])
      BY DEF TypeOK
    <3>2. Append(replies, [address |-> Mail[Cur(r)].address, age |-> "hour"])
            \in Seq([address: Addresses, age: Ages])
      BY <2>1, <3>1, AppendProperties
    <3> QED BY <1>17, <3>1, <3>2 DEF Reply
  <2>3. /\ UNCHANGED <<flag, rows, effectVars, batch, trust, draft, claim, adminVars, worldVars>>
        /\ pc[r] = "reply" /\ pc' = [pc EXCEPT ![r] = "mark"] /\ faults' \in {faults, faults + 1}
    BY <1>17 DEF Reply
  <2>4. faults \in Nat /\ pc \in [Readers -> Steps] /\ \A q \in Readers : pc[q] # "idle" => batch[q] # {}
    BY DEF TypeOK
  <2>5. faults' \in Nat /\ pc' \in [Readers -> Steps] /\ \A q \in Readers : pc'[q] # "idle" => batch'[q] # {}
    BY <2>3, <2>4
  <2>6. batch' \in [Readers -> SUBSET Mails] /\ trust' \in [Readers -> BOOLEAN]
        /\ draft' \in [Readers -> [outcome: Outcomes, ticket: Nat]]
        /\ flag' \in [Mails -> {"coming", "unseen", "seen"}]
    BY <2>3 DEF TypeOK
  <2> QED BY <2>2, <2>3, <2>5, <2>6, ReaderTypes
<1>18. ASSUME NEW r \in Readers, Mark(r) PROVE TypeOK'
  <2>1. Cur(r) \in Mails
    BY <1>18, CurFact DEF Mark
  <2>2. flag' \in [Mails -> {"coming", "unseen", "seen"}] /\ faults' \in Nat
    <3>1. flag \in [Mails -> {"coming", "unseen", "seen"}] /\ faults \in Nat
      BY DEF TypeOK
    <3> QED BY <1>18, <3>1 DEF Mark
  <2>3. batch' \in [Readers -> SUBSET Mails] /\ pc' \in [Readers -> Steps]
        /\ \A q \in Readers : pc'[q] # "idle" => batch'[q] # {}
    <3>1. batch \in [Readers -> SUBSET Mails] /\ pc \in [Readers -> Steps]
          /\ \A q \in Readers : pc[q] # "idle" => batch[q] # {}
      BY DEF TypeOK
    <3>2. batch' = [batch EXCEPT ![r] = batch[r] \ {Cur(r)}]
          /\ pc' = [pc EXCEPT ![r] = AfterMail(batch'[r])]
      BY <1>18 DEF Mark
    <3> QED BY <3>1, <3>2 DEF AfterMail
  <2>4. UNCHANGED <<rows, effectVars, replies, trust, draft, claim, adminVars, worldVars>>
    BY <1>18 DEF Mark
  <2> QED BY <2>2, <2>3, <2>4, ReaderTypes DEF TypeOK
<1>19. ASSUME NEW r \in Readers, Crash(r) PROVE TypeOK'
  BY <1>19, BoundAssumption DEF TypeOK, Crash
<1>20. ASSUME NEW a \in Admins, NEW i \in DOMAIN rows, StartRetry(a, i) PROVE TypeOK'
  BY <1>20 DEF TypeOK, StartRetry
<1>21. ASSUME NEW a \in Admins, Unmark(a) PROVE TypeOK'
  BY <1>21 DEF TypeOK, Unmark
<1>22. ASSUME NEW a \in Admins, Rename(a) PROVE TypeOK'
  <2>1. rows' \in Seq(Row)
    BY <1>22, RowFact DEF TypeOK, Rename
  <2> QED BY <1>22, <2>1 DEF TypeOK, Rename
<1>23. ASSUME NEW a \in Admins, RetryFails(a) PROVE TypeOK'
  BY <1>23, BoundAssumption DEF TypeOK, RetryFails
<1>24. CASE UNCHANGED vars
  BY <1>24 DEF TypeOK, vars
<1> QED
  BY <1>1, <1>2, <1>3, <1>4, <1>5, <1>6, <1>7, <1>8, <1>9, <1>10, <1>11, <1>12, <1>13, <1>14, <1>15,
     <1>16, <1>17, <1>18, <1>19, <1>20, <1>21, <1>22, <1>23, <1>24, <1>25
     DEF Next, Advance, Break, Retry, HourPasses, WeekPasses, Ages

LEMMA InboundInit == Init => TypeOK
<1>1. NoDraft \in [outcome: Outcomes, ticket: Nat]
  BY DEF NoDraft, Outcomes
<1>2. <<>> \in Seq(Row) /\ <<>> \in Seq([address: Addresses, age: Ages])
  BY EmptySeq
<1> SUFFICES ASSUME Init PROVE TypeOK
  OBVIOUS
<1>3. enabled \in BOOLEAN /\ rows \in Seq(Row) /\ tickets \in Seq(Ticket) /\ posts \subseteq [ticket: Nat, address: Addresses]
  BY <1>2, MailAssumption DEF Init
<1>4. replies \in Seq([address: Addresses, age: Ages]) /\ opened \in Seq([address: Addresses, age: Ages])
  BY <1>2 DEF Init
<1> QED BY <1>1, <1>3, <1>4 DEF Init, TypeOK, Steps

\* The variables keep their types in every run, whatever the mails and the bounds.
THEOREM InboundTypes == Spec => []TypeOK
BY InboundInit, TypeStep, PTL DEF Spec
-----------------------------------------------------------------------------
(* EffectOnce.  A Message-ID is written for only by the reader whose row     *)
(* holds it, and a row that held it and was freed left a ticket that the     *)
(* next reading of the mail runs into.                                       *)

\* The setting: no retry by hand, or a single reader (docker-compose.yml runs one process).
Setting == Admins = {} \/ \E r \in Readers : Readers = {r}

\* message_id is unique among the rows that keep theirs.
SoleKey ==
    \A i, j \in DOMAIN rows :
        rows[i].mid = rows[j].mid /\ ~rows[i].requeued /\ ~rows[j].requeued => i = j

Owning == {"write", "link", "fail"}

\* Between the claim and the mark, a reader has a row of its own: the claim of the mail at hand.
Holding ==
    \A r \in Readers : pc[r] \in Owning =>
        /\ claim[r] \in DOMAIN rows
        /\ rows[claim[r]].mid = Mail[Cur(r)].mid
        /\ ~rows[claim[r]].requeued
        /\ draft[r].outcome \in Claims
        /\ rows[claim[r]].outcome = draft[r].outcome
        /\ draft[r].outcome = "MENSAJE_ANADIDO" => rows[claim[r]].ticket # 0
        /\ pc[r] = "link" => draft[r].outcome = "TICKET_CREADO"
        /\ \A q \in Readers : q # r /\ pc[q] \in Owning => claim[q] # claim[r]

\* A message goes to a ticket, and the ticket that was just opened has a number.
DraftShape ==
    \A r \in Readers :
        /\ pc[r] = "record" /\ draft[r].outcome = "MENSAJE_ANADIDO" => draft[r].ticket # 0
        /\ pc[r] = "link" => draft[r].ticket # 0

\* Before the write nothing was written.
WriteFresh == \A r \in Readers : pc[r] = "write" => made[Mail[Cur(r)].mid] = 0

\* What was written is remembered: by the row, or by the ticket when a retry freed the row.
Remembered ==
    \A mid \in Mids : made[mid] > 0 =>
        Live(mid) # {} \/ (Admins # {} /\ TicketsOf({mid}) # {})

\* A row without a ticket has nothing written for it, but a ticket.
UntiedHasTicket ==
    \A i \in DOMAIN rows :
        ~rows[i].requeued /\ rows[i].ticket = 0 /\ made[rows[i].mid] > 0 => TicketsOf({rows[i].mid}) # {}

\* A retry in course is about a row in ERROR without a ticket, which no reader holds.
Retrying ==
    \A a \in Admins : apc[a] # "idle" =>
        /\ arow[a] \in DOMAIN rows
        /\ rows[arow[a]].outcome = "ERROR" /\ rows[arow[a]].ticket = 0

\* A single reader that found the Message-ID free still has it free.
Checked ==
    \A r \in Readers : Readers = {r} =>
        /\ pc[r] \in {"screen", "judge", "record"} => Live(Mail[Cur(r)].mid) = {}
        /\ pc[r] = "judge" \/ (pc[r] = "record" /\ draft[r].outcome \in Claims) => made[Mail[Cur(r)].mid] = 0

OnceInv == /\ TypeOK /\ EffectOnce /\ SoleKey /\ Holding /\ DraftShape /\ WriteFresh
           /\ Remembered /\ UntiedHasTicket /\ Retrying /\ Checked

\* What does not touch the tables keeps what is said of the tables alone.
LEMMA SameTables ==
    ASSUME OnceInv, rows' = rows, tickets' = tickets, made' = made
    PROVE  /\ EffectOnce' /\ SoleKey' /\ Remembered' /\ UntiedHasTicket'
           /\ \A mid \in Mids : Live(mid)' = Live(mid) /\ TicketsOf({mid})' = TicketsOf({mid})
BY DEF OnceInv, EffectOnce, SoleKey, Remembered, UntiedHasTicket, Live, TicketsOf

\* A step outside of the readers and of the retries.
LEMMA OutsideStep ==
    ASSUME OnceInv, TypeOK', UNCHANGED <<rows, effectVars, readerVars, adminVars>>
    PROVE  OnceInv'
<1> USE DEF effectVars, readerVars, adminVars
<1>1. EffectOnce' /\ SoleKey' /\ Remembered' /\ UntiedHasTicket'
  BY SameTables
<1>2. \A r \in Readers : Cur(r)' = Cur(r)
  BY DEF Cur
<1>3. Holding' /\ DraftShape' /\ WriteFresh' /\ Retrying'
  BY <1>2 DEF OnceInv, Holding, DraftShape, WriteFresh, Retrying
<1>4. Checked'
  BY <1>2 DEF OnceInv, Checked, Live
<1> QED BY <1>1, <1>3, <1>4 DEF OnceInv

\* A reader moves without touching the tables and without a row of its own.
LEMMA MoveStep ==
    ASSUME OnceInv, TypeOK', NEW r \in Readers,
           UNCHANGED <<rows, effectVars, claim, adminVars>>,
           pc'[r] \notin Owning,
           \A q \in Readers : q # r => pc'[q] = pc[q] /\ batch'[q] = batch[q] /\ draft'[q] = draft[q],
           pc'[r] = "record" /\ draft'[r].outcome = "MENSAJE_ANADIDO" => draft'[r].ticket # 0,
           Readers = {r} =>
             /\ pc'[r] \in {"screen", "judge", "record"} => Live(Mail[Cur(r)'].mid) = {}
             /\ pc'[r] = "judge" \/ (pc'[r] = "record" /\ draft'[r].outcome \in Claims)
                  => made[Mail[Cur(r)'].mid] = 0
    PROVE  OnceInv'
<1> USE DEF effectVars, adminVars, Owning
<1>1. EffectOnce' /\ SoleKey' /\ Remembered' /\ UntiedHasTicket'
  BY SameTables
<1>2. \A q \in Readers : q # r => Cur(q)' = Cur(q)
  BY DEF Cur
<1>3. Holding'
  BY <1>2 DEF OnceInv, Holding
<1>4. DraftShape' /\ WriteFresh' /\ Retrying'
  BY <1>2 DEF OnceInv, DraftShape, WriteFresh, Retrying
<1>5. Checked'
  BY <1>2 DEF OnceInv, Checked, Live
<1> QED BY <1>1, <1>3, <1>4, <1>5 DEF OnceInv

\* What a new row, of a free Message-ID, does to the table.
LEMMA AppendedRows ==
    ASSUME TypeOK, NEW new \in Row, rows' = Append(rows, new)
    PROVE  /\ Len(rows) \in Nat /\ DOMAIN rows = 1 .. Len(rows)
           /\ DOMAIN rows' = 1 .. (Len(rows) + 1)
           /\ \A i \in DOMAIN rows : rows'[i] = rows[i]
           /\ rows'[Len(rows) + 1] = new
           /\ \A mid \in Mids : Live(mid)' = Live(mid) \cup (IF new.mid = mid /\ ~new.requeued
                                                              THEN {Len(rows) + 1} ELSE {})
<1>1. rows \in Seq(Row) /\ rows' \in Seq(Row) /\ Len(rows') = Len(rows) + 1
      /\ (\A i \in 1 .. Len(rows) : rows'[i] = rows[i]) /\ rows'[Len(rows) + 1] = new
  BY AppendProperties DEF TypeOK
<1>2. Len(rows) \in Nat /\ DOMAIN rows = 1 .. Len(rows) /\ DOMAIN rows' = 1 .. (Len(rows) + 1)
  BY <1>1
<1> QED BY <1>1, <1>2 DEF Live

\* The steps of a reader that only look, decide, answer, mark or stop.
LEMMA ReaderMoves ==
    ASSUME OnceInv, TypeOK', NEW r \in Readers,
           \/ StartPass(r) \/ Look(r) \/ Screen(r) \/ Judge(r) \/ JudgeBlind(r)
           \/ Throw(r) \/ Reply(r) \/ Mark(r) \/ Crash(r)
    PROVE  OnceInv'
<1> USE DEF effectVars, readerVars, adminVars, worldVars, Goto, Owning
<1>1. TypeOK /\ Checked
  BY DEF OnceInv
<1>2. CASE StartPass(r) \/ Throw(r) \/ Reply(r) \/ Mark(r) \/ Crash(r)
  <2>1. pc'[r] \in {"idle", "look", "recordError", "mark"} /\ \A q \in Readers : q # r => pc'[q] = pc[q]
    BY <1>1, <1>2 DEF TypeOK, OnException, AfterMail, StartPass, Throw, Reply, Mark, Crash
  <2>2. \A q \in Readers : q # r => batch'[q] = batch[q] /\ draft'[q] = draft[q]
    BY <1>1, <1>2 DEF TypeOK, OnException, AfterMail, StartPass, Throw, Reply, Mark, Crash
  <2>3. UNCHANGED <<rows, effectVars, claim, adminVars>>
    BY <1>2 DEF StartPass, Throw, Reply, Mark, Crash
  <2> QED BY <2>1, <2>2, <2>3, MoveStep
<1>3. CASE Look(r)
  <2>1. Cur(r)' = Cur(r)
    BY <1>3 DEF Look, Cur
  <2>2. pc'[r] \in {"mark", "screen"} /\ (pc'[r] = "screen" => Live(Mail[Cur(r)].mid) = {})
    BY <1>1, <1>3 DEF TypeOK, Look
  <2>3. \A q \in Readers : q # r => pc'[q] = pc[q] /\ batch'[q] = batch[q] /\ draft'[q] = draft[q]
    BY <1>1, <1>3 DEF TypeOK, Look
  <2>4. UNCHANGED <<rows, effectVars, claim, adminVars>>
    BY <1>3 DEF Look
  <2> QED BY <2>1, <2>2, <2>3, <2>4, MoveStep
<1>4. CASE Screen(r)
  <2>1. Cur(r)' = Cur(r) /\ pc[r] = "screen" /\ Mail[Cur(r)].mid \in Mids
    BY <1>1, <1>4, CurFact DEF Screen, Cur
  <2>2. \A q \in Readers : q # r => pc'[q] = pc[q] /\ batch'[q] = batch[q] /\ draft'[q] = draft[q]
    BY <1>1, <1>4 DEF TypeOK, Screen, Decide
  <2>3. UNCHANGED <<rows, effectVars, claim, adminVars>>
    BY <1>4 DEF Screen
  <2>4. \/ pc'[r] = "record" /\ draft'[r].outcome \in {"DESCARTADO_DUPLICADO"} \cup Rejections
        \/ pc'[r] = "judge" /\ TicketsOf({Mail[Cur(r)].mid}) = {}
    <3>1. Verdict(r, Mail[Cur(r)]) \in Rejections \cup {"PASA"}
      BY <1>1, <2>1, CurFact DEF Verdict, Rejections
    <3>2. \A o \in {"DESCARTADO_DUPLICADO"} \cup Rejections :
            Decide(r, o, 0) => pc'[r] = "record" /\ draft'[r].outcome = o
      BY <1>1 DEF TypeOK, Decide
    <3>3. Goto(r, "judge") => pc'[r] = "judge"
      BY <1>1 DEF TypeOK
    <3> QED BY <1>4, <3>1, <3>2, <3>3 DEF Screen
  <2>5. Readers = {r} => Live(Mail[Cur(r)].mid) = {}
    BY <1>1, <2>1 DEF Checked
  <2>6. Readers = {r} /\ pc'[r] = "judge" => made[Mail[Cur(r)].mid] = 0
    <3>1. made[Mail[Cur(r)].mid] \in Nat
      BY <1>1, <2>1 DEF TypeOK
    <3> QED BY <2>1, <2>4, <2>5, <3>1 DEF OnceInv, Remembered
  <2>7. pc'[r] = "record" => draft'[r].outcome \notin Claims
    BY <2>4 DEF Rejections, Claims
  <2>8. "MENSAJE_ANADIDO" \in Claims
    BY DEF Claims
  <2> QED BY <2>1, <2>2, <2>3, <2>4, <2>5, <2>6, <2>7, <2>8, MoveStep
<1>5. CASE Judge(r)
  <2>1. Cur(r)' = Cur(r) /\ pc[r] = "judge"
    BY <1>5 DEF Judge, Cur
  <2>2. PICK mail \in {Mail[Cur(r)]} : JudgeClient(r, mail) \/ JudgeStaff(r, mail) \/ JudgeUnknown(r, mail)
    BY <1>5 DEF Judge
  <2>3. DOMAIN tickets \subseteq Nat \ {0}
    BY <1>1 DEF TypeOK
  <2>4. Thread(mail) \cup StaffTicket(mail) \subseteq Nat \ {0}
    BY <2>3 DEF Thread, StaffTicket, TicketsOf, ByCode
  <2>5. \E o \in Outcomes, t \in Nat : Decide(r, o, t) /\ (o = "MENSAJE_ANADIDO" => t # 0)
    BY <2>2, <2>4 DEF JudgeClient, JudgeStaff, JudgeUnknown, Outcomes, Claims
  <2>6. /\ pc'[r] = "record" /\ (draft'[r].outcome = "MENSAJE_ANADIDO" => draft'[r].ticket # 0)
        /\ \A q \in Readers : q # r => pc'[q] = pc[q] /\ batch'[q] = batch[q] /\ draft'[q] = draft[q]
    BY <1>1, <1>5, <2>5 DEF TypeOK, Decide, Judge
  <2>7. UNCHANGED <<rows, effectVars, claim, adminVars>>
    BY <1>5 DEF Judge
  <2>8. Readers = {r} => Live(Mail[Cur(r)].mid) = {} /\ made[Mail[Cur(r)].mid] = 0
    BY <1>1, <2>1 DEF Checked
  <2> QED BY <2>1, <2>6, <2>7, <2>8, MoveStep
<1>6. CASE JudgeBlind(r)
  <2>1. Cur(r)' = Cur(r) /\ pc[r] = "judge"
    BY <1>6 DEF JudgeBlind, Cur
  <2>2. /\ pc'[r] = "record" /\ draft'[r].outcome = "DESCARTADO_POR_TOPE"
        /\ \A q \in Readers : q # r => pc'[q] = pc[q] /\ batch'[q] = batch[q] /\ draft'[q] = draft[q]
    BY <1>1, <1>6 DEF TypeOK, Decide, JudgeBlind
  <2>3. UNCHANGED <<rows, effectVars, claim, adminVars>>
    BY <1>6 DEF JudgeBlind
  <2>4. Readers = {r} => Live(Mail[Cur(r)].mid) = {}
    BY <1>1, <2>1 DEF Checked
  <2> QED BY <2>1, <2>2, <2>3, <2>4, MoveStep DEF Claims
<1> QED BY <1>2, <1>3, <1>4, <1>5, <1>6

\* The steps of a retry: only Rename touches the table, and frees a row no reader holds.
LEMMA RetryStep ==
    ASSUME OnceInv, TypeOK', NEW a \in Admins, Setting, Retry(a)
    PROVE  OnceInv'
<1> USE DEF effectVars, readerVars, adminVars, worldVars
<1>1. TypeOK /\ Retrying
  BY DEF OnceInv
<1>2. CASE (\E i \in DOMAIN rows : StartRetry(a, i)) \/ Unmark(a) \/ RetryFails(a)
  <2>1. UNCHANGED <<rows, effectVars, readerVars>>
    BY <1>2 DEF StartRetry, Unmark, RetryFails
  <2>2. Retrying'
    <3>1. CASE \E i \in DOMAIN rows : StartRetry(a, i)
      <4>1. PICK i \in DOMAIN rows : StartRetry(a, i)
        BY <3>1
      <4>2. arow'[a] = i /\ \A b \in Admins : b # a => arow'[b] = arow[b] /\ apc'[b] = apc[b]
        BY <1>1, <4>1 DEF TypeOK, StartRetry
      <4> QED BY <1>1, <2>1, <4>1, <4>2 DEF Retrying, StartRetry, Requeueable
    <3>2. CASE Unmark(a) \/ RetryFails(a)
      <4>1. arow' = arow /\ apc[a] # "idle" /\ \A b \in Admins : b # a => apc'[b] = apc[b]
        BY <1>1, <3>2 DEF TypeOK, Unmark, RetryFails
      <4> QED BY <1>1, <2>1, <4>1 DEF Retrying
    <3> QED BY <1>2, <3>1, <3>2
  <2>3. EffectOnce' /\ SoleKey' /\ Remembered' /\ UntiedHasTicket'
    BY <2>1, SameTables
  <2>4. \A r \in Readers : Cur(r)' = Cur(r)
    BY <2>1 DEF Cur
  <2>5. Holding' /\ DraftShape' /\ WriteFresh'
    BY <2>1, <2>4 DEF OnceInv, Holding, DraftShape, WriteFresh
  <2>6. Checked'
    BY <2>1, <2>4 DEF OnceInv, Checked, Live
  <2> QED BY <2>2, <2>3, <2>5, <2>6 DEF OnceInv
<1>3. CASE Rename(a)
  <2> DEFINE k == arow[a]
  <2>1. k \in DOMAIN rows /\ rows[k].outcome = "ERROR" /\ rows[k].ticket = 0 /\ rows[k] \in Row
    BY <1>1, <1>3 DEF Retrying, Rename, TypeOK
  <2>2. /\ DOMAIN rows' = DOMAIN rows
        /\ \A i \in DOMAIN rows : i # k => rows'[i] = rows[i]
        /\ rows'[k] = [rows[k] EXCEPT !.requeued = TRUE]
    BY <1>1, <1>3, <2>1 DEF Rename, TypeOK
  <2>3. \A i \in DOMAIN rows : /\ rows'[i].mid = rows[i].mid /\ rows'[i].outcome = rows[i].outcome
                               /\ rows'[i].ticket = rows[i].ticket
                               /\ (i # k => rows'[i].requeued = rows[i].requeued)
                               /\ rows'[k].requeued
    BY <2>1, <2>2 DEF Row
  <2>4. UNCHANGED <<effectVars, readerVars, arow>> /\ \A b \in Admins : apc'[b] # "idle" => apc[b] # "idle"
    BY <1>1, <1>3 DEF Rename, TypeOK
  <2>5. \A r \in Readers : Cur(r)' = Cur(r)
    BY <2>4 DEF Cur
  <2>6. \A mid \in Mids : Live(mid)' \subseteq Live(mid) /\ Live(mid) \ {k} \subseteq Live(mid)'
                          /\ (mid # rows[k].mid => Live(mid)' = Live(mid))
                          /\ TicketsOf({mid})' = TicketsOf({mid})
    BY <2>1, <2>2, <2>3, <2>4 DEF Live, TicketsOf
  <2>7. EffectOnce' /\ SoleKey' /\ DraftShape' /\ WriteFresh'
    BY <2>2, <2>3, <2>4, <2>5 DEF OnceInv, EffectOnce, SoleKey, DraftShape, WriteFresh
  <2>8. Holding'
    <3>1. "ERROR" \notin Claims
      BY DEF Claims
    <3>2. \A r \in Readers : pc[r] \in Owning => claim[r] # k
      BY <2>1, <3>1 DEF OnceInv, Holding
    <3> QED BY <2>2, <2>3, <2>4, <2>5, <3>2 DEF OnceInv, Holding
  <2>9. Remembered'
    <3>1. SUFFICES ASSUME NEW mid \in Mids, made[mid] > 0
                   PROVE  Live(mid)' # {} \/ (Admins # {} /\ TicketsOf({mid})' # {})
      BY <2>4 DEF Remembered
    <3>2. CASE mid = rows[k].mid /\ Live(mid) # {} /\ ~rows[k].requeued
      BY <2>1, <2>6, <3>1, <3>2 DEF OnceInv, UntiedHasTicket
    <3>3. CASE Live(mid) # {} /\ rows[k].requeued
      <4>1. k \notin Live(mid)
        BY <3>3 DEF Live
      <4> QED BY <2>6, <3>3, <4>1
    <3>4. CASE Live(mid) = {} \/ mid # rows[k].mid
      BY <2>6, <3>1, <3>4 DEF OnceInv, Remembered
    <3> QED BY <3>2, <3>3, <3>4
  <2>10. UntiedHasTicket'
    <3>1. SUFFICES ASSUME NEW i \in DOMAIN rows, ~rows'[i].requeued, rows'[i].ticket = 0,
                          made[rows'[i].mid] > 0
                   PROVE  TicketsOf({rows[i].mid})' # {}
      BY <2>2, <2>4 DEF UntiedHasTicket
    <3>2. i # k /\ rows[i].mid \in Mids /\ rows'[i] = rows[i]
      <4>1. i # k
        BY <2>1, <2>3, <3>1
      <4>2. rows[i] \in Row
        BY <1>1 DEF TypeOK
      <4> QED BY <2>2, <4>1, <4>2 DEF Row
    <3>3. TicketsOf({rows[i].mid}) # {}
      BY <3>1, <3>2 DEF OnceInv, UntiedHasTicket
    <3> QED BY <2>6, <3>2, <3>3
  <2>11. Retrying'
    BY <2>2, <2>3, <2>4 DEF OnceInv, Retrying
  <2>12. Checked'
    <3>1. \A r \in Readers : pc[r] # "idle" => Mail[Cur(r)].mid \in Mids
      BY <1>1, CurFact
    <3> QED BY <2>4, <2>5, <2>6, <3>1 DEF OnceInv, Checked
  <2> QED BY <2>7, <2>8, <2>9, <2>10, <2>11, <2>12 DEF OnceInv
<1> QED BY <1>2, <1>3 DEF Retry

\* A reader inserts a row for a Message-ID that no row holds.
LEMMA AppendStep ==
    ASSUME OnceInv, TypeOK', Setting, NEW r \in Readers, NEW new \in Row, pc[r] \in {"record", "recordError"},
           rows' = Append(rows, new), new.mid = Mail[Cur(r)].mid, ~new.requeued,
           Live(Mail[Cur(r)].mid) = {},
           UNCHANGED <<effectVars, batch, draft, adminVars>>,
           \A q \in Readers : q # r => pc'[q] = pc[q] /\ claim'[q] = claim[q],
           pc'[r] \in {"write", "reply", "mark", "recordError"},
           pc'[r] = "write" => /\ pc[r] = "record" /\ claim'[r] = Len(rows) + 1
                               /\ draft[r].outcome \in Claims
                               /\ new.outcome = draft[r].outcome /\ new.ticket = draft[r].ticket
    PROVE  OnceInv'
<1> USE DEF effectVars, adminVars, Owning
<1> DEFINE mid == Mail[Cur(r)].mid
           k == Len(rows) + 1
<1>1. TypeOK /\ mid \in Mids
  BY CurFact DEF OnceInv
<1>2. /\ Len(rows) \in Nat /\ DOMAIN rows = 1 .. Len(rows) /\ DOMAIN rows' = 1 .. k
      /\ \A i \in DOMAIN rows : rows'[i] = rows[i]
      /\ rows'[k] = new
  BY <1>1, AppendedRows
<1>3. /\ \A m \in Mids : Live(m) \subseteq Live(m)' /\ TicketsOf({m})' = TicketsOf({m})
      /\ \A m \in Mids : m # mid => Live(m)' = Live(m)
  <2>1. \A m \in Mids : Live(m)' = Live(m) \cup (IF new.mid = m /\ ~new.requeued THEN {k} ELSE {})
    BY <1>1, AppendedRows
  <2>2. \A m \in Mids : TicketsOf({m})' = TicketsOf({m})
    BY DEF TicketsOf
  <2> HIDE DEF mid, k
  <2>3. new.mid = mid
    BY DEF mid
  <2> QED BY <2>1, <2>2, <2>3
<1>4. \A q \in Readers : Cur(q)' = Cur(q)
  BY DEF Cur
<1>5. EffectOnce' /\ DraftShape' /\ Retrying' /\ Remembered'
  <2>1. EffectOnce'
    BY DEF OnceInv, EffectOnce
  <2>2. DraftShape'
    BY DEF OnceInv, DraftShape
  <2>3. Retrying'
    BY <1>2 DEF OnceInv, Retrying
  <2>4. Remembered'
    BY <1>3 DEF OnceInv, Remembered
  <2> QED BY <2>1, <2>2, <2>3, <2>4
<1>6. SoleKey'
  <2>1. \A i \in DOMAIN rows : rows[i].mid = mid => rows[i].requeued
    BY <1>1 DEF Live
  <2> QED BY <1>2, <2>1 DEF OnceInv, SoleKey
<1>7. pc'[r] = "write" => made[mid] = 0
  <2>1. SUFFICES ASSUME pc'[r] = "write" PROVE made[mid] = 0
    OBVIOUS
  <2>2. made[mid] \in Nat
    BY <1>1 DEF TypeOK
  <2>3. CASE Admins = {}
    BY <1>1, <2>2, <2>3 DEF OnceInv, Remembered
  <2>4. CASE \E q \in Readers : Readers = {q}
    BY <2>1, <2>4 DEF OnceInv, Checked
  <2> QED BY <2>3, <2>4 DEF Setting
<1>8. WriteFresh'
  BY <1>4, <1>7 DEF OnceInv, WriteFresh
<1>9. UntiedHasTicket'
  <2>1. SUFFICES ASSUME NEW i \in DOMAIN rows', ~rows'[i].requeued, rows'[i].ticket = 0,
                        made[rows'[i].mid] > 0
                 PROVE  TicketsOf({rows'[i].mid}) # {}
    BY DEF UntiedHasTicket, TicketsOf
  <2>2. CASE i = k
    BY <1>1, <1>2, <2>1, <2>2 DEF OnceInv, Remembered
  <2>3. CASE i \in DOMAIN rows
    BY <1>2, <2>1, <2>3 DEF OnceInv, UntiedHasTicket
  <2>4. i = k \/ i \in DOMAIN rows
    BY <1>2, <2>1
  <2> QED BY <2>2, <2>3, <2>4
<1>10. Checked'
  BY <1>4 DEF OnceInv, Checked
<1>11. Holding'
  <2>1. \A q \in Readers : q # r /\ pc[q] \in Owning => claim[q] \in DOMAIN rows /\ claim[q] # k
    BY <1>2 DEF OnceInv, Holding
  <2>2. pc'[r] = "write" => (draft[r].outcome = "MENSAJE_ANADIDO" => draft[r].ticket # 0)
    BY DEF OnceInv, DraftShape
  <2>3. ASSUME pc'[r] = "write"
        PROVE  /\ claim'[r] \in DOMAIN rows' /\ rows'[claim'[r]].mid = mid /\ ~rows'[claim'[r]].requeued
               /\ draft[r].outcome \in Claims /\ rows'[claim'[r]].outcome = draft[r].outcome
               /\ draft[r].outcome = "MENSAJE_ANADIDO" => rows'[claim'[r]].ticket # 0
               /\ \A q \in Readers : q # r /\ pc'[q] \in Owning => claim'[q] # claim'[r]
    BY <1>2, <2>1, <2>2, <2>3
  <2>4. ASSUME NEW q \in Readers, q # r, pc'[q] \in Owning
        PROVE  /\ claim'[q] \in DOMAIN rows' /\ rows'[claim'[q]] = rows[claim[q]]
               /\ pc'[r] = "write" => claim'[q] # claim'[r]
    BY <1>2, <2>1, <2>4
  <2> QED BY <1>4, <2>3, <2>4 DEF OnceInv, Holding
<1> QED BY <1>5, <1>6, <1>8, <1>9, <1>10, <1>11 DEF OnceInv

LEMMA InsertSteps ==
    ASSUME OnceInv, TypeOK', Setting, NEW r \in Readers,
           Record(r) \/ RecordUnconfirmed(r) \/ RecordError(r)
    PROVE  OnceInv'
<1> USE DEF effectVars, readerVars, adminVars, worldVars, Goto
<1> DEFINE mail == Mail[Cur(r)]
<1>1. TypeOK /\ pc[r] \in {"record", "recordError"} /\ draft[r] \in [outcome: Outcomes, ticket: Nat]
  BY DEF OnceInv, TypeOK, OnException, Record, RecordUnconfirmed, RecordError
<1>2. \A d \in [outcome: Outcomes, ticket: Nat] :
        /\ NewRow(mail, d) \in Row /\ NewRow(mail, d).mid = mail.mid /\ ~NewRow(mail, d).requeued
        /\ NewRow(mail, d).outcome = d.outcome /\ NewRow(mail, d).ticket = d.ticket
  BY <1>1, NewRowFact DEF NewRow
<1>3. NoDraft \in [outcome: Outcomes, ticket: Nat]
  BY DEF NoDraft, Outcomes
<1>4. /\ UNCHANGED <<effectVars, batch, draft, adminVars>>
      /\ \A q \in Readers : q # r => pc'[q] = pc[q] /\ claim'[q] = claim[q]
  BY <1>1 DEF TypeOK, KeyFree, OnException, Record, RecordUnconfirmed, RecordError
<1>5. CASE Record(r)
  <2>1. CASE rows' = Append(rows, NewRow(mail, draft[r])) /\ Live(mail.mid) = {}
    <3>1. CASE rows' # rows \/ pc'[r] = After(draft[r].outcome)
      <4>1. pc[r] = "record" /\ pc'[r] \in {After(draft[r].outcome), "mark", "recordError"}
        BY <1>1, <1>5 DEF TypeOK, KeyFree, KeyTaken, OnException, Record
      <4>2. After(draft[r].outcome) \in {"write", "reply", "mark"}
            /\ (After(draft[r].outcome) = "write" => draft[r].outcome \in Claims)
        BY DEF After
      <4>3. claim'[r] = Len(rows) + 1
        BY <1>1, <1>5, <2>1 DEF TypeOK, KeyFree, Record
      <4> QED BY <1>1, <1>2, <1>4, <2>1, <4>1, <4>2, <4>3, AppendStep
    <3>2. rows' # rows
      BY <1>1, <1>2, <2>1, AppendProperties DEF TypeOK
    <3> QED BY <3>1, <3>2
  <2>2. CASE UNCHANGED <<rows, claim>> /\ pc'[r] \in {"mark", "recordError"}
    BY <1>4, <2>2, MoveStep DEF Owning
  <2>3. KeyTaken(draft[r].outcome) \in {"mark", "recordError"}
    BY DEF KeyTaken, OnException
  <2> QED BY <1>1, <1>5, <2>1, <2>2, <2>3 DEF TypeOK, KeyFree, Record
<1>6. CASE RecordUnconfirmed(r)
  <2>1. rows' = Append(rows, NewRow(mail, draft[r])) /\ Live(mail.mid) = {} /\ pc'[r] = "recordError"
    BY <1>1, <1>6 DEF TypeOK, KeyFree, OnException, RecordUnconfirmed
  <2> QED BY <1>1, <1>2, <1>4, <2>1, AppendStep
<1>7. CASE RecordError(r)
  <2>1. pc'[r] = "mark" /\ claim' = claim
    BY <1>1, <1>7 DEF TypeOK, KeyFree, RecordError
  <2>2. \/ rows' = rows
        \/ rows' = Append(rows, NewRow(mail, NoDraft)) /\ Live(mail.mid) = {}
    BY <1>7 DEF KeyFree, RecordError
  <2>3. CASE rows' = rows
    BY <1>4, <2>1, <2>3, MoveStep DEF Owning
  <2>4. CASE rows' = Append(rows, NewRow(mail, NoDraft)) /\ Live(mail.mid) = {}
    BY <1>1, <1>2, <1>3, <1>4, <2>1, <2>4, AppendStep
  <2> QED BY <2>2, <2>3, <2>4
<1> QED BY <1>5, <1>6, <1>7

\* Time passes: only ages change.
LEMMA TimeStep ==
    ASSUME OnceInv, TypeOK', NEW from, NEW to, TimePasses(from, to)
    PROVE  OnceInv'
<1> USE DEF readerVars, adminVars, Owning
<1>1. /\ \A r \in Readers : pc[r] = "idle" /\ pc'[r] = "idle"
      /\ UNCHANGED <<tickets, made, adminVars, readerVars>>
  BY DEF TimePasses
<1>2. rows' = Older(rows, from, to) /\ \A i \in DOMAIN rows : rows[i] \in Row
  BY DEF TimePasses, OnceInv, TypeOK
<1>3. DOMAIN rows' = DOMAIN rows
      /\ \A i \in DOMAIN rows : /\ rows'[i].mid = rows[i].mid /\ rows'[i].requeued = rows[i].requeued
                                /\ rows'[i].outcome = rows[i].outcome /\ rows'[i].ticket = rows[i].ticket
  BY <1>2 DEF Older, Row
<1>4. \A mid : Live(mid)' = Live(mid) /\ TicketsOf({mid})' = TicketsOf({mid})
  BY <1>1, <1>3 DEF Live, TicketsOf
<1>5. EffectOnce' /\ SoleKey' /\ Remembered' /\ Retrying'
  <2>1. EffectOnce' /\ SoleKey'
    BY <1>1, <1>3 DEF OnceInv, EffectOnce, SoleKey
  <2>2. Remembered'
    BY <1>1, <1>4 DEF OnceInv, Remembered
  <2>3. Retrying'
    BY <1>1, <1>3 DEF OnceInv, Retrying
  <2> QED BY <2>1, <2>2, <2>3
<1>6. UntiedHasTicket'
  BY <1>1, <1>3 DEF OnceInv, UntiedHasTicket, TicketsOf
<1>7. Holding' /\ DraftShape' /\ WriteFresh' /\ Checked'
  BY <1>1 DEF Holding, DraftShape, WriteFresh, Checked
<1> QED BY <1>5, <1>6, <1>7 DEF OnceInv

\* What a write changes: one more thing written for the Message-ID at hand, and a ticket when it opens one.
LEMMA EffectFact ==
    ASSUME OnceInv, NEW r \in Readers, pc[r] = "write", Effect(r)
    PROVE  /\ Mail[Cur(r)].mid \in Mids /\ made[Mail[Cur(r)].mid] = 0
           /\ made' = [made EXCEPT ![Mail[Cur(r)].mid] = 1]
           /\ \A ids \in SUBSET Mids : TicketsOf(ids) \subseteq TicketsOf(ids)'
           /\ draft[r].outcome = "TICKET_CREADO"
                => \A m \in Mids : m = Mail[Cur(r)].mid => TicketsOf({m})' # {}
<1> DEFINE mid == Mail[Cur(r)].mid
           new == NewTicket(Mail[Cur(r)])
<1>1. TypeOK /\ mid \in Mids /\ Mail[Cur(r)].address \in Addresses /\ made[mid] = 0
  BY CurFact DEF OnceInv, WriteFresh
<1>2. made' = [made EXCEPT ![mid] = 1]
  BY <1>1 DEF Effect
<1>3. tickets \in Seq(Ticket) /\ new \in Ticket
  BY <1>1, MailAssumption DEF TypeOK, Ticket, NewTicket
<1>4. tickets' = tickets \/ tickets' = Append(tickets, new)
  BY DEF Effect
<1>5. \A i \in DOMAIN tickets : i \in DOMAIN tickets' /\ tickets'[i] = tickets[i]
  <2>1. DOMAIN tickets = 1 .. Len(tickets) /\ Len(tickets) \in Nat
    BY <1>3
  <2>2. CASE tickets' = Append(tickets, new)
    <3>1. /\ tickets' \in Seq(Ticket) /\ Len(tickets') = Len(tickets) + 1
          /\ \A i \in 1 .. Len(tickets) : tickets'[i] = tickets[i]
      BY <1>3, <2>2, AppendProperties
    <3> QED BY <2>1, <3>1
  <2> QED BY <1>4, <2>2
<1>6. \A ids \in SUBSET Mids : TicketsOf(ids) \subseteq TicketsOf(ids)'
  BY <1>5 DEF TicketsOf
<1>7. ASSUME draft[r].outcome = "TICKET_CREADO", NEW m \in Mids, m = mid PROVE TicketsOf({m})' # {}
  <2>1. tickets' = Append(tickets, new)
    BY <1>7 DEF Effect
  <2>2. tickets' \in Seq(Ticket) /\ Len(tickets') = Len(tickets) + 1 /\ tickets'[Len(tickets) + 1] = new
    BY <1>3, <2>1, AppendProperties
  <2>3. Len(tickets) + 1 \in DOMAIN tickets' /\ new.ids \cap {m} # {}
    BY <1>3, <1>7, <2>2 DEF NewTicket
  <2>4. tickets'[Len(tickets) + 1].ids \cap {m} # {}
    BY <2>2, <2>3
  <2>5. Len(tickets) + 1 \in TicketsOf({m})'
    BY <2>3, <2>4 DEF TicketsOf
  <2> QED BY <2>5
<1> QED BY <1>1, <1>2, <1>6, <1>7

LEMMA WriteSteps ==
    ASSUME OnceInv, TypeOK', NEW r \in Readers, Write(r) \/ WriteFails(r)
    PROVE  OnceInv'
<1> USE DEF readerVars, adminVars, worldVars, Goto
<1> DEFINE mid == Mail[Cur(r)].mid
<1>1. TypeOK /\ pc[r] = "write"
  BY DEF OnceInv, Write, WriteFails
<1>2. /\ claim[r] \in DOMAIN rows /\ rows[claim[r]].mid = mid /\ ~rows[claim[r]].requeued
      /\ draft[r].outcome \in Claims /\ rows[claim[r]].outcome = draft[r].outcome
      /\ draft[r].outcome = "MENSAJE_ANADIDO" => rows[claim[r]].ticket # 0
      /\ \A q \in Readers : q # r /\ pc[q] \in Owning => claim[q] # claim[r]
  BY <1>1 DEF OnceInv, Holding, Owning
<1>3. UNCHANGED <<rows, batch, claim, adminVars>> /\ \A q \in Readers : Cur(q)' = Cur(q)
  BY DEF Write, WriteFails, Cur
<1>4. /\ pc'[r] \in {"link", "mark", "fail"} /\ (pc'[r] = "link" => draft[r].outcome = "TICKET_CREADO")
      /\ draft'[r].outcome = draft[r].outcome
      /\ \A q \in Readers : q # r => pc'[q] = pc[q] /\ draft'[q] = draft[q]
  BY <1>1 DEF TypeOK, Write, WriteFails
<1>5. Effect(r) \/ UNCHANGED <<tickets, made>>
  BY DEF Write, WriteFails, effectVars
<1>6. mid \in Mids /\ made[mid] = 0
  BY <1>1, CurFact DEF OnceInv, WriteFresh
<1>7. /\ \A m \in Mids : m # mid => made'[m] = made[m]
      /\ made'[mid] \in {0, 1}
      /\ \A m \in Mids : TicketsOf({m}) \subseteq TicketsOf({m})'
      /\ made'[mid] = 1 /\ draft[r].outcome = "TICKET_CREADO"
           => \A m \in Mids : m = mid => TicketsOf({m})' # {}
  <2>1. CASE Effect(r)
    BY <1>1, <1>6, <2>1, EffectFact DEF TypeOK
  <2>2. CASE UNCHANGED <<tickets, made>>
    BY <1>6, <2>2 DEF TicketsOf
  <2> QED BY <1>5, <2>1, <2>2
<1>8. Live(mid) # {} /\ \A m \in Mids : Live(m)' = Live(m)
  BY <1>2, <1>3 DEF Live
<1>9. EffectOnce' /\ SoleKey' /\ Retrying'
  <2>1. EffectOnce'
    BY <1>7 DEF OnceInv, EffectOnce
  <2>2. SoleKey' /\ Retrying'
    BY <1>3 DEF OnceInv, SoleKey, Retrying
  <2> QED BY <2>1, <2>2
<1>10. Remembered'
  <2>1. ASSUME NEW m \in Mids, made'[m] > 0 PROVE Live(m)' # {} \/ (Admins # {} /\ TicketsOf({m})' # {})
    <3>1. CASE m = mid
      BY <1>8, <3>1
    <3>2. CASE m # mid
      BY <1>7, <1>8, <2>1, <3>2 DEF OnceInv, Remembered
    <3> QED BY <3>1, <3>2
  <2> QED BY <2>1 DEF Remembered
<1>11. UntiedHasTicket'
  <2>1. \A i \in DOMAIN rows : rows[i].mid \in Mids
    <3>1. \A i \in DOMAIN rows : rows[i] \in Row
      BY <1>1 DEF TypeOK
    <3> QED BY <3>1 DEF Row
  <2>2. ASSUME NEW i \in DOMAIN rows, ~rows[i].requeued, rows[i].ticket = 0, NEW m \in Mids,
               m = rows[i].mid, made'[m] > 0
        PROVE  TicketsOf({m})' # {}
    <3>1. CASE m = mid
      <4>1. i = claim[r]
        BY <1>2, <2>2, <3>1 DEF OnceInv, SoleKey
      <4>2. draft[r].outcome = "TICKET_CREADO"
        BY <1>2, <2>2, <4>1 DEF Claims
      <4> QED BY <1>7, <2>2, <3>1, <4>2
    <3>2. CASE m # mid
      <4>1. made[m] > 0 /\ TicketsOf({m}) \subseteq TicketsOf({m})'
        BY <1>7, <2>2, <3>2
      <4>2. TicketsOf({m}) # {}
        BY <2>2, <4>1 DEF OnceInv, UntiedHasTicket
      <4> QED BY <4>1, <4>2
    <3> QED BY <3>1, <3>2
  <2> QED BY <1>3, <2>1, <2>2 DEF UntiedHasTicket
<1>12. Holding'
  <2>1. ASSUME NEW q \in Readers, pc'[q] \in Owning PROVE pc[q] \in Owning
    BY <1>1, <1>4, <2>1 DEF Owning
  <2>2. ASSUME NEW q \in Readers PROVE draft'[q].outcome = draft[q].outcome
    BY <1>4
  <2>3. ASSUME NEW q \in Readers, pc'[q] = "link" PROVE draft[q].outcome = "TICKET_CREADO"
    BY <1>4, <2>3 DEF OnceInv, Holding, Owning
  <2> QED BY <1>3, <2>1, <2>2, <2>3 DEF OnceInv, Holding
<1>13. DraftShape'
  <2>1. ASSUME pc'[r] = "link" PROVE draft'[r].ticket # 0
    <3>1. draft' = [draft EXCEPT ![r].ticket = Len(tickets) + 1]
      BY <1>1, <2>1 DEF TypeOK, Write, WriteFails
    <3>2. Len(tickets) \in Nat /\ draft[r] \in [outcome: Outcomes, ticket: Nat]
          /\ draft \in [Readers -> [outcome: Outcomes, ticket: Nat]]
      BY <1>1 DEF TypeOK
    <3>3. draft'[r].ticket = Len(tickets) + 1
      BY <3>1, <3>2
    <3> QED BY <3>2, <3>3
  <2> QED BY <1>4, <2>1 DEF OnceInv, DraftShape
<1>14. WriteFresh'
  <2>1. ASSUME NEW q \in Readers, pc'[q] = "write" PROVE made'[Mail[Cur(q)].mid] = 0
    <3>1. q # r /\ pc[q] = "write"
      BY <1>4, <2>1
    <3>2. Mail[Cur(q)].mid # mid
      BY <1>2, <3>1 DEF OnceInv, Holding, SoleKey, Owning
    <3>3. Mail[Cur(q)].mid \in Mids
      BY <1>1, <3>1, CurFact
    <3> QED BY <1>7, <3>1, <3>2, <3>3 DEF OnceInv, WriteFresh
  <2> QED BY <1>3, <2>1 DEF WriteFresh
<1>15. Checked'
  BY <1>3, <1>4 DEF OnceInv, Checked
<1> QED BY <1>9, <1>10, <1>11, <1>12, <1>13, <1>14, <1>15 DEF OnceInv

\* Completing the claimed row, or turning it into an ERROR, changes no Message-ID.
LEMMA ClaimedRowSteps ==
    ASSUME OnceInv, TypeOK', NEW r \in Readers, Link(r) \/ LinkFails(r) \/ FailRow(r)
    PROVE  OnceInv'
<1> USE DEF readerVars, adminVars, worldVars, effectVars, Goto
<1> DEFINE k == claim[r]
<1>1. TypeOK /\ pc[r] \in {"link", "fail"}
  BY DEF OnceInv, Link, LinkFails, FailRow
<1>2. /\ k \in DOMAIN rows /\ rows[k].mid = Mail[Cur(r)].mid /\ ~rows[k].requeued
      /\ draft[r].outcome \in Claims /\ rows[k].outcome = draft[r].outcome
      /\ draft[r].outcome = "MENSAJE_ANADIDO" => rows[k].ticket # 0
      /\ pc[r] = "link" => draft[r].outcome = "TICKET_CREADO"
      /\ \A q \in Readers : q # r /\ pc[q] \in Owning => claim[q] # k
      /\ rows[k] \in Row
  BY <1>1 DEF OnceInv, Holding, Owning, TypeOK
<1>3. /\ UNCHANGED <<effectVars, batch, draft, claim, adminVars>> /\ \A q \in Readers : Cur(q)' = Cur(q)
      /\ pc'[r] \in {"mark", "fail"} /\ \A q \in Readers : q # r => pc'[q] = pc[q]
  BY <1>1 DEF Link, LinkFails, FailRow, Cur, TypeOK
<1>4. \/ rows' = rows
      \/ pc[r] = "link" /\ rows' = [rows EXCEPT ![k] = [rows[k] EXCEPT !.ticket = draft[r].ticket]]
      \/ pc'[r] = "mark" /\ rows' = [rows EXCEPT ![k] = [rows[k] EXCEPT !.outcome = "ERROR"]]
  BY <1>1 DEF Link, LinkFails, FailRow, TypeOK
<1>5. DOMAIN rows' = DOMAIN rows /\ \A i \in DOMAIN rows : i # k => rows'[i] = rows[i]
  BY <1>4
<1>6. /\ rows'[k].mid = rows[k].mid /\ ~rows'[k].requeued
      /\ rows'[k].ticket = 0 => rows[k].ticket = 0 \/ pc[r] = "link"
      /\ rows'[k].outcome = rows[k].outcome \/ pc'[r] = "mark"
      /\ draft[r].outcome = "MENSAJE_ANADIDO" => rows'[k].ticket # 0
  BY <1>2, <1>4 DEF Row
<1>7. \A i \in DOMAIN rows : rows'[i].mid = rows[i].mid /\ rows'[i].requeued = rows[i].requeued
  <2>1. rows'[k].mid = rows[k].mid /\ rows'[k].requeued = rows[k].requeued
    BY <1>2, <1>4 DEF Row
  <2> QED BY <1>5, <2>1
<1>8. \A m \in Mids : Live(m)' = Live(m) /\ TicketsOf({m})' = TicketsOf({m})
  BY <1>3, <1>5, <1>7 DEF Live, TicketsOf
<1>9. EffectOnce' /\ SoleKey' /\ Remembered'
  <2>1. EffectOnce' /\ SoleKey'
    BY <1>3, <1>5, <1>7 DEF OnceInv, EffectOnce, SoleKey
  <2>2. Remembered'
    BY <1>3, <1>8 DEF OnceInv, Remembered
  <2> QED BY <2>1, <2>2
<1>10. Retrying'
  <2>1. "ERROR" \notin Claims
    BY DEF Claims
  <2>2. \A a \in Admins : apc[a] # "idle" => arow[a] # k
    BY <1>2, <2>1 DEF OnceInv, Retrying
  <2> QED BY <1>3, <1>5, <2>2 DEF OnceInv, Retrying
<1>11. UntiedHasTicket'
  <2>2. ASSUME NEW i \in DOMAIN rows, ~rows'[i].requeued, rows'[i].ticket = 0, NEW m \in Mids,
               m = rows[i].mid, made[m] > 0
        PROVE  TicketsOf({m}) # {}
    <3>1. rows[i].ticket = 0
      <4>1. CASE i # k
        BY <1>5, <2>2, <4>1
      <4>2. CASE i = k /\ rows[k].ticket # 0
        <5>1. pc[r] = "link" /\ rows' = [rows EXCEPT ![k] = [rows[k] EXCEPT !.ticket = draft[r].ticket]]
          BY <1>2, <1>4, <2>2, <4>2 DEF Row
        <5>2. rows'[k].ticket = draft[r].ticket
          BY <1>2, <5>1 DEF Row
        <5> QED BY <2>2, <4>2, <5>1, <5>2 DEF OnceInv, DraftShape
      <4> QED BY <4>1, <4>2
    <3> QED BY <1>7, <2>2, <3>1 DEF OnceInv, UntiedHasTicket
  <2>3. \A i \in DOMAIN rows : rows[i].mid \in Mids
    <3>1. \A i \in DOMAIN rows : rows[i] \in Row
      BY <1>1 DEF TypeOK
    <3> QED BY <3>1 DEF Row
  <2>4. \A m \in Mids : TicketsOf({m})' = TicketsOf({m})
    BY <1>8
  <2> QED BY <1>3, <1>5, <1>7, <2>2, <2>3, <2>4 DEF UntiedHasTicket
<1>12. Holding'
  BY <1>2, <1>3, <1>5, <1>6 DEF OnceInv, Holding, Owning
<1>13. DraftShape' /\ WriteFresh'
  BY <1>3 DEF OnceInv, DraftShape, WriteFresh
<1>14. Checked'
  <2>1. \A q \in Readers : pc[q] # "idle" => Mail[Cur(q)].mid \in Mids
    BY <1>1, CurFact
  <2> QED BY <1>3, <1>8, <2>1 DEF OnceInv, Checked
<1> QED BY <1>9, <1>10, <1>11, <1>12, <1>13, <1>14 DEF OnceInv

LEMMA OnceStep == Setting /\ OnceInv /\ TypeOK' /\ [Next]_vars => OnceInv'
<1> SUFFICES ASSUME Setting, OnceInv, TypeOK', [Next]_vars PROVE OnceInv'
  OBVIOUS
<1>1. ASSUME (\E m \in Mails : Arrive(m)) \/ Switch \/ UNCHANGED vars PROVE OnceInv'
  BY <1>1, OutsideStep DEF Arrive, Switch, vars, effectVars, readerVars, adminVars
<1>2. ASSUME HourPasses \/ WeekPasses PROVE OnceInv'
  BY <1>2, TimeStep DEF HourPasses, WeekPasses
<1>3. ASSUME NEW r \in Readers, StartPass(r) \/ Advance(r) \/ Break(r) PROVE OnceInv'
  BY <1>3, ReaderMoves, InsertSteps, WriteSteps, ClaimedRowSteps DEF Advance, Break
<1>4. ASSUME NEW a \in Admins, Retry(a) PROVE OnceInv'
  BY <1>4, RetryStep
<1> QED BY <1>1, <1>2, <1>3, <1>4 DEF Next

LEMMA OnceInvInit == Init => OnceInv
<1> SUFFICES ASSUME Init PROVE OnceInv
  OBVIOUS
<1>1. TypeOK
  BY InboundInit
<1>2. rows = <<>> /\ DOMAIN rows = {} /\ \A mid \in Mids : made[mid] = 0
  BY DEF Init
<1>3. /\ \A r \in Readers : pc[r] = "idle"
      /\ \A a \in Admins : apc[a] = "idle"
  BY DEF Init
<1>4. EffectOnce /\ SoleKey /\ Remembered /\ UntiedHasTicket
  BY <1>2 DEF EffectOnce, SoleKey, Remembered, UntiedHasTicket
<1>5. Holding /\ DraftShape /\ WriteFresh /\ Retrying /\ Checked
  BY <1>3 DEF Holding, DraftShape, WriteFresh, Retrying, Checked, Owning
<1> QED BY <1>1, <1>4, <1>5 DEF OnceInv

LEMMA OnceAlways == ASSUME Setting PROVE Spec => []OnceInv
<1>1. OnceInv /\ TypeOK' /\ [Next]_vars => OnceInv'
  BY OnceStep
<1> QED BY <1>1, OnceInvInit, InboundTypes, PTL DEF Spec

\* Whatever fails and whenever a reader restarts, a Message-ID opens one ticket or adds one
\* message: processOne's claim by the unique key, and what a retry leaves behind.
THEOREM MailOnce == Setting /\ Spec => []EffectOnce
<1> SUFFICES ASSUME Setting PROVE Spec => []EffectOnce
  OBVIOUS
<1>1. OnceInv => EffectOnce
  BY DEF OnceInv
<1> QED BY <1>1, OnceAlways, PTL

\* A row that an administrator may put back has nothing written, or a ticket that the next
\* reading of the mail runs into: retry's "siempre seguro de reencolar".
THEOREM ErrorIsSafe == Setting /\ Spec => []ErrorIsSafeToRequeue
<1> SUFFICES ASSUME Setting PROVE Spec => []ErrorIsSafeToRequeue
  OBVIOUS
<1>1. OnceInv => ErrorIsSafeToRequeue
  BY DEF OnceInv, UntiedHasTicket, ErrorIsSafeToRequeue
<1> QED BY <1>1, OnceAlways, PTL
-----------------------------------------------------------------------------
(* The refinement: claims, writings and releases of a Message-ID.             *)

\* A new row of a free Message-ID claims it.
LEMMA ClaimMaps ==
    ASSUME TypeOK, NEW new \in Row, ~new.requeued, Live(new.mid) = {},
           rows' = Append(rows, new), made' = made
    PROVE  Once!OnceNext
<1>1. new.mid \in Mids
  BY DEF Row
<1>2. \A mid \in Mids : Live(mid)' = Live(mid) \cup (IF new.mid = mid THEN {Len(rows) + 1} ELSE {})
  BY AppendedRows
<1>3. Once!Claim(new.mid)
  BY <1>1, <1>2 DEF Once!Claim
<1> QED BY <1>1, <1>3 DEF Once!OnceNext

\* What leaves the keys of the rows and the writings alone is a stutter.
LEMMA SameMaps ==
    ASSUME made' = made, DOMAIN rows' = DOMAIN rows,
           \A i \in DOMAIN rows : rows'[i].mid = rows[i].mid /\ rows'[i].requeued = rows[i].requeued
    PROVE  UNCHANGED Once!onceVars
<1>1. \A mid \in Mids : Live(mid)' = Live(mid)
  BY DEF Live
<1> QED BY <1>1 DEF Once!onceVars

LEMMA RefineStep == OnceInv /\ TypeOK' /\ [Next]_vars => [Once!OnceNext]_(Once!onceVars)
<1> SUFFICES ASSUME OnceInv, TypeOK', [Next]_vars PROVE [Once!OnceNext]_(Once!onceVars)
  OBVIOUS
<1> USE DEF effectVars, readerVars, adminVars, worldVars
<1>1. TypeOK /\ \A i \in DOMAIN rows : rows[i] \in Row
  BY DEF OnceInv, TypeOK
<1>2. CASE UNCHANGED <<rows, made>>
  BY <1>2, SameMaps
<1>3. ASSUME NEW from, NEW to, TimePasses(from, to) PROVE UNCHANGED Once!onceVars
  <2>1. DOMAIN rows' = DOMAIN rows
        /\ \A i \in DOMAIN rows : rows'[i].mid = rows[i].mid /\ rows'[i].requeued = rows[i].requeued
    BY <1>1, <1>3 DEF TimePasses, Older, Row
  <2> QED BY <1>3, <2>1, SameMaps DEF TimePasses
<1>4. ASSUME NEW r \in Readers, Record(r) \/ RecordUnconfirmed(r) \/ RecordError(r)
      PROVE  [Once!OnceNext]_(Once!onceVars)
  <2>1. pc[r] # "idle" /\ draft[r] \in [outcome: Outcomes, ticket: Nat] /\ made' = made
    BY <1>1, <1>4 DEF TypeOK, KeyFree, OnException, Record, RecordUnconfirmed, RecordError
  <2>2. NoDraft \in [outcome: Outcomes, ticket: Nat]
    BY DEF NoDraft, Outcomes
  <2>3. \/ rows' = rows
        \/ \E d \in [outcome: Outcomes, ticket: Nat] :
             rows' = Append(rows, NewRow(Mail[Cur(r)], d)) /\ Live(Mail[Cur(r)].mid) = {}
    BY <1>4, <2>1, <2>2 DEF KeyFree, Record, RecordUnconfirmed, RecordError
  <2>4. ASSUME NEW d \in [outcome: Outcomes, ticket: Nat],
               rows' = Append(rows, NewRow(Mail[Cur(r)], d)), Live(Mail[Cur(r)].mid) = {}
        PROVE  Once!OnceNext
    <3>1. NewRow(Mail[Cur(r)], d) \in Row
      BY <1>1, <2>1, NewRowFact
    <3>2. NewRow(Mail[Cur(r)], d).mid = Mail[Cur(r)].mid /\ ~NewRow(Mail[Cur(r)], d).requeued
      BY DEF NewRow
    <3> QED BY <1>1, <2>1, <2>4, <3>1, <3>2, ClaimMaps
  <2> QED BY <1>2, <2>1, <2>3, <2>4
<1>5. ASSUME NEW r \in Readers, Write(r) \/ WriteFails(r) PROVE [Once!OnceNext]_(Once!onceVars)
  <2>1. pc[r] = "write" /\ rows' = rows /\ (Effect(r) \/ made' = made)
    BY <1>5 DEF Write, WriteFails
  <2>2. CASE Effect(r)
    <3>1. Mail[Cur(r)].mid \in Mids /\ made[Mail[Cur(r)].mid] = 0
          /\ made' = [made EXCEPT ![Mail[Cur(r)].mid] = 1]
      BY <2>1, <2>2, EffectFact
    <3>2. Live(Mail[Cur(r)].mid) # {}
      BY <2>1 DEF OnceInv, Holding, Owning, Live
    <3>3. \A mid \in Mids : Live(mid)' = Live(mid)
      BY <2>1 DEF Live
    <3>4. Once!WriteOnce(Mail[Cur(r)].mid)
      BY <3>1, <3>2, <3>3 DEF Once!WriteOnce
    <3> QED BY <3>1, <3>4 DEF Once!OnceNext
  <2> QED BY <1>2, <2>1, <2>2
<1>6. ASSUME NEW r \in Readers, Link(r) \/ LinkFails(r) \/ FailRow(r) PROVE UNCHANGED Once!onceVars
  <2>1. /\ made' = made
        /\ \/ rows' = rows
           \/ rows' = [rows EXCEPT ![claim[r]].ticket = draft[r].ticket]
           \/ rows' = [rows EXCEPT ![claim[r]].outcome = "ERROR"]
    BY <1>6 DEF Link, LinkFails, FailRow
  <2>2. DOMAIN rows' = DOMAIN rows
        /\ \A i \in DOMAIN rows : rows'[i].mid = rows[i].mid /\ rows'[i].requeued = rows[i].requeued
    BY <1>1, <2>1 DEF Row
  <2> QED BY <2>1, <2>2, SameMaps
<1>7. ASSUME NEW a \in Admins, Rename(a) PROVE [Once!OnceNext]_(Once!onceVars)
  <2> DEFINE k == arow[a]
             mid == rows[k].mid
  <2>1. k \in DOMAIN rows /\ mid \in Mids
    BY <1>1, <1>7 DEF OnceInv, Retrying, Rename, Row
  <2>2. /\ DOMAIN rows' = DOMAIN rows /\ made' = made
        /\ \A i \in DOMAIN rows : rows'[i].mid = rows[i].mid
                                 /\ rows'[i].requeued = (rows[i].requeued \/ i = k)
    BY <1>1, <1>7, <2>1 DEF Rename, Row
  <2>3. CASE rows[k].requeued
    <3>1. \A i \in DOMAIN rows : rows[i].requeued \in BOOLEAN
      BY <1>1 DEF Row
    <3>2. \A i \in DOMAIN rows : rows'[i].mid = rows[i].mid /\ rows'[i].requeued = rows[i].requeued
      BY <2>2, <2>3, <3>1
    <3> QED BY <2>2, <3>2, SameMaps
  <2>4. CASE ~rows[k].requeued
    <3>1. Live(mid) = {k}
      BY <2>1, <2>4 DEF OnceInv, SoleKey, Live
    <3>2. \A m \in Mids : Live(m)' = Live(m) \ {k}
      BY <2>2 DEF Live
    <3>3. \A m \in Mids : m # mid => k \notin Live(m)
      BY DEF Live
    <3>4. Once!Release(mid)
      <4> HIDE DEF mid, k
      <4> QED BY <2>1, <2>2, <3>1, <3>2, <3>3 DEF Once!Release
    <3> QED BY <2>1, <3>4 DEF Once!OnceNext
  <2> QED BY <2>3, <2>4
<1>8. ASSUME NEW r \in Readers,
             \/ StartPass(r) \/ Look(r) \/ Screen(r) \/ Judge(r) \/ JudgeBlind(r)
             \/ Throw(r) \/ Reply(r) \/ Mark(r) \/ Crash(r)
      PROVE  UNCHANGED <<rows, made>>
  BY <1>8 DEF StartPass, Look, Screen, Judge, JudgeBlind, Throw, Reply, Mark, Crash
<1>9. ASSUME NEW a \in Admins, (\E i \in DOMAIN rows : StartRetry(a, i)) \/ Unmark(a) \/ RetryFails(a)
      PROVE  UNCHANGED <<rows, made>>
  BY <1>9 DEF StartRetry, Unmark, RetryFails
<1>10. ASSUME (\E m \in Mails : Arrive(m)) \/ Switch \/ UNCHANGED vars PROVE UNCHANGED <<rows, made>>
  BY <1>10 DEF Arrive, Switch, vars
<1> QED BY <1>2, <1>3, <1>4, <1>5, <1>6, <1>7, <1>8, <1>9, <1>10
        DEF Next, Advance, Break, Retry, HourPasses, WeekPasses

\* The ingestion does nothing but claim a Message-ID, write once for one that is claimed and
\* give one back: the design that claim and retry describe.
THEOREM MailRefines == Setting /\ Spec => OnceImplemented
<1> SUFFICES ASSUME Setting PROVE Spec => OnceImplemented
  OBVIOUS
<1>1. Init => Once!OnceInit
  <2>1. Init => rows = <<>> /\ made = [i \in Mids |-> 0]
    BY DEF Init
  <2>2. rows = <<>> => \A mid \in Mids : Live(mid) = {}
    BY DEF Live
  <2> QED BY <2>1, <2>2 DEF Once!OnceInit
<1> QED BY <1>1, RefineStep, OnceAlways, InboundTypes, PTL DEF Spec, OnceImplemented, Once!OnceSpec
-----------------------------------------------------------------------------
(* What a mail leaves behind.  Rows are never deleted nor change Message-ID, *)
(* and a reader only gets to the mark past a row of its mail, but for two    *)
(* failures of the same mail.                                                *)

\* The columns of a row that may change: a row stays where it is and keeps its Message-ID, and its
\* outcome only ever becomes ERROR.
LEMMA RowsStay ==
    ASSUME TypeOK, [Next]_vars, NEW i \in DOMAIN rows
    PROVE  /\ i \in DOMAIN rows' /\ rows'[i].mid = rows[i].mid
           /\ rows'[i].outcome = rows[i].outcome \/ rows'[i].outcome = "ERROR"
<1>0. rows \in Seq(Row) /\ rows[i] \in Row
  BY DEF TypeOK
<1>1. CASE rows' = rows
  BY <1>1
<1>2. ASSUME NEW new \in Row, rows' = Append(rows, new)
      PROVE  i \in DOMAIN rows' /\ rows'[i] = rows[i]
  BY <1>2, AppendedRows
<1>3. ASSUME NEW from, NEW to, rows' = Older(rows, from, to)
      PROVE  i \in DOMAIN rows' /\ rows'[i].mid = rows[i].mid /\ rows'[i].outcome = rows[i].outcome
  BY <1>0, <1>3 DEF Older, Row
<1>4. ASSUME NEW k,
             \/ \E t : rows' = [rows EXCEPT ![k].ticket = t]
             \/ rows' = [rows EXCEPT ![k].outcome = "ERROR"]
             \/ rows' = [rows EXCEPT ![k].requeued = TRUE]
      PROVE  /\ i \in DOMAIN rows' /\ rows'[i].mid = rows[i].mid
             /\ rows'[i].outcome = rows[i].outcome \/ rows'[i].outcome = "ERROR"
  BY <1>0, <1>4 DEF Row
<1>5. CASE (\E m \in Mails : Arrive(m)) \/ Switch \/ UNCHANGED vars
  BY <1>1, <1>5 DEF Arrive, Switch, vars
<1>6. CASE HourPasses \/ WeekPasses
  BY <1>3, <1>6 DEF HourPasses, WeekPasses, TimePasses
<1>7. ASSUME NEW r \in Readers, StartPass(r) \/ Advance(r) \/ Break(r)
      PROVE  /\ i \in DOMAIN rows' /\ rows'[i].mid = rows[i].mid
             /\ rows'[i].outcome = rows[i].outcome \/ rows'[i].outcome = "ERROR"
  <2>1. CASE \/ StartPass(r) \/ Look(r) \/ Screen(r) \/ Judge(r) \/ Write(r) \/ Reply(r) \/ Mark(r)
             \/ JudgeBlind(r) \/ Throw(r) \/ WriteFails(r) \/ Crash(r)
    BY <1>1, <2>1 DEF StartPass, Look, Screen, Judge, Write, Reply, Mark, JudgeBlind, Throw,
                      WriteFails, Crash
  <2>2. CASE Record(r) \/ RecordUnconfirmed(r) \/ RecordError(r)
    <3>1. pc[r] # "idle" /\ draft[r] \in [outcome: Outcomes, ticket: Nat]
      BY <2>2 DEF TypeOK, OnException, Record, RecordUnconfirmed, RecordError
    <3>2. \A d \in [outcome: Outcomes, ticket: Nat] : NewRow(Mail[Cur(r)], d) \in Row
      BY <3>1, NewRowFact
    <3>3. NoDraft \in [outcome: Outcomes, ticket: Nat]
      BY DEF NoDraft, Outcomes
    <3>4. rows' = rows \/ \E d \in [outcome: Outcomes, ticket: Nat] :
                            rows' = Append(rows, NewRow(Mail[Cur(r)], d))
      BY <2>2, <3>1, <3>3 DEF Record, RecordUnconfirmed, RecordError
    <3> QED BY <1>1, <1>2, <3>2, <3>4
  <2>3. CASE Link(r) \/ LinkFails(r) \/ FailRow(r)
    BY <1>1, <1>4, <2>3 DEF Link, LinkFails, FailRow
  <2> QED BY <1>7, <2>1, <2>2, <2>3 DEF Advance, Break
<1>8. ASSUME NEW a \in Admins, Retry(a)
      PROVE  /\ i \in DOMAIN rows' /\ rows'[i].mid = rows[i].mid
             /\ rows'[i].outcome = rows[i].outcome \/ rows'[i].outcome = "ERROR"
  BY <1>1, <1>4, <1>8 DEF Retry, StartRetry, Unmark, Rename, RetryFails
<1> QED BY <1>5, <1>6, <1>7, <1>8 DEF Next

\* The mail has left a row.
Kept(m) == \E i \in DOMAIN rows : rows[i].mid = Mail[m].mid

\* Where a reader has a row of its mail in the table, its own or another's.
Told == {"write", "link", "fail", "reply", "mark"}

SilentInv ==
    /\ \A r \in Readers : pc[r] = "recordError" => faults >= 1 \/ Kept(Cur(r))
    /\ faults < 2 => /\ \A m \in Mails : flag[m] = "seen" => Kept(m)
                     /\ \A r \in Readers : pc[r] \in Told => Kept(Cur(r))

\* Failures are only counted up; an exception comes of one, or of a discard whose key is taken.
LEMMA FaultsCount ==
    ASSUME TypeOK, [Next]_vars
    PROVE  /\ faults <= faults'
           /\ \A r \in Readers : pc'[r] = "recordError" =>
                \/ pc[r] = "recordError" /\ batch'[r] = batch[r]
                \/ faults' >= 1
                \/ batch'[r] = batch[r] /\ Live(Mail[Cur(r)].mid) # {}
<1>0. faults \in Nat /\ pc \in [Readers -> Steps] /\ batch \in [Readers -> SUBSET Mails]
  BY DEF TypeOK
<1>1. CASE UNCHANGED <<pc, batch, faults>>
  BY <1>0, <1>1
<1>2. ASSUME NEW q \in Readers, NEW r \in Readers, StartPass(q) \/ Advance(q) \/ Break(q)
      PROVE  /\ faults' = faults \/ faults' = faults + 1
             /\ pc'[r] = "recordError" =>
                  \/ pc[r] = "recordError" /\ batch'[r] = batch[r]
                  \/ faults' = faults + 1
                  \/ batch'[r] = batch[r] /\ Live(Mail[Cur(r)].mid) # {}
  <2>1. CASE q # r
    <3>1. pc'[r] = pc[r] /\ batch'[r] = batch[r]
      BY <1>0, <1>2, <2>1 DEF StartPass, Advance, Break, Look, Screen, Judge, JudgeClient, JudgeStaff,
         JudgeUnknown, Record, RecordError, Write, Link, FailRow, Reply, Mark, JudgeBlind, Throw,
         RecordUnconfirmed, WriteFails, LinkFails, Crash, Decide, Goto
    <3>2. faults' = faults \/ faults' = faults + 1
      BY <1>2 DEF StartPass, Advance, Break, Look, Screen, Judge, Record, RecordError, Write, Link,
         FailRow, Reply, Mark, JudgeBlind, Throw, RecordUnconfirmed, WriteFails, LinkFails, Crash, Fault
    <3> QED BY <3>1, <3>2
  <2>2. CASE q = r /\ Record(r)
    BY <1>0, <2>2 DEF Record, KeyFree, After, Goto
  <2>3. CASE q = r /\ (Throw(r) \/ RecordUnconfirmed(r))
    BY <1>0, <2>3 DEF Throw, RecordUnconfirmed, Fault
  <2>4. CASE q = r /\ (StartPass(r) \/ Screen(r) \/ Judge(r) \/ JudgeBlind(r))
    <3>1. pc'[r] \in {"look", "record", "judge"}
      BY <1>0, <2>4 DEF StartPass, Screen, Judge, JudgeClient, JudgeStaff, JudgeUnknown, JudgeBlind,
         Decide, Goto
    <3>2. faults' = faults \/ faults' = faults + 1
      BY <2>4 DEF StartPass, Screen, Judge, JudgeBlind, Fault
    <3> QED BY <3>1, <3>2
  <2>5. CASE q = r /\ (Look(r) \/ RecordError(r) \/ Write(r) \/ Link(r) \/ FailRow(r) \/ Reply(r)
                       \/ Mark(r) \/ WriteFails(r) \/ LinkFails(r) \/ Crash(r))
    BY <1>0, <2>5 DEF Look, RecordError, Write, Link, FailRow, Reply, Mark, WriteFails, LinkFails,
       Crash, Goto, Fault, AfterMail
  <2> QED BY <1>2, <2>1, <2>2, <2>3, <2>4, <2>5 DEF Advance, Break
<1>3. ASSUME NEW a \in Admins, Retry(a) PROVE UNCHANGED <<pc, batch, faults>>
  BY <1>3 DEF Retry, StartRetry, Unmark, Rename, RetryFails, readerVars
<1>4. CASE (\E m \in Mails : Arrive(m)) \/ Switch \/ HourPasses \/ WeekPasses \/ UNCHANGED vars
  BY <1>1, <1>4 DEF Arrive, Switch, HourPasses, WeekPasses, TimePasses, readerVars, vars
<1> QED BY <1>0, <1>1, <1>2, <1>3, <1>4 DEF Next

\* A reader comes to the steps past a row of its mail by finding one or by inserting it.
LEMMA ComesToTold ==
    ASSUME TypeOK, [Next]_vars, NEW r \in Readers, pc'[r] \in Told
    PROVE  \/ pc[r] \in Told /\ Cur(r)' = Cur(r)
           \/ Look(r) \/ Record(r) \/ RecordError(r)
<1>0. pc \in [Readers -> Steps] /\ batch \in [Readers -> SUBSET Mails]
  BY DEF TypeOK
<1>1. CASE pc'[r] = pc[r] /\ batch'[r] = batch[r]
  BY <1>1 DEF Cur
<1>2. ASSUME NEW q \in Readers, q # r, StartPass(q) \/ Advance(q) \/ Break(q)
      PROVE  pc'[r] = pc[r] /\ batch'[r] = batch[r]
  BY <1>0, <1>2 DEF StartPass, Advance, Break, Look, Screen, Judge, JudgeClient, JudgeStaff,
     JudgeUnknown, Record, RecordError, Write, Link, FailRow, Reply, Mark, JudgeBlind, Throw,
     RecordUnconfirmed, WriteFails, LinkFails, Crash, Decide, Goto
<1>3. CASE StartPass(r) \/ Mark(r) \/ Crash(r) \/ Screen(r) \/ Judge(r) \/ JudgeBlind(r)
           \/ Throw(r) \/ RecordUnconfirmed(r)
  <2>1. pc'[r] \in {"look", "idle", "record", "judge", "recordError"}
    BY <1>0, <1>3 DEF StartPass, Mark, Crash, Screen, Judge, JudgeClient, JudgeStaff, JudgeUnknown,
       JudgeBlind, Throw, RecordUnconfirmed, Decide, Goto, AfterMail, OnException
  <2> QED BY <2>1 DEF Told
<1>4. CASE Write(r) \/ Link(r) \/ FailRow(r) \/ Reply(r) \/ WriteFails(r) \/ LinkFails(r)
  BY <1>4 DEF Write, Link, FailRow, Reply, WriteFails, LinkFails, Told, Cur
<1>5. ASSUME NEW a \in Admins, Retry(a) PROVE UNCHANGED <<pc, batch>>
  BY <1>5 DEF Retry, StartRetry, Unmark, Rename, RetryFails, readerVars
<1>6. CASE (\E m \in Mails : Arrive(m)) \/ Switch \/ HourPasses \/ WeekPasses \/ UNCHANGED vars
  BY <1>1, <1>6 DEF Arrive, Switch, HourPasses, WeekPasses, TimePasses, readerVars, vars
<1>7. ASSUME StartPass(r) \/ Advance(r) \/ Break(r)
      PROVE  \/ pc[r] \in Told /\ Cur(r)' = Cur(r)
             \/ Look(r) \/ Record(r) \/ RecordError(r)
  BY <1>3, <1>4, <1>7 DEF Advance, Break
<1> QED BY <1>1, <1>2, <1>5, <1>6, <1>7 DEF Next

\* A mail is marked read by the reader that is at it, and by nobody else.
LEMMA ComesToSeen ==
    ASSUME TypeOK, [Next]_vars, NEW m \in Mails, flag'[m] = "seen", flag[m] # "seen"
    PROVE  \E r \in Readers : pc[r] = "mark" /\ m = Cur(r)
<1>0. flag \in [Mails -> {"coming", "unseen", "seen"}]
  BY DEF TypeOK
<1>1. flag' # flag
  OBVIOUS
<1>2. ASSUME NEW n \in Mails, Arrive(n) PROVE FALSE
  BY <1>0, <1>2 DEF Arrive
<1>3. ASSUME Switch \/ HourPasses \/ WeekPasses \/ UNCHANGED vars PROVE FALSE
  BY <1>1, <1>3 DEF Switch, HourPasses, WeekPasses, TimePasses, vars
<1>4. ASSUME NEW r \in Readers, StartPass(r) \/ Advance(r) \/ Break(r), ~Mark(r) PROVE FALSE
  BY <1>1, <1>4 DEF StartPass, Advance, Break, Look, Screen, Judge, Record, RecordError, Write, Link,
     FailRow, Reply, JudgeBlind, Throw, RecordUnconfirmed, WriteFails, LinkFails, Crash
<1>5. ASSUME NEW r \in Readers, Mark(r) PROVE pc[r] = "mark" /\ m = Cur(r)
  BY <1>0, <1>5 DEF Mark
<1>6. ASSUME NEW a \in Admins, Retry(a) PROVE FALSE
  BY <1>0, <1>6 DEF Retry, StartRetry, Unmark, Rename, RetryFails
<1> QED BY <1>2, <1>3, <1>4, <1>5, <1>6 DEF Next

LEMMA SilentStep == TypeOK /\ TypeOK' /\ SilentInv /\ [Next]_vars => SilentInv'
<1> SUFFICES ASSUME TypeOK, TypeOK', SilentInv, [Next]_vars PROVE SilentInv'
  OBVIOUS
<1>0. faults \in Nat /\ faults' \in Nat
  BY DEF TypeOK
<1>1. \A m \in Mails : Kept(m) => Kept(m)'
  BY RowsStay DEF Kept
<1>2. ASSUME NEW r \in Readers, pc'[r] = "recordError" PROVE faults' >= 1 \/ Kept(Cur(r))'
  <2>1. faults' >= 1 \/ (batch'[r] = batch[r] /\ (Kept(Cur(r)) \/ Live(Mail[Cur(r)].mid) # {}))
    BY <1>0, <1>2, FaultsCount DEF SilentInv
  <2>2. CASE batch'[r] = batch[r] /\ Kept(Cur(r))
    <3>1. PICK i \in DOMAIN rows : rows[i].mid = Mail[Cur(r)].mid
      BY <2>2 DEF Kept
    <3>2. i \in DOMAIN rows' /\ rows'[i].mid = rows[i].mid
      BY RowsStay
    <3>3. Cur(r)' = Cur(r)
      BY <2>2 DEF Cur
    <3> QED BY <3>1, <3>2, <3>3 DEF Kept
  <2>3. Live(Mail[Cur(r)].mid) # {} => Kept(Cur(r))
    BY DEF Live, Kept
  <2> QED BY <2>1, <2>2, <2>3
<1>3. ASSUME faults' < 2, NEW m \in Mails, flag'[m] = "seen" PROVE Kept(m)'
  <2>1. faults < 2
    BY <1>0, <1>3, FaultsCount
  <2>2. CASE flag[m] # "seen"
    <3>1. PICK r \in Readers : pc[r] = "mark" /\ m = Cur(r)
      BY <1>3, <2>2, ComesToSeen
    <3> QED BY <1>1, <2>1, <3>1 DEF SilentInv, Told
  <2>3. CASE flag[m] = "seen"
    BY <1>1, <2>1, <2>3 DEF SilentInv
  <2> QED BY <2>2, <2>3
<1>4. ASSUME faults' < 2, NEW r \in Readers, pc'[r] \in Told PROVE Kept(Cur(r))'
  <2>1. faults < 2
    BY <1>0, <1>4, FaultsCount
  <2>2. CASE pc[r] \in Told /\ Cur(r)' = Cur(r)
    <3>1. pc[r] # "idle"
      BY <2>2 DEF Told
    <3> QED BY <1>1, <2>1, <2>2, <3>1, CurFact DEF SilentInv
  <2>3. CASE Look(r) \/ Record(r) \/ RecordError(r)
    <3>1. Cur(r)' = Cur(r) /\ Cur(r) \in Mails /\ pc[r] # "idle"
      BY <2>3, CurFact DEF Look, Record, RecordError, Cur, OnException
    <3>2. Live(Mail[Cur(r)].mid) # {} => Kept(Cur(r))
      BY DEF Live, Kept
    <3>3. \A d : rows' = Append(rows, NewRow(Mail[Cur(r)], d)) => Kept(Cur(r))'
      <4> SUFFICES ASSUME NEW d, rows' = Append(rows, NewRow(Mail[Cur(r)], d)) PROVE Kept(Cur(r))'
        OBVIOUS
      <4>1. Len(rows) + 1 \in DOMAIN rows' /\ rows'[Len(rows) + 1] = NewRow(Mail[Cur(r)], d)
        BY DEF TypeOK
      <4> QED BY <3>1, <4>1 DEF Kept, NewRow
    <3>4. \/ Live(Mail[Cur(r)].mid) # {}
          \/ Kept(Cur(r))
          \/ \E d : rows' = Append(rows, NewRow(Mail[Cur(r)], d))
      <4>1. CASE Look(r)
        BY <1>4, <4>1 DEF TypeOK, Look, Goto, Told
      <4>2. CASE Record(r)
        BY <4>2 DEF Record, KeyFree
      <4>3. CASE RecordError(r)
        <5>1. pc[r] = "recordError" /\ (faults >= 1 \/ Kept(Cur(r)))
          BY <4>3 DEF RecordError, OnException, SilentInv
        <5> QED BY <1>0, <1>4, <4>3, <5>1 DEF RecordError, KeyFree, Fault
      <4> QED BY <2>3, <4>1, <4>2, <4>3
    <3> QED BY <1>1, <3>1, <3>2, <3>3, <3>4
  <2> QED BY <1>4, <2>2, <2>3, ComesToTold
<1> QED BY <1>2, <1>3, <1>4 DEF SilentInv

\* Whatever overlaps, restarts or is put back, a mail is marked read without a row only after two
\* failures: the INSERT of the exception's row is the one whose own failure is only logged.
THEOREM NothingIsLostInSilence == Spec => []NothingLostInSilence
<1>1. Init => SilentInv
  BY DEF Init, SilentInv, Told
<1>2. TypeOK /\ SilentInv => NothingLostInSilence
  BY DEF TypeOK, SilentInv, NothingLostInSilence, Kept
<1> QED BY <1>1, <1>2, SilentStep, InboundTypes, PTL DEF Spec
-----------------------------------------------------------------------------
(* Without failures, what a row says was written was written.                *)

LEMMA CrashesCount ==
    ASSUME TypeOK, [Next]_vars
    PROVE  /\ crashes <= crashes'
           /\ \A r \in Readers : Crash(r) => crashes' # 0
<1>1. crashes \in Nat
  BY DEF TypeOK
<1>2. crashes' = crashes \/ crashes' = crashes + 1
  BY DEF Next, vars, Arrive, Switch, HourPasses, WeekPasses, TimePasses, worldVars, StartPass, Advance,
     Break, Retry, Look, Screen, Judge, Record, RecordError, Write, Link, FailRow, Reply, Mark,
     JudgeBlind, Throw, RecordUnconfirmed, WriteFails, LinkFails, Crash, StartRetry, Unmark, Rename,
     RetryFails
<1>3. \A r \in Readers : Crash(r) => crashes' = crashes + 1
  BY DEF Crash
<1> QED BY <1>1, <1>2, <1>3

\* What happens to a reader about to write: it writes, fails, restarts or stays.
LEMMA LeavesWrite ==
    ASSUME TypeOK, [Next]_vars, NEW r \in Readers, pc[r] = "write"
    PROVE  \/ Write(r) \/ WriteFails(r) \/ Crash(r)
           \/ pc'[r] = "write" /\ claim'[r] = claim[r]
<1>0. pc \in [Readers -> Steps] /\ claim \in [Readers -> Nat]
  BY DEF TypeOK
<1>1. ASSUME NEW q \in Readers, q # r, StartPass(q) \/ Advance(q) \/ Break(q)
      PROVE  pc'[r] = pc[r] /\ claim'[r] = claim[r]
  BY <1>0, <1>1 DEF StartPass, Advance, Break, Look, Screen, Judge, JudgeClient, JudgeStaff,
     JudgeUnknown, Record, RecordError, Write, Link, FailRow, Reply, Mark, JudgeBlind, Throw,
     RecordUnconfirmed, WriteFails, LinkFails, Crash, Decide, Goto
<1>2. ASSUME StartPass(r) \/ Advance(r) \/ Break(r)
      PROVE  Write(r) \/ WriteFails(r) \/ Crash(r)
  BY <1>2 DEF StartPass, Advance, Break, Look, Screen, Judge, Record, RecordError, Link, FailRow,
     Reply, Mark, JudgeBlind, Throw, RecordUnconfirmed, LinkFails, OnException
<1>3. ASSUME NEW a \in Admins, Retry(a) PROVE UNCHANGED <<pc, claim>>
  BY <1>3 DEF Retry, StartRetry, Unmark, Rename, RetryFails, readerVars
<1>4. ASSUME (\E m \in Mails : Arrive(m)) \/ Switch \/ HourPasses \/ WeekPasses \/ UNCHANGED vars
      PROVE  UNCHANGED <<pc, claim>>
  BY <1>4 DEF Arrive, Switch, HourPasses, WeekPasses, TimePasses, readerVars, vars
<1> QED BY <1>1, <1>2, <1>3, <1>4 DEF Next

\* Only a reader about to write counts a writing, and for its own mail.
LEMMA CountsItsMail ==
    ASSUME TypeOK, [Next]_vars, NEW mid \in Mids, made'[mid] # made[mid]
    PROVE  \E r \in Readers : pc[r] = "write" /\ Mail[Cur(r)].mid = mid
<1>0. made \in [Mids -> Nat] /\ made' # made
  BY DEF TypeOK
<1>1. ASSUME NEW r \in Readers, StartPass(r) \/ Advance(r) \/ Break(r)
      PROVE  Write(r) \/ WriteFails(r)
  BY <1>0, <1>1 DEF StartPass, Advance, Break, Look, Screen, Judge, Record, RecordError, Link, FailRow,
     Reply, Mark, JudgeBlind, Throw, RecordUnconfirmed, LinkFails, Crash, effectVars
<1>2. ASSUME NEW r \in Readers, Write(r) \/ WriteFails(r)
      PROVE  pc[r] = "write" /\ Mail[Cur(r)].mid = mid
  <2>1. pc[r] = "write" /\ made' = [made EXCEPT ![Mail[Cur(r)].mid] = @ + 1]
    BY <1>0, <1>2 DEF Write, WriteFails, Effect, effectVars
  <2> QED BY <1>0, <2>1
<1>3. ASSUME NEW a \in Admins, Retry(a) PROVE FALSE
  BY <1>0, <1>3 DEF Retry, StartRetry, Unmark, Rename, RetryFails, effectVars
<1>4. ASSUME (\E m \in Mails : Arrive(m)) \/ Switch \/ HourPasses \/ WeekPasses \/ UNCHANGED vars
      PROVE  FALSE
  BY <1>0, <1>4 DEF Arrive, Switch, HourPasses, WeekPasses, TimePasses, effectVars, vars
<1> QED BY <1>1, <1>2, <1>3, <1>4 DEF Next

\* Without failures, a new row that claims a writing is held by who will write it.
LEMMA NewClaimIsHeld ==
    ASSUME TypeOK, [Next]_vars, faults' = 0, NEW i \in DOMAIN rows', i \notin DOMAIN rows,
           rows'[i].outcome \in Claims
    PROVE  \E r \in Readers : pc'[r] = "write" /\ claim'[r] = i
<1>0. rows' # rows /\ rows \in Seq(Row) /\ pc \in [Readers -> Steps] /\ claim \in [Readers -> Nat]
      /\ draft \in [Readers -> [outcome: Outcomes, ticket: Nat]] /\ faults \in Nat
  BY DEF TypeOK
<1>1. ASSUME NEW k,
             \/ \E t : rows' = [rows EXCEPT ![k].ticket = t]
             \/ rows' = [rows EXCEPT ![k].outcome = "ERROR"]
             \/ rows' = [rows EXCEPT ![k].requeued = TRUE]
      PROVE  FALSE
  BY <1>0, <1>1
<1>2. ASSUME NEW r \in Readers, NEW d \in [outcome: Outcomes, ticket: Nat], pc[r] # "idle",
             rows' = Append(rows, NewRow(Mail[Cur(r)], d))
      PROVE  i = Len(rows) + 1 /\ d.outcome \in Claims
  <2>1. NewRow(Mail[Cur(r)], d) \in Row /\ NewRow(Mail[Cur(r)], d).outcome = d.outcome
    BY <1>2, NewRowFact DEF NewRow
  <2>2. DOMAIN rows = 1 .. Len(rows) /\ DOMAIN rows' = 1 .. (Len(rows) + 1) /\ Len(rows) \in Nat
        /\ rows'[Len(rows) + 1] = NewRow(Mail[Cur(r)], d)
    BY <1>2, <2>1, AppendedRows
  <2> QED BY <2>1, <2>2
<1>3. ASSUME NEW r \in Readers, StartPass(r) \/ Advance(r) \/ Break(r)
      PROVE  pc'[r] = "write" /\ claim'[r] = i
  <2>1. CASE Record(r)
    <3>1. /\ pc[r] = "record" /\ rows' = Append(rows, NewRow(Mail[Cur(r)], draft[r]))
          /\ claim'[r] = Len(rows) + 1 /\ pc'[r] = After(draft[r].outcome)
      BY <1>0, <2>1 DEF Record, Goto
    <3>2. i = Len(rows) + 1 /\ draft[r].outcome \in Claims
      <4>1. pc[r] # "idle" /\ draft[r] \in [outcome: Outcomes, ticket: Nat]
        BY <1>0, <3>1
      <4> QED BY <1>2, <3>1, <4>1
    <3> QED BY <3>1, <3>2 DEF After, Claims
  <2>2. ASSUME RecordError(r) PROVE FALSE
    <3>1. NoDraft \in [outcome: Outcomes, ticket: Nat] /\ NoDraft.outcome \notin Claims
      BY DEF NoDraft, Outcomes, Claims
    <3>2. pc[r] # "idle" /\ rows' = Append(rows, NewRow(Mail[Cur(r)], NoDraft))
      BY <1>0, <2>2 DEF RecordError, OnException
    <3> QED BY <1>2, <3>1, <3>2
  <2>3. ASSUME RecordUnconfirmed(r) PROVE FALSE
    BY <1>0, <2>3 DEF RecordUnconfirmed, Fault
  <2>4. ASSUME Link(r) \/ LinkFails(r) \/ FailRow(r) PROVE FALSE
    BY <1>0, <1>1, <2>4 DEF Link, LinkFails, FailRow
  <2>5. ASSUME \/ StartPass(r) \/ Look(r) \/ Screen(r) \/ Judge(r) \/ Write(r) \/ Reply(r) \/ Mark(r)
               \/ JudgeBlind(r) \/ Throw(r) \/ WriteFails(r) \/ Crash(r)
        PROVE  FALSE
    BY <1>0, <2>5 DEF StartPass, Look, Screen, Judge, Write, Reply, Mark, JudgeBlind, Throw,
                      WriteFails, Crash
  <2> QED BY <1>3, <2>1, <2>2, <2>3, <2>4, <2>5 DEF Advance, Break
<1>4. ASSUME NEW a \in Admins, Retry(a) PROVE FALSE
  BY <1>0, <1>1, <1>4 DEF Retry, StartRetry, Unmark, Rename, RetryFails
<1>5. ASSUME HourPasses \/ WeekPasses PROVE FALSE
  <2>1. \A from, to : DOMAIN Older(rows, from, to) = DOMAIN rows
    BY DEF Older
  <2> QED BY <1>5, <2>1 DEF HourPasses, WeekPasses, TimePasses
<1>6. ASSUME (\E m \in Mails : Arrive(m)) \/ Switch \/ UNCHANGED vars PROVE FALSE
  BY <1>0, <1>6 DEF Arrive, Switch, vars
<1> QED BY <1>3, <1>4, <1>5, <1>6 DEF Next

\* OutcomeIsTrue is inductive next to OnceInv: nothing was written before the write, and the row
\* the reader holds is of the mail it writes for.
LEMMA OutcomeStep == OnceInv /\ OutcomeIsTrue /\ [Next]_vars => OutcomeIsTrue'
<1> SUFFICES ASSUME OnceInv, OutcomeIsTrue, [Next]_vars, faults' = 0, crashes' = 0,
                    NEW i \in DOMAIN rows', rows'[i].outcome \in Claims,
                    \A r \in Readers : pc'[r] = "write" => claim'[r] # i
             PROVE  made'[rows'[i].mid] = 1
  BY DEF OutcomeIsTrue
<1>0. TypeOK /\ faults \in Nat /\ crashes \in Nat /\ made \in [Mids -> Nat]
  BY DEF OnceInv, TypeOK
<1>1. faults = 0 /\ crashes = 0 /\ \A r \in Readers : ~Crash(r) /\ ~WriteFails(r)
  BY <1>0, FaultsCount, CrashesCount DEF WriteFails, Fault
<1>2. i \in DOMAIN rows
  BY <1>0, NewClaimIsHeld
<1>3. rows[i].outcome \in Claims /\ rows'[i].mid = rows[i].mid /\ rows[i].mid \in Mids
  <2>1. rows[i] \in Row
    BY <1>0, <1>2 DEF TypeOK
  <2> QED BY <1>0, <1>2, <2>1, RowsStay DEF Row, Claims
<1>4. ASSUME NEW r \in Readers, pc[r] = "write", claim[r] = i
      PROVE  made'[rows[i].mid] = 1
  <2>1. Write(r)
    BY <1>0, <1>1, <1>4, LeavesWrite
  <2>2. made' = [made EXCEPT ![Mail[Cur(r)].mid] = @ + 1]
    BY <2>1 DEF Write, Effect
  <2>3. rows[i].mid = Mail[Cur(r)].mid /\ made[Mail[Cur(r)].mid] = 0
    BY <1>4 DEF OnceInv, Holding, Owning, WriteFresh
  <2> QED BY <1>0, <1>3, <2>2, <2>3
<1>5. ASSUME \A r \in Readers : pc[r] = "write" => claim[r] # i
      PROVE  made'[rows[i].mid] = 1
  <2>1. made[rows[i].mid] = 1
    BY <1>1, <1>2, <1>3, <1>5 DEF OutcomeIsTrue
  <2>2. \A r \in Readers : pc[r] = "write" => Mail[Cur(r)].mid # rows[i].mid
    BY <2>1 DEF OnceInv, WriteFresh
  <2> QED BY <1>0, <1>3, <2>1, <2>2, CountsItsMail
<1> QED BY <1>3, <1>4, <1>5

\* While nothing fails and no reader restarts, a row that says a ticket or a message was written is
\* about exactly one, once its reader is past the write, however many readers overlap.
THEOREM OutcomesAreTrue == Setting /\ Spec => []OutcomeIsTrue
<1> SUFFICES ASSUME Setting PROVE Spec => []OutcomeIsTrue
  OBVIOUS
<1>1. Init => OutcomeIsTrue
  BY DEF Init, OutcomeIsTrue
<1> QED BY <1>1, OutcomeStep, OnceAlways, PTL DEF Spec

-----------------------------------------------------------------------------
(* The brakes, with a single reader: a row is counted before what it stands  *)
(* for is done, and what is counted does not grow between the judgement of   *)
(* a mail and the insertion of its row.                                      *)

One(b) == IF b THEN 1 ELSE 0

\* What the counts count.
RowsOf(outcome, recent, addresses) ==
    {i \in DOMAIN rows : /\ rows[i].outcome = outcome
                         /\ rows[i].age \in recent
                         /\ rows[i].address \in addresses}
EntriesOf(seq, recent, addresses) ==
    {i \in DOMAIN seq : seq[i].age \in recent /\ seq[i].address \in addresses}

LEMMA RowsCount ==
    ASSUME TypeOK, NEW outcome, NEW recent, NEW addresses
    PROVE  /\ IsFiniteSet(RowsOf(outcome, recent, addresses))
           /\ Recorded(outcome, recent, addresses) = Cardinality(RowsOf(outcome, recent, addresses))
           /\ Recorded(outcome, recent, addresses) \in Nat
<1>1. DOMAIN rows = 1 .. Len(rows) /\ Len(rows) \in Nat
  BY DEF TypeOK
<1>2. IsFiniteSet(1 .. Len(rows))
  BY <1>1, FS_Interval
<1>3. RowsOf(outcome, recent, addresses) \in SUBSET (1 .. Len(rows))
  BY <1>1 DEF RowsOf
<1>4. IsFiniteSet(RowsOf(outcome, recent, addresses))
  BY <1>2, <1>3, FS_Subset
<1>5. Recorded(outcome, recent, addresses) = Cardinality(RowsOf(outcome, recent, addresses))
  BY DEF Recorded, RowsOf
<1> QED BY <1>4, <1>5, FS_CardinalityType

LEMMA EntriesCount ==
    ASSUME NEW S, NEW seq \in Seq(S), NEW recent, NEW addresses
    PROVE  /\ IsFiniteSet(EntriesOf(seq, recent, addresses))
           /\ Lately(seq, recent, addresses) = Cardinality(EntriesOf(seq, recent, addresses))
           /\ Lately(seq, recent, addresses) \in Nat
<1>1. DOMAIN seq = 1 .. Len(seq) /\ Len(seq) \in Nat
  OBVIOUS
<1>2. IsFiniteSet(1 .. Len(seq))
  BY <1>1, FS_Interval
<1>3. EntriesOf(seq, recent, addresses) \in SUBSET (1 .. Len(seq))
  BY <1>1 DEF EntriesOf
<1>4. IsFiniteSet(EntriesOf(seq, recent, addresses))
  BY <1>2, <1>3, FS_Subset
<1>5. Lately(seq, recent, addresses) = Cardinality(EntriesOf(seq, recent, addresses))
  BY DEF Lately, EntriesOf
<1> QED BY <1>4, <1>5, FS_CardinalityType

\* One row more, one entry more.
LEMMA OneRowMore ==
    ASSUME TypeOK, NEW new \in Row, rows' = Append(rows, new), NEW outcome, NEW recent, NEW addresses
    PROVE  Recorded(outcome, recent, addresses)' = Recorded(outcome, recent, addresses)
             + One(new.outcome = outcome /\ new.age \in recent /\ new.address \in addresses)
<1> DEFINE n == Len(rows) + 1
           before == RowsOf(outcome, recent, addresses)
           after == RowsOf(outcome, recent, addresses)'
           counts == new.outcome = outcome /\ new.age \in recent /\ new.address \in addresses
<1>1. /\ DOMAIN rows = 1 .. Len(rows) /\ Len(rows) \in Nat /\ DOMAIN rows' = 1 .. n
      /\ \A i \in DOMAIN rows : rows'[i] = rows[i]
      /\ rows'[n] = new
  BY AppendedRows
<1>2. n \notin before
  BY <1>1 DEF RowsOf
<1>3. counts => after = before \cup {n}
  BY <1>1 DEF RowsOf
<1>4. ~counts => after = before
  BY <1>1 DEF RowsOf
<1>5. IsFiniteSet(before) /\ Recorded(outcome, recent, addresses) = Cardinality(before)
      /\ Recorded(outcome, recent, addresses) \in Nat
  BY RowsCount
<1>6. Recorded(outcome, recent, addresses)' = Cardinality(after)
  BY DEF Recorded, RowsOf
<1> HIDE DEF before, after, counts, n
<1>7. CASE counts
  <2>1. Cardinality(before \cup {n}) = Cardinality(before) + 1
    BY <1>2, <1>5, FS_AddElement
  <2>2. One(counts) = 1
    BY <1>7 DEF One
  <2> QED BY <1>3, <1>5, <1>6, <1>7, <2>1, <2>2 DEF counts
<1>8. CASE ~counts
  <2>1. One(counts) = 0
    BY <1>8 DEF One
  <2> QED BY <1>4, <1>5, <1>6, <1>8, <2>1 DEF counts
<1> QED BY <1>7, <1>8

LEMMA OneEntryMore ==
    ASSUME NEW S, NEW seq \in Seq(S), NEW e \in S, NEW recent, NEW addresses
    PROVE  Lately(Append(seq, e), recent, addresses) = Lately(seq, recent, addresses)
             + One(e.age \in recent /\ e.address \in addresses)
<1> DEFINE n == Len(seq) + 1
           more == Append(seq, e)
           before == EntriesOf(seq, recent, addresses)
           after == EntriesOf(more, recent, addresses)
           counts == e.age \in recent /\ e.address \in addresses
<1>1. /\ DOMAIN seq = 1 .. Len(seq) /\ Len(seq) \in Nat /\ DOMAIN more = 1 .. n
      /\ \A i \in 1 .. Len(seq) : more[i] = seq[i]
      /\ more[n] = e /\ more \in Seq(S)
  OBVIOUS
<1> HIDE DEF more
<1>2. n \notin before
  BY <1>1 DEF EntriesOf
<1>3. counts => after = before \cup {n}
  BY <1>1 DEF EntriesOf
<1>4. ~counts => after = before
  BY <1>1 DEF EntriesOf
<1>5. IsFiniteSet(before) /\ Lately(seq, recent, addresses) = Cardinality(before)
      /\ Lately(seq, recent, addresses) \in Nat
  BY EntriesCount
<1>6. Lately(more, recent, addresses) = Cardinality(after)
  BY <1>1, EntriesCount
<1> HIDE DEF before, after, counts, n
<1>7. CASE counts
  <2>1. Cardinality(before \cup {n}) = Cardinality(before) + 1
    BY <1>2, <1>5, FS_AddElement
  <2>2. One(counts) = 1
    BY <1>7 DEF One
  <2> QED BY <1>3, <1>5, <1>6, <1>7, <2>1, <2>2 DEF counts, more
<1>8. CASE ~counts
  <2>1. One(counts) = 0
    BY <1>8 DEF One
  <2> QED BY <1>4, <1>5, <1>6, <1>8, <2>1 DEF counts, more
<1> QED BY <1>7, <1>8

\* Time empties a window it passes whole, and leaves alone one it stays in.
LEMMA OlderEntries ==
    ASSUME NEW seq, NEW from, NEW to, NEW recent, NEW addresses,
           \A i \in DOMAIN seq : \E x, y : seq[i] = [address |-> x, age |-> y]
    PROVE  /\ recent \subseteq from /\ to \notin recent =>
                 EntriesOf(Older(seq, from, to), recent, addresses) = {}
           /\ from \cup {to} \subseteq recent =>
                 EntriesOf(Older(seq, from, to), recent, addresses) = EntriesOf(seq, recent, addresses)
<1> DEFINE older == Older(seq, from, to)
<1>1. DOMAIN older = DOMAIN seq
  BY DEF Older
<1>2. \A i \in DOMAIN seq : /\ older[i].address = seq[i].address
                            /\ older[i].age = IF seq[i].age \in from THEN to ELSE seq[i].age
  <2> TAKE i \in DOMAIN seq
  <2>1. PICK x, y : seq[i] = [address |-> x, age |-> y]
    OBVIOUS
  <2>2. older[i] = IF seq[i].age \in from THEN [seq[i] EXCEPT !.age = to] ELSE seq[i]
    BY DEF Older
  <2> HIDE DEF older
  <2> QED BY <2>1, <2>2
<1> HIDE DEF older
<1>3. recent \subseteq from /\ to \notin recent => EntriesOf(older, recent, addresses) = {}
  BY <1>1, <1>2 DEF EntriesOf
<1>4. from \cup {to} \subseteq recent => EntriesOf(older, recent, addresses) = EntriesOf(seq, recent, addresses)
  BY <1>1, <1>2 DEF EntriesOf
<1> QED BY <1>3, <1>4 DEF older

LEMMA OlderRows ==
    ASSUME TypeOK, NEW from, NEW to \in Ages, rows' = Older(rows, from, to),
           NEW outcome, NEW recent, NEW addresses
    PROVE  /\ recent \subseteq from /\ to \notin recent => RowsOf(outcome, recent, addresses)' = {}
           /\ from \cup {to} \subseteq recent =>
                 RowsOf(outcome, recent, addresses)' = RowsOf(outcome, recent, addresses)
<1>1. DOMAIN rows' = DOMAIN rows
  BY DEF Older
<1>2. \A i \in DOMAIN rows : /\ rows'[i].address = rows[i].address /\ rows'[i].outcome = rows[i].outcome
                             /\ rows'[i].age = IF rows[i].age \in from THEN to ELSE rows[i].age
  <2> TAKE i \in DOMAIN rows
  <2>1. rows[i] \in Row
    BY DEF TypeOK
  <2>2. rows'[i] = IF rows[i].age \in from THEN [rows[i] EXCEPT !.age = to] ELSE rows[i]
    BY DEF Older
  <2> QED BY <2>1, <2>2 DEF Row
<1> QED BY <1>1, <1>2 DEF RowsOf

\* Nothing the counts look at changes in the rows.
SameRows ==
    /\ DOMAIN rows' = DOMAIN rows
    /\ \A i \in DOMAIN rows : /\ rows'[i].outcome = rows[i].outcome
                              /\ rows'[i].age = rows[i].age
                              /\ rows'[i].address = rows[i].address

LEMMA SameCount ==
    ASSUME SameRows, NEW outcome, NEW recent, NEW addresses
    PROVE  Recorded(outcome, recent, addresses)' = Recorded(outcome, recent, addresses)
<1>1. RowsOf(outcome, recent, addresses)' = RowsOf(outcome, recent, addresses)
  BY DEF SameRows, RowsOf
<1> QED BY <1>1 DEF Recorded, RowsOf

-----------------------------------------------------------------------------
\* What the reader is about to insert, to open or to answer.
Drafted(r, outcome, addresses) ==
    pc[r] = "record" /\ draft[r].outcome = outcome /\ Mail[Cur(r)].address \in addresses
Opening(r, addresses) ==
    pc[r] = "write" /\ draft[r].outcome = "TICKET_CREADO" /\ Mail[Cur(r)].address \in addresses
Answering(r, addresses) == pc[r] = "reply" /\ Mail[Cur(r)].address \in addresses

\* The count of a brake, with the row that was judged by it, is within its cap.
Within(r, outcome, recent, addresses, cap) ==
    Recorded(outcome, recent, addresses) + One(Drafted(r, outcome, addresses)) <= cap

\* No more is opened, or answered, or about to be, than the rows say.
OpenedHaveRows(r, recent, addresses) ==
    Lately(opened, recent, addresses) + One(Opening(r, addresses))
        <= Recorded("TICKET_CREADO", recent, addresses) + Recorded("ERROR", recent, addresses)
AnswersHaveRows(r, recent, addresses) ==
    Lately(replies, recent, addresses) + One(Answering(r, addresses))
        <= Recorded("REMITENTE_DESCONOCIDO", recent, addresses)

BrakesInv(r) ==
    /\ \A ad \in Addresses :
          /\ OpenedHaveRows(r, {"hour"}, {ad})
          /\ Within(r, "TICKET_CREADO", {"hour"}, {ad}, TicketCap)
          /\ AnswersHaveRows(r, {"hour", "week"}, {ad})
          /\ Within(r, "REMITENTE_DESCONOCIDO", {"hour", "week"}, {ad}, 1)
    /\ AnswersHaveRows(r, {"hour"}, Addresses)
    /\ Within(r, "REMITENTE_DESCONOCIDO", {"hour"}, Addresses, ReplyCap)

LEMMA OneFact == \A b \in BOOLEAN : One(b) \in {0, 1} /\ (b => One(b) = 1) /\ (~b => One(b) = 0)
BY DEF One

LEMMA Pending ==
    ASSUME NEW r, NEW outcome, NEW addresses
    PROVE  /\ Drafted(r, outcome, addresses) \in BOOLEAN
           /\ Opening(r, addresses) \in BOOLEAN
           /\ Answering(r, addresses) \in BOOLEAN
BY DEF Drafted, Opening, Answering

\* Every count is a number.
LEMMA Counts ==
    ASSUME TypeOK, NEW recent, NEW addresses
    PROVE  /\ \A outcome : Recorded(outcome, recent, addresses) \in Nat
           /\ Lately(opened, recent, addresses) \in Nat
           /\ Lately(replies, recent, addresses) \in Nat
<1>1. /\ opened \in Seq([address: Addresses, age: Ages])
      /\ replies \in Seq([address: Addresses, age: Ages])
  BY DEF TypeOK
<1> QED BY <1>1, RowsCount, EntriesCount

\* A step that counts nothing new, and leaves no more about to be done than there was.
LEMMA QuietBrakes ==
    ASSUME TypeOK, NEW r \in Readers, BrakesInv(r), SameRows, opened' = opened, replies' = replies,
           \A ads : /\ Drafted(r, "TICKET_CREADO", ads)' => Drafted(r, "TICKET_CREADO", ads)
                    /\ Drafted(r, "REMITENTE_DESCONOCIDO", ads)' => Drafted(r, "REMITENTE_DESCONOCIDO", ads)
                    /\ Opening(r, ads)' => Opening(r, ads)
                    /\ Answering(r, ads)' => Answering(r, ads)
    PROVE  BrakesInv(r)'
<1>1. ASSUME NEW b \in BOOLEAN, NEW d \in BOOLEAN, d => b
      PROVE  One(d) <= One(b) /\ One(d) \in Int /\ One(b) \in Int
  BY <1>1 DEF One
<1>2. ASSUME NEW outcome \in {"TICKET_CREADO", "REMITENTE_DESCONOCIDO"}, NEW recent, NEW ads, NEW cap \in Nat,
             Within(r, outcome, recent, ads, cap)
      PROVE  Within(r, outcome, recent, ads, cap)'
  <2>1. Recorded(outcome, recent, ads)' = Recorded(outcome, recent, ads)
        /\ Recorded(outcome, recent, ads) \in Nat
    BY SameCount, RowsCount
  <2>2. Drafted(r, outcome, ads)' => Drafted(r, outcome, ads)
    OBVIOUS
  <2>3. Drafted(r, outcome, ads)' \in BOOLEAN /\ Drafted(r, outcome, ads) \in BOOLEAN
    BY DEF Drafted
  <2>4. /\ One(Drafted(r, outcome, ads)') <= One(Drafted(r, outcome, ads))
        /\ One(Drafted(r, outcome, ads)') \in Int /\ One(Drafted(r, outcome, ads)) \in Int
    BY <1>1, <2>2, <2>3
  <2> QED BY <1>2, <2>1, <2>4 DEF Within, One
<1>3. ASSUME NEW recent, NEW ads, AnswersHaveRows(r, recent, ads)
      PROVE  AnswersHaveRows(r, recent, ads)'
  <2>1. /\ Recorded("REMITENTE_DESCONOCIDO", recent, ads)' = Recorded("REMITENTE_DESCONOCIDO", recent, ads)
        /\ Recorded("REMITENTE_DESCONOCIDO", recent, ads) \in Nat /\ Lately(replies, recent, ads) \in Nat
        /\ Lately(replies, recent, ads)' = Lately(replies, recent, ads)
    BY SameCount, Counts DEF Lately
  <2>2. Answering(r, ads)' => Answering(r, ads)
    OBVIOUS
  <2>3. Answering(r, ads)' \in BOOLEAN /\ Answering(r, ads) \in BOOLEAN
    BY DEF Answering
  <2>4. /\ One(Answering(r, ads)') <= One(Answering(r, ads))
        /\ One(Answering(r, ads)') \in Int /\ One(Answering(r, ads)) \in Int
    BY <1>1, <2>2, <2>3
  <2> QED BY <1>3, <2>1, <2>4 DEF AnswersHaveRows, One
<1>4. ASSUME NEW recent, NEW ads, OpenedHaveRows(r, recent, ads)
      PROVE  OpenedHaveRows(r, recent, ads)'
  <2>1. /\ Recorded("TICKET_CREADO", recent, ads)' = Recorded("TICKET_CREADO", recent, ads)
        /\ Recorded("ERROR", recent, ads)' = Recorded("ERROR", recent, ads)
        /\ Recorded("TICKET_CREADO", recent, ads) \in Nat /\ Recorded("ERROR", recent, ads) \in Nat
        /\ Lately(opened, recent, ads)' = Lately(opened, recent, ads) /\ Lately(opened, recent, ads) \in Nat
    BY SameCount, Counts DEF Lately
  <2>2. Opening(r, ads)' => Opening(r, ads)
    OBVIOUS
  <2>3. Opening(r, ads)' \in BOOLEAN /\ Opening(r, ads) \in BOOLEAN
    BY DEF Opening
  <2>4. /\ One(Opening(r, ads)') <= One(Opening(r, ads))
        /\ One(Opening(r, ads)') \in Int /\ One(Opening(r, ads)) \in Int
    BY <1>1, <2>2, <2>3
  <2> QED BY <1>4, <2>1, <2>4 DEF OpenedHaveRows, One
<1>5. TicketCap \in Nat /\ ReplyCap \in Nat /\ 1 \in Nat
  BY BoundAssumption
<1> QED BY <1>2, <1>3, <1>4, <1>5 DEF BrakesInv

\* Steps of the mailbox, the switch and the retries: no row that counts changes.
LEMMA AsideBrakes ==
    ASSUME TypeOK, NEW r \in Readers, BrakesInv(r),
           \/ (\E m \in Mails : Arrive(m)) \/ Switch \/ UNCHANGED vars
           \/ \E a \in Admins : Retry(a)
    PROVE  BrakesInv(r)'
<1>1. UNCHANGED <<pc, draft, batch, opened, replies>>
  BY DEF Arrive, Switch, vars, Retry, StartRetry, Unmark, Rename, RetryFails, effectVars, readerVars
<1>2. SameRows
  <2>1. CASE rows' = rows
    BY <2>1 DEF SameRows
  <2>2. ASSUME NEW k, rows' = [rows EXCEPT ![k].requeued = TRUE]
        PROVE  SameRows
    <3>1. \A i \in DOMAIN rows : rows[i] \in Row
      BY DEF TypeOK
    <3> QED BY <2>2, <3>1 DEF SameRows, Row
  <2> QED BY <2>1, <2>2 DEF Arrive, Switch, vars, Retry, StartRetry, Unmark, Rename, RetryFails
<1>3. \A outcome, ads : /\ Drafted(r, outcome, ads)' <=> Drafted(r, outcome, ads)
                        /\ Opening(r, ads)' <=> Opening(r, ads)
                        /\ Answering(r, ads)' <=> Answering(r, ads)
  BY <1>1 DEF Drafted, Opening, Answering, Cur
<1> QED BY <1>1, <1>2, <1>3, QuietBrakes

\* Steps of the reader that neither insert, nor open, nor answer, nor judge by a brake.
LEMMA PassingBrakes ==
    ASSUME TypeOK, NEW r \in Readers, BrakesInv(r),
           \/ StartPass(r) \/ Look(r) \/ Screen(r) \/ JudgeBlind(r) \/ Throw(r) \/ Mark(r) \/ Crash(r)
           \/ Link(r) \/ LinkFails(r)
    PROVE  BrakesInv(r)'
<1>0. pc \in [Readers -> Steps] /\ draft \in [Readers -> [outcome: Outcomes, ticket: Nat]]
  BY DEF TypeOK
<1>1. UNCHANGED <<opened, replies>>
  BY DEF StartPass, Look, Screen, JudgeBlind, Throw, Mark, Crash, Link, LinkFails, effectVars
<1>2. SameRows
  <2>1. CASE rows' = rows
    BY <2>1 DEF SameRows
  <2>2. ASSUME NEW k, NEW t, rows' = [rows EXCEPT ![k].ticket = t]
        PROVE  SameRows
    <3>1. \A i \in DOMAIN rows : rows[i] \in Row
      BY DEF TypeOK
    <3> QED BY <2>2, <3>1 DEF SameRows, Row
  <2> QED BY <2>1, <2>2 DEF StartPass, Look, Screen, JudgeBlind, Throw, Mark, Crash, Link, LinkFails
<1>3. pc'[r] \notin {"write", "reply"}
  <2>1. CASE Screen(r) \/ JudgeBlind(r)
    BY <1>0, <2>1 DEF Screen, JudgeBlind, Decide, Goto
  <2>2. CASE ~(Screen(r) \/ JudgeBlind(r))
    BY <1>0, <2>2 DEF StartPass, Look, Throw, Mark, Crash, Link, LinkFails, Goto, OnException, AfterMail
  <2> QED BY <2>1, <2>2
<1>4. pc'[r] = "record" => draft'[r].outcome \notin {"TICKET_CREADO", "REMITENTE_DESCONOCIDO"}
  <2>1. CASE Screen(r)
    <3>1. pc[r] # "idle"
      BY <1>0, <2>1 DEF Screen
    <3>2. Mail[Cur(r)].verdict \in Rejections \cup {"PASA"}
      BY <3>1, CurFact
    <3>3. Verdict(r, Mail[Cur(r)]) \in Rejections \cup {"PASA"}
      BY <3>2 DEF Verdict, Rejections
    <3> QED BY <1>0, <2>1, <3>3 DEF Screen, Decide, Goto, Rejections
  <2>2. CASE JudgeBlind(r)
    BY <1>0, <2>2 DEF JudgeBlind, Decide
  <2>3. CASE ~(Screen(r) \/ JudgeBlind(r))
    BY <1>0, <2>3 DEF StartPass, Look, Throw, Mark, Crash, Link, LinkFails, Goto, OnException, AfterMail
  <2> QED BY <2>1, <2>2, <2>3
<1>5. \A ads : /\ ~Drafted(r, "TICKET_CREADO", ads)' /\ ~Drafted(r, "REMITENTE_DESCONOCIDO", ads)'
               /\ ~Opening(r, ads)' /\ ~Answering(r, ads)'
  BY <1>3, <1>4 DEF Drafted, Opening, Answering
<1> QED BY <1>1, <1>2, <1>5, QuietBrakes

\* What a judgement finds when it lets a ticket or an answer through.
LEMMA JudgedFact ==
    ASSUME TypeOK, NEW r \in Readers, Judge(r)
    PROVE  LET ad == Mail[Cur(r)].address IN
           /\ draft'[r].outcome = "TICKET_CREADO" => Recorded("TICKET_CREADO", {"hour"}, {ad}) < TicketCap
           /\ draft'[r].outcome = "REMITENTE_DESCONOCIDO" =>
                /\ Recorded("REMITENTE_DESCONOCIDO", {"hour", "week"}, {ad}) = 0
                /\ Recorded("REMITENTE_DESCONOCIDO", {"hour"}, Addresses) < ReplyCap
           /\ pc'[r] = "record"
<1> DEFINE mail == Mail[Cur(r)]
<1>0. pc \in [Readers -> Steps] /\ draft \in [Readers -> [outcome: Outcomes, ticket: Nat]]
  BY DEF TypeOK
<1>1. JudgeClient(r, mail) \/ JudgeStaff(r, mail) \/ JudgeUnknown(r, mail)
  BY DEF Judge
<1>2. \A o, t : Decide(r, o, t) => draft'[r].outcome = o /\ pc'[r] = "record"
  BY <1>0 DEF Decide, Goto
<1>3. TicketCap \in Nat /\ ReplyCap \in Nat
      /\ \A o, recent, ads : Recorded(o, recent, ads) \in Nat
  BY BoundAssumption, Counts
<1> HIDE DEF mail
<1>4. CASE JudgeClient(r, mail)
  <2>1. CASE ~NewTicketCapReached(mail.address)
    <3>1. Recorded("TICKET_CREADO", {"hour"}, {mail.address}) < TicketCap
      BY <1>3, <2>1 DEF NewTicketCapReached, HasReachedNewTicketCap
    <3>2. draft'[r].outcome # "REMITENTE_DESCONOCIDO" /\ pc'[r] = "record"
      BY <1>2, <1>4 DEF JudgeClient
    <3> QED BY <3>1, <3>2 DEF mail
  <2>2. CASE NewTicketCapReached(mail.address)
    <3>1. draft'[r].outcome \notin {"TICKET_CREADO", "REMITENTE_DESCONOCIDO"} /\ pc'[r] = "record"
      BY <1>2, <1>4, <2>2 DEF JudgeClient
    <3> QED BY <3>1
  <2> QED BY <2>1, <2>2
<1>5. CASE JudgeStaff(r, mail)
  <2>1. draft'[r].outcome \notin {"TICKET_CREADO", "REMITENTE_DESCONOCIDO"} /\ pc'[r] = "record"
    BY <1>2, <1>5 DEF JudgeStaff
  <2> QED BY <2>1
<1>6. CASE JudgeUnknown(r, mail)
  <2> DEFINE asked == Recorded("REMITENTE_DESCONOCIDO", {"hour", "week"}, {mail.address})
             all == Recorded("REMITENTE_DESCONOCIDO", {"hour"}, Addresses)
  <2>1. /\ pc'[r] = "record"
        /\ draft'[r].outcome = IF ShouldReplyToUnknown(asked, all) THEN "REMITENTE_DESCONOCIDO"
                               ELSE "DESCARTADO_POR_TOPE"
    BY <1>2, <1>6 DEF JudgeUnknown
  <2> HIDE DEF asked, all
  <2>2. draft'[r].outcome = "REMITENTE_DESCONOCIDO" => asked = 0 /\ all < ReplyCap
    BY <2>1 DEF ShouldReplyToUnknown
  <2>3. draft'[r].outcome # "TICKET_CREADO"
    BY <2>1
  <2> QED BY <2>1, <2>2, <2>3 DEF asked, all, mail
<1> QED BY <1>1, <1>4, <1>5, <1>6

LEMMA JudgeBrakes ==
    ASSUME TypeOK, NEW r \in Readers, BrakesInv(r), Judge(r)
    PROVE  BrakesInv(r)'
<1> DEFINE ad == Mail[Cur(r)].address
<1>0. pc[r] = "judge" /\ UNCHANGED <<rows, opened, replies, batch>>
  BY DEF Judge, effectVars
<1>1. Cur(r)' = Cur(r) /\ pc'[r] = "record" /\ SameRows
  BY <1>0, JudgedFact DEF Cur, SameRows
<1>2. ad \in Addresses
  BY <1>0, CurFact
<1> HIDE DEF ad
<1>3. ASSUME NEW outcome \in {"TICKET_CREADO", "REMITENTE_DESCONOCIDO"}, NEW recent, NEW ads, NEW cap \in Nat,
             Within(r, outcome, recent, ads, cap),
             draft'[r].outcome = outcome /\ ad \in ads => Recorded(outcome, recent, ads) + 1 <= cap
      PROVE  Within(r, outcome, recent, ads, cap)'
  <2>1. Recorded(outcome, recent, ads)' = Recorded(outcome, recent, ads) /\ Recorded(outcome, recent, ads) \in Nat
    BY <1>1, SameCount, RowsCount
  <2>2. Drafted(r, outcome, ads)' <=> draft'[r].outcome = outcome /\ ad \in ads
    BY <1>1 DEF Drafted, ad
  <2>3. ~Drafted(r, outcome, ads)
    BY <1>0 DEF Drafted
  <2>4. Recorded(outcome, recent, ads) <= cap
    BY <1>3, <2>1, <2>3 DEF Within, One
  <2>5. CASE draft'[r].outcome = outcome /\ ad \in ads
    BY <1>3, <2>1, <2>2, <2>5 DEF Within, One
  <2>6. CASE ~(draft'[r].outcome = outcome /\ ad \in ads)
    BY <2>1, <2>2, <2>4, <2>6 DEF Within, One
  <2> QED BY <2>5, <2>6
<1>4. ASSUME NEW recent, NEW ads
      PROVE  /\ AnswersHaveRows(r, recent, ads) => AnswersHaveRows(r, recent, ads)'
             /\ OpenedHaveRows(r, recent, ads) => OpenedHaveRows(r, recent, ads)'
  <2>1. \A outcome : Recorded(outcome, recent, ads)' = Recorded(outcome, recent, ads)
    BY <1>1, SameCount
  <2>2. ~Answering(r, ads)' /\ ~Opening(r, ads)' /\ ~Answering(r, ads) /\ ~Opening(r, ads)
    BY <1>0, <1>1 DEF Answering, Opening
  <2>3. Lately(opened, recent, ads)' = Lately(opened, recent, ads)
        /\ Lately(replies, recent, ads)' = Lately(replies, recent, ads)
    BY <1>0 DEF Lately
  <2> QED BY <2>1, <2>2, <2>3 DEF AnswersHaveRows, OpenedHaveRows, One
<1>5. TicketCap \in Nat /\ ReplyCap \in Nat /\ \A o, recent, ads : Recorded(o, recent, ads) \in Nat
  BY BoundAssumption, Counts
<1>6. ASSUME NEW x \in Addresses
      PROVE  /\ Within(r, "TICKET_CREADO", {"hour"}, {x}, TicketCap)'
             /\ Within(r, "REMITENTE_DESCONOCIDO", {"hour", "week"}, {x}, 1)'
  <2> DEFINE hers == Recorded("TICKET_CREADO", {"hour"}, {x})
             told == Recorded("REMITENTE_DESCONOCIDO", {"hour", "week"}, {x})
  <2>1. hers \in Nat /\ told \in Nat
    BY <1>5
  <2>2. draft'[r].outcome = "TICKET_CREADO" /\ ad = x => hers < TicketCap
    BY JudgedFact DEF ad
  <2>3. draft'[r].outcome = "REMITENTE_DESCONOCIDO" /\ ad = x => told = 0
    BY JudgedFact DEF ad
  <2> HIDE DEF hers, told
  <2>4. draft'[r].outcome = "TICKET_CREADO" /\ ad \in {x} => hers + 1 <= TicketCap
    BY <1>5, <2>1, <2>2
  <2>5. draft'[r].outcome = "REMITENTE_DESCONOCIDO" /\ ad \in {x} => told + 1 <= 1
    BY <2>1, <2>3
  <2> QED BY <1>3, <1>5, <2>4, <2>5 DEF BrakesInv, hers, told
<1>7. Within(r, "REMITENTE_DESCONOCIDO", {"hour"}, Addresses, ReplyCap)'
  <2> DEFINE all == Recorded("REMITENTE_DESCONOCIDO", {"hour"}, Addresses)
  <2>1. all \in Nat /\ ReplyCap \in Nat
    BY <1>5
  <2>2. draft'[r].outcome = "REMITENTE_DESCONOCIDO" => all < ReplyCap
    BY JudgedFact
  <2> HIDE DEF all
  <2>3. draft'[r].outcome = "REMITENTE_DESCONOCIDO" => all + 1 <= ReplyCap
    BY <2>1, <2>2
  <2> QED BY <1>3, <1>5, <2>3 DEF BrakesInv, all
<1> QED BY <1>4, <1>6, <1>7 DEF BrakesInv

\* A step of a reader that is not about to do anything afterwards keeps the brakes when the counts do.
Idle(r) == \A ads : /\ \A outcome : ~Drafted(r, outcome, ads)
                    /\ ~Opening(r, ads) /\ ~Answering(r, ads)

LEMMA IdleFact == \A r : pc[r] \notin {"record", "write", "reply"} => Idle(r)
BY DEF Idle, Drafted, Opening, Answering

\* The row of what was judged goes in, or the row of an ERROR.
LEMMA AppendBrakes ==
    ASSUME TypeOK, NEW r \in Readers, BrakesInv(r), pc[r] \in {"record", "recordError"},
           NEW d \in [outcome: Outcomes, ticket: Nat],
           rows' = Append(rows, NewRow(Mail[Cur(r)], d)),
           UNCHANGED <<opened, replies, batch, draft>>,
           pc'[r] # "record",
           d.outcome \in {"TICKET_CREADO", "REMITENTE_DESCONOCIDO"} => pc[r] = "record" /\ d = draft[r],
           pc'[r] \in {"write", "reply"} => d = draft[r],
           pc'[r] = "reply" => d.outcome = "REMITENTE_DESCONOCIDO"
    PROVE  BrakesInv(r)'
<1> DEFINE ad == Mail[Cur(r)].address
           new == NewRow(Mail[Cur(r)], d)
<1>1. new \in Row
  BY CurFact, MailAssumption DEF NewRow, Row, Ages
<1>2. new.outcome = d.outcome /\ new.age = "hour" /\ new.address = ad
  BY DEF NewRow
<1>3. \A outcome, recent, ads :
         /\ Recorded(outcome, recent, ads) \in Nat
         /\ Recorded(outcome, recent, ads)' = Recorded(outcome, recent, ads)
              + One(d.outcome = outcome /\ "hour" \in recent /\ ad \in ads)
  <2> TAKE outcome, recent, ads
  <2>1. Recorded(outcome, recent, ads)' = Recorded(outcome, recent, ads)
              + One(new.outcome = outcome /\ new.age \in recent /\ new.address \in ads)
    BY <1>1, OneRowMore
  <2>2. (new.outcome = outcome /\ new.age \in recent /\ new.address \in ads)
          = (d.outcome = outcome /\ "hour" \in recent /\ ad \in ads)
    BY <1>2
  <2> QED BY <2>1, <2>2, Counts
<1>4. Cur(r)' = Cur(r)
  BY DEF Cur
<1> HIDE DEF new
<1>5. ASSUME NEW outcome \in {"TICKET_CREADO", "REMITENTE_DESCONOCIDO"}, NEW recent, NEW ads, NEW cap \in Nat,
             Within(r, outcome, recent, ads, cap)
      PROVE  Within(r, outcome, recent, ads, cap)'
  <2> DEFINE counts == d.outcome = outcome /\ "hour" \in recent /\ ad \in ads
  <2>1. ~Drafted(r, outcome, ads)'
    BY DEF Drafted
  <2>2. counts => Drafted(r, outcome, ads)
    BY DEF Drafted
  <2>3. One(counts) \in {0, 1} /\ (~counts => One(counts) = 0)
    BY DEF One
  <2>4. One(Drafted(r, outcome, ads)) \in {0, 1} /\ (Drafted(r, outcome, ads) => One(Drafted(r, outcome, ads)) = 1)
    BY DEF One
  <2>5. One(Drafted(r, outcome, ads)') = 0
    BY <2>1 DEF One
  <2>6. Recorded(outcome, recent, ads)' = Recorded(outcome, recent, ads) + One(counts)
        /\ Recorded(outcome, recent, ads) \in Nat
    BY <1>3
  <2>7. Recorded(outcome, recent, ads) + One(Drafted(r, outcome, ads)) <= cap
    BY <1>5 DEF Within
  <2> HIDE DEF counts
  <2>8. Recorded(outcome, recent, ads)' + One(Drafted(r, outcome, ads)') <= cap
    BY <2>2, <2>3, <2>4, <2>5, <2>6, <2>7
  <2> QED BY <2>8 DEF Within, One
<1>6. ASSUME NEW recent, "hour" \in recent, NEW ads, AnswersHaveRows(r, recent, ads)
      PROVE  AnswersHaveRows(r, recent, ads)'
  <2> DEFINE counts == d.outcome = "REMITENTE_DESCONOCIDO" /\ "hour" \in recent /\ ad \in ads
             told == Recorded("REMITENTE_DESCONOCIDO", recent, ads)
  <2>1. Answering(r, ads)' => counts
    BY <1>4, <1>6 DEF Answering
  <2>2. ~Answering(r, ads)
    BY DEF Answering
  <2>3. One(counts) \in {0, 1} /\ (counts => One(counts) = 1)
    BY DEF One
  <2>4. One(Answering(r, ads)') \in {0, 1} /\ (~Answering(r, ads)' => One(Answering(r, ads)') = 0)
    BY DEF One
  <2>5. told' = told + One(counts) /\ told \in Nat
    BY <1>3
  <2>6. Lately(replies, recent, ads) <= told /\ Lately(replies, recent, ads) \in Nat
    BY <1>6, <2>2, <2>5, Counts DEF AnswersHaveRows, One
  <2>7. Lately(replies, recent, ads)' = Lately(replies, recent, ads)
    BY DEF Lately
  <2> HIDE DEF counts, told
  <2>8. Lately(replies, recent, ads)' + One(Answering(r, ads)') <= told'
    BY <2>1, <2>3, <2>4, <2>5, <2>6, <2>7
  <2> QED BY <2>8 DEF AnswersHaveRows, told, One
<1>7. ASSUME NEW recent, "hour" \in recent, NEW ads, OpenedHaveRows(r, recent, ads)
      PROVE  OpenedHaveRows(r, recent, ads)'
  <2> DEFINE counts == d.outcome = "TICKET_CREADO" /\ "hour" \in recent /\ ad \in ads
             errs == d.outcome = "ERROR" /\ "hour" \in recent /\ ad \in ads
             fresh == Recorded("TICKET_CREADO", recent, ads)
             wrong == Recorded("ERROR", recent, ads)
  <2>1. Opening(r, ads)' => counts
    BY <1>4, <1>7 DEF Opening
  <2>2. ~Opening(r, ads)
    BY DEF Opening
  <2>3. One(counts) \in {0, 1} /\ (counts => One(counts) = 1) /\ One(errs) \in {0, 1}
    BY DEF One
  <2>4. One(Opening(r, ads)') \in {0, 1} /\ (~Opening(r, ads)' => One(Opening(r, ads)') = 0)
    BY DEF One
  <2>5. fresh' = fresh + One(counts) /\ fresh \in Nat /\ wrong' = wrong + One(errs) /\ wrong \in Nat
    BY <1>3
  <2>6. Lately(opened, recent, ads) <= fresh + wrong /\ Lately(opened, recent, ads) \in Nat
    BY <1>7, <2>2, <2>5, Counts DEF OpenedHaveRows, One
  <2>7. Lately(opened, recent, ads)' = Lately(opened, recent, ads)
    BY DEF Lately
  <2> HIDE DEF counts, errs, fresh, wrong
  <2>8. Lately(opened, recent, ads)' + One(Opening(r, ads)') <= fresh' + wrong'
    BY <2>1, <2>3, <2>4, <2>5, <2>6, <2>7
  <2> QED BY <2>8 DEF OpenedHaveRows, fresh, wrong, One
<1> QED BY <1>5, <1>6, <1>7, BoundAssumption DEF BrakesInv

LEMMA RecordBrakes ==
    ASSUME TypeOK, NEW r \in Readers, BrakesInv(r), Record(r) \/ RecordUnconfirmed(r) \/ RecordError(r)
    PROVE  BrakesInv(r)'
<1>0. /\ pc \in [Readers -> Steps] /\ draft[r] \in [outcome: Outcomes, ticket: Nat]
      /\ pc[r] \in {"record", "recordError"}
      /\ UNCHANGED <<opened, replies, batch, draft>>
      /\ NoDraft \in [outcome: Outcomes, ticket: Nat]
  BY DEF TypeOK, Record, RecordUnconfirmed, RecordError, effectVars, NoDraft, Outcomes
<1>1. CASE rows' = rows
  <2>1. pc'[r] \in {"mark", "recordError"} /\ SameRows
    <3>1. rows \in Seq(Row) /\ \A x : rows # Append(rows, x)
      <4>1. rows \in Seq(Row)
        BY DEF TypeOK
      <4>2. \A x : Len(Append(rows, x)) = Len(rows) + 1 /\ Len(rows) \in Nat
        BY <4>1
      <4> QED BY <4>1, <4>2
    <3>2. KeyTaken(draft[r].outcome) \in {"mark", "recordError"}
      BY DEF KeyTaken, OnException
    <3> QED BY <1>0, <1>1, <3>1, <3>2 DEF Record, RecordUnconfirmed, RecordError, Goto, SameRows
  <2>2. \A ads : /\ ~Drafted(r, "TICKET_CREADO", ads)' /\ ~Drafted(r, "REMITENTE_DESCONOCIDO", ads)'
                 /\ ~Opening(r, ads)' /\ ~Answering(r, ads)'
    BY <2>1 DEF Drafted, Opening, Answering
  <2> QED BY <1>0, <2>1, <2>2, QuietBrakes
<1>2. ASSUME Record(r), rows' = Append(rows, NewRow(Mail[Cur(r)], draft[r])),
             pc' = [pc EXCEPT ![r] = After(draft[r].outcome)]
      PROVE  BrakesInv(r)'
  <2>1. pc[r] = "record" /\ pc'[r] = After(draft[r].outcome)
    BY <1>0, <1>2 DEF Record
  <2>2. /\ After(draft[r].outcome) \in {"write", "reply", "mark"}
        /\ After(draft[r].outcome) = "reply" => draft[r].outcome = "REMITENTE_DESCONOCIDO"
    BY DEF After, Claims
  <2> QED BY <1>0, <1>2, <2>1, <2>2, AppendBrakes
<1>3. ASSUME RecordUnconfirmed(r)
      PROVE  BrakesInv(r)'
  <2>1. /\ pc[r] = "record" /\ pc'[r] = "recordError"
        /\ rows' = Append(rows, NewRow(Mail[Cur(r)], draft[r]))
    BY <1>0, <1>3 DEF RecordUnconfirmed, Goto, OnException
  <2> QED BY <1>0, <2>1, AppendBrakes
<1>4. ASSUME RecordError(r), rows' = Append(rows, NewRow(Mail[Cur(r)], NoDraft))
      PROVE  BrakesInv(r)'
  <2>1. pc[r] = "recordError" /\ pc'[r] = "mark" /\ NoDraft.outcome = "ERROR"
    BY <1>0, <1>4 DEF RecordError, Goto, NoDraft
  <2> QED BY <1>0, <1>4, <2>1, AppendBrakes
<1>5. \/ rows' = rows \/ RecordUnconfirmed(r)
      \/ Record(r) /\ rows' = Append(rows, NewRow(Mail[Cur(r)], draft[r]))
                   /\ pc' = [pc EXCEPT ![r] = After(draft[r].outcome)]
      \/ RecordError(r) /\ rows' = Append(rows, NewRow(Mail[Cur(r)], NoDraft))
  BY DEF Record, RecordError, Goto
<1> QED BY <1>1, <1>2, <1>3, <1>4, <1>5

\* An entry of what was opened or of what was answered.
Entry == [address: Addresses, age: Ages]

\* The ticket that is opened, and the answer that is sent, were counted before.
LEMMA WriteBrakes ==
    ASSUME TypeOK, NEW r \in Readers, BrakesInv(r), Write(r) \/ WriteFails(r)
    PROVE  BrakesInv(r)'
<1> DEFINE ad == Mail[Cur(r)].address
           entry == [address |-> ad, age |-> "hour"]
<1>0. /\ pc \in [Readers -> Steps] /\ pc[r] = "write" /\ pc'[r] \in {"link", "mark", "fail"}
      /\ UNCHANGED <<rows, replies>>
  BY DEF TypeOK, Write, WriteFails, Goto, Effect, effectVars
<1>1. opened' = opened \/ (draft[r].outcome = "TICKET_CREADO" /\ opened' = Append(opened, entry))
  BY DEF Write, WriteFails, Effect, effectVars
<1>2. entry \in Entry /\ opened \in Seq(Entry)
  BY <1>0, CurFact DEF TypeOK, Ages, Entry
<1>3. Idle(r)'
  BY <1>0 DEF Idle, Drafted, Opening, Answering
<1>4. SameRows
  BY <1>0 DEF SameRows
<1>5. ASSUME NEW recent, NEW ads, OpenedHaveRows(r, recent, ads)
      PROVE  OpenedHaveRows(r, recent, ads)'
  <2> DEFINE hers == Lately(opened, recent, ads)
             said == Recorded("TICKET_CREADO", recent, ads) + Recorded("ERROR", recent, ads)
             one == One(Opening(r, ads))
  <2>1. hers \in Nat /\ said \in Nat /\ said' = said
    <3>1. /\ Recorded("TICKET_CREADO", recent, ads)' = Recorded("TICKET_CREADO", recent, ads)
          /\ Recorded("ERROR", recent, ads)' = Recorded("ERROR", recent, ads)
      BY <1>4, SameCount
    <3>2. hers \in Nat /\ Recorded("TICKET_CREADO", recent, ads) \in Nat /\ Recorded("ERROR", recent, ads) \in Nat
      BY Counts
    <3> HIDE DEF hers
    <3> QED BY <3>1, <3>2
  <2>2. one \in {0, 1} /\ (Opening(r, ads) => one = 1)
    BY DEF One
  <2>3. hers + one <= said
    BY <1>5 DEF OpenedHaveRows
  <2>4. hers' <= hers + one
    <3>1. CASE opened' = opened
      BY <2>1, <2>2, <3>1 DEF Lately
    <3>2. CASE draft[r].outcome = "TICKET_CREADO" /\ opened' = Append(opened, entry)
      <4> DEFINE counts == entry.age \in recent /\ entry.address \in ads
      <4>1. Lately(Append(opened, entry), recent, ads) = hers + One(counts)
        <5> HIDE DEF entry
        <5>1. Lately(Append(opened, entry), recent, ads)
                = Lately(opened, recent, ads) + One(entry.age \in recent /\ entry.address \in ads)
          BY <1>2, OneEntryMore
        <5> QED BY <5>1
      <4>2. hers' = Lately(Append(opened, entry), recent, ads)
        BY <3>2 DEF Lately
      <4>3. counts => Opening(r, ads)
        BY <1>0, <3>2 DEF Opening
      <4>4. One(counts) \in {0, 1} /\ (~counts => One(counts) = 0)
        BY DEF One
      <4> HIDE DEF counts, hers, one
      <4> QED BY <2>1, <2>2, <4>1, <4>2, <4>3, <4>4 DEF hers
    <3> QED BY <1>1, <3>1, <3>2
  <2>5. One(Opening(r, ads)') = 0
    BY <1>3 DEF Idle, One
  <2>6. hers' \in Nat
    <3>1. opened' \in Seq(Entry)
      <4> HIDE DEF entry
      <4> QED BY <1>1, <1>2
    <3> QED BY <3>1, EntriesCount
  <2> HIDE DEF hers, said, one
  <2>7. hers' <= said'
    <3>1. said' \in Nat /\ one \in Nat
      BY <2>1, <2>2
    <3>2. hers' <= said
      BY <2>1, <2>3, <2>4, <2>6, <3>1
    <3> QED BY <2>1, <2>6, <3>1, <3>2
  <2> QED BY <2>5, <2>6, <2>7 DEF OpenedHaveRows, hers, said, One
<1>6. ASSUME NEW recent, NEW ads, AnswersHaveRows(r, recent, ads)
      PROVE  AnswersHaveRows(r, recent, ads)'
  <2>1. /\ Recorded("REMITENTE_DESCONOCIDO", recent, ads)' = Recorded("REMITENTE_DESCONOCIDO", recent, ads)
        /\ Lately(replies, recent, ads)' = Lately(replies, recent, ads)
    BY <1>0, <1>4, SameCount DEF Lately
  <2>2. ~Answering(r, ads) /\ ~Answering(r, ads)'
    BY <1>0 DEF Answering
  <2> QED BY <1>6, <2>1, <2>2 DEF AnswersHaveRows, One
<1>7. ASSUME NEW outcome \in {"TICKET_CREADO", "REMITENTE_DESCONOCIDO"}, NEW recent, NEW ads, NEW cap,
             Within(r, outcome, recent, ads, cap)
      PROVE  Within(r, outcome, recent, ads, cap)'
  <2>1. Recorded(outcome, recent, ads)' = Recorded(outcome, recent, ads)
    BY <1>4, SameCount
  <2>2. ~Drafted(r, outcome, ads) /\ ~Drafted(r, outcome, ads)'
    BY <1>0 DEF Drafted
  <2> QED BY <1>7, <2>1, <2>2 DEF Within, One
<1> QED BY <1>5, <1>6, <1>7 DEF BrakesInv

LEMMA ReplyBrakes ==
    ASSUME TypeOK, NEW r \in Readers, BrakesInv(r), Reply(r)
    PROVE  BrakesInv(r)'
<1> DEFINE ad == Mail[Cur(r)].address
           entry == [address |-> ad, age |-> "hour"]
<1>0. /\ pc \in [Readers -> Steps] /\ pc[r] = "reply" /\ pc'[r] = "mark"
      /\ UNCHANGED <<rows, opened>>
  BY DEF TypeOK, Reply, Goto, effectVars
<1>1. replies' = replies \/ replies' = Append(replies, entry)
  BY DEF Reply
<1>2. entry \in Entry /\ replies \in Seq(Entry)
  BY <1>0, CurFact DEF TypeOK, Ages, Entry
<1>3. SameRows
  BY <1>0 DEF SameRows
<1>4. ASSUME NEW recent, NEW ads, AnswersHaveRows(r, recent, ads)
      PROVE  AnswersHaveRows(r, recent, ads)'
  <2> DEFINE sent == Lately(replies, recent, ads)
             said == Recorded("REMITENTE_DESCONOCIDO", recent, ads)
             one == One(Answering(r, ads))
  <2>1. sent \in Nat /\ said \in Nat /\ said' = said
    BY <1>3, SameCount, Counts
  <2>2. one \in {0, 1} /\ (Answering(r, ads) => one = 1)
    BY DEF One
  <2>3. sent + one <= said
    BY <1>4 DEF AnswersHaveRows
  <2>4. sent' <= sent + one
    <3>1. CASE replies' = replies
      BY <2>1, <2>2, <3>1 DEF Lately
    <3>2. CASE replies' = Append(replies, entry)
      <4> DEFINE counts == entry.age \in recent /\ entry.address \in ads
      <4>1. Lately(Append(replies, entry), recent, ads) = sent + One(counts)
        <5> HIDE DEF entry
        <5>1. Lately(Append(replies, entry), recent, ads)
                = Lately(replies, recent, ads) + One(entry.age \in recent /\ entry.address \in ads)
          BY <1>2, OneEntryMore
        <5> QED BY <5>1
      <4>2. sent' = Lately(Append(replies, entry), recent, ads)
        BY <3>2 DEF Lately
      <4>3. counts => Answering(r, ads)
        BY <1>0 DEF Answering
      <4>4. One(counts) \in {0, 1} /\ (~counts => One(counts) = 0)
        BY DEF One
      <4> HIDE DEF counts, sent, one
      <4> QED BY <2>1, <2>2, <4>1, <4>2, <4>3, <4>4 DEF sent
    <3> QED BY <1>1, <3>1, <3>2
  <2>5. One(Answering(r, ads)') = 0
    BY <1>0 DEF Answering, One
  <2>6. sent' \in Nat
    <3>1. replies' \in Seq(Entry)
      <4> HIDE DEF entry
      <4> QED BY <1>1, <1>2
    <3> QED BY <3>1, EntriesCount
  <2> HIDE DEF sent, said, one
  <2>7. sent' <= said'
    <3>1. said' \in Nat /\ one \in Nat
      BY <2>1, <2>2
    <3>2. sent' <= said
      BY <2>1, <2>3, <2>4, <2>6, <3>1
    <3> QED BY <2>1, <2>6, <3>1, <3>2
  <2> QED BY <2>5, <2>6, <2>7 DEF AnswersHaveRows, sent, said, One
<1>5. ASSUME NEW recent, NEW ads, OpenedHaveRows(r, recent, ads)
      PROVE  OpenedHaveRows(r, recent, ads)'
  <2>1. /\ Recorded("TICKET_CREADO", recent, ads)' = Recorded("TICKET_CREADO", recent, ads)
        /\ Recorded("ERROR", recent, ads)' = Recorded("ERROR", recent, ads)
        /\ Lately(opened, recent, ads)' = Lately(opened, recent, ads)
    BY <1>0, <1>3, SameCount DEF Lately
  <2>2. ~Opening(r, ads) /\ ~Opening(r, ads)'
    BY <1>0 DEF Opening
  <2> QED BY <1>5, <2>1, <2>2 DEF OpenedHaveRows, One
<1>6. ASSUME NEW outcome \in {"TICKET_CREADO", "REMITENTE_DESCONOCIDO"}, NEW recent, NEW ads, NEW cap,
             Within(r, outcome, recent, ads, cap)
      PROVE  Within(r, outcome, recent, ads, cap)'
  <2>1. Recorded(outcome, recent, ads)' = Recorded(outcome, recent, ads)
    BY <1>3, SameCount
  <2>2. ~Drafted(r, outcome, ads) /\ ~Drafted(r, outcome, ads)'
    BY <1>0 DEF Drafted
  <2> QED BY <1>6, <2>1, <2>2 DEF Within, One
<1> QED BY <1>4, <1>5, <1>6 DEF BrakesInv

\* A claimed row that goes to ERROR goes on standing for the ticket that may have been opened.
LEMMA FailBrakes ==
    ASSUME TypeOK, Holding, NEW r \in Readers, BrakesInv(r), FailRow(r)
    PROVE  BrakesInv(r)'
<1> DEFINE c == claim[r]
<1>0. /\ pc \in [Readers -> Steps] /\ rows \in Seq(Row) /\ pc[r] = "fail" /\ pc'[r] = "mark"
      /\ UNCHANGED <<opened, replies, batch, draft>>
  BY DEF TypeOK, FailRow, Goto, effectVars
<1>1. c \in DOMAIN rows /\ rows[c].outcome \in Claims
  BY <1>0 DEF Holding, Owning
<1>2. \A ads : /\ ~Drafted(r, "TICKET_CREADO", ads)' /\ ~Drafted(r, "REMITENTE_DESCONOCIDO", ads)'
               /\ ~Opening(r, ads)' /\ ~Answering(r, ads)'
  BY <1>0 DEF Drafted, Opening, Answering
<1>3. CASE rows' = rows
  <2>1. SameRows
    BY <1>3 DEF SameRows
  <2> QED BY <1>0, <1>2, <2>1, QuietBrakes
<1>4. CASE rows' = [rows EXCEPT ![c].outcome = "ERROR"]
  <2>1. /\ DOMAIN rows' = DOMAIN rows
        /\ \A i \in DOMAIN rows : /\ rows'[i].age = rows[i].age /\ rows'[i].address = rows[i].address
                                  /\ rows'[i].outcome = IF i = c THEN "ERROR" ELSE rows[i].outcome
    <3>1. \A i \in DOMAIN rows : rows[i] \in Row
      BY <1>0
    <3> QED BY <1>1, <1>4, <3>1 DEF Row
  <2>2. \A recent, ads : Recorded("REMITENTE_DESCONOCIDO", recent, ads)' = Recorded("REMITENTE_DESCONOCIDO", recent, ads)
    <3> TAKE recent, ads
    <3>1. RowsOf("REMITENTE_DESCONOCIDO", recent, ads)' = RowsOf("REMITENTE_DESCONOCIDO", recent, ads)
      BY <1>1, <2>1 DEF RowsOf, Claims
    <3> QED BY <3>1 DEF Recorded, RowsOf
  <2>3. ASSUME NEW recent, NEW ads
        PROVE  /\ Recorded("TICKET_CREADO", recent, ads)' <= Recorded("TICKET_CREADO", recent, ads)
               /\ Recorded("TICKET_CREADO", recent, ads) + Recorded("ERROR", recent, ads)
                    <= Recorded("TICKET_CREADO", recent, ads)' + Recorded("ERROR", recent, ads)'
               /\ Recorded("TICKET_CREADO", recent, ads)' \in Nat /\ Recorded("ERROR", recent, ads)' \in Nat
    <3> DEFINE T == RowsOf("TICKET_CREADO", recent, ads)
               E == RowsOf("ERROR", recent, ads)
    <3>1. /\ IsFiniteSet(T) /\ Recorded("TICKET_CREADO", recent, ads) = Cardinality(T)
          /\ IsFiniteSet(E) /\ Recorded("ERROR", recent, ads) = Cardinality(E)
          /\ Cardinality(T) \in Nat /\ Cardinality(E) \in Nat
      BY RowsCount
    <3>2. Recorded("TICKET_CREADO", recent, ads)' = Cardinality(T') /\ Recorded("ERROR", recent, ads)' = Cardinality(E')
      BY DEF Recorded, RowsOf
    <3>3. T' \subseteq T /\ T \ {c} \subseteq T' /\ E \subseteq E' /\ E' \subseteq E \cup {c} /\ c \notin T' /\ c \notin E
          /\ (c \in T => c \in E')
      BY <1>1, <2>1 DEF RowsOf, Claims
    <3> HIDE DEF T, E
    <3>4. CASE c \in T
      <4>1. T' = T \ {c} /\ E' = E \cup {c}
        BY <3>3, <3>4
      <4>2. Cardinality(T \ {c}) = Cardinality(T) - 1 /\ IsFiniteSet(T \ {c})
        BY <3>1, <3>4, FS_RemoveElement
      <4>3. Cardinality(E \cup {c}) = Cardinality(E) + 1
        BY <3>1, <3>3, FS_AddElement
      <4>4. Cardinality(T \ {c}) \in Nat
        BY <4>2, FS_CardinalityType
      <4> QED BY <3>1, <3>2, <4>1, <4>2, <4>3, <4>4
    <3>5. CASE c \notin T
      <4>1. T' = T /\ (E' = E \/ E' = E \cup {c})
        BY <3>3, <3>5
      <4>2. Cardinality(E \cup {c}) = Cardinality(E) + 1
        BY <3>1, <3>3, FS_AddElement
      <4>3. Cardinality(E') = Cardinality(E) \/ Cardinality(E') = Cardinality(E) + 1
        BY <4>1, <4>2
      <4> QED BY <3>1, <3>2, <4>1, <4>3
    <3> QED BY <3>4, <3>5
  <2>4. ASSUME NEW outcome \in {"TICKET_CREADO", "REMITENTE_DESCONOCIDO"}, NEW recent, NEW ads, NEW cap \in Nat,
               Within(r, outcome, recent, ads, cap)
        PROVE  Within(r, outcome, recent, ads, cap)'
    <3>1. ~Drafted(r, outcome, ads) /\ ~Drafted(r, outcome, ads)'
      BY <1>0, <1>2 DEF Drafted
    <3>2. Recorded(outcome, recent, ads) <= cap /\ Recorded(outcome, recent, ads) \in Nat
      <4>1. Recorded(outcome, recent, ads) \in Nat
        BY Counts
      <4>2. One(Drafted(r, outcome, ads)) = 0
        BY <3>1 DEF One
      <4>3. Recorded(outcome, recent, ads) + One(Drafted(r, outcome, ads)) <= cap
        BY <2>4 DEF Within
      <4> QED BY <4>1, <4>2, <4>3
    <3>3. Recorded(outcome, recent, ads)' <= Recorded(outcome, recent, ads) /\ Recorded(outcome, recent, ads)' \in Nat
      BY <2>2, <2>3, <3>2
    <3>4. Recorded(outcome, recent, ads)' <= cap
      BY <3>2, <3>3
    <3> QED BY <3>1, <3>3, <3>4 DEF Within, One
  <2>5. ASSUME NEW recent, NEW ads, AnswersHaveRows(r, recent, ads)
        PROVE  AnswersHaveRows(r, recent, ads)'
    <3>1. ~Answering(r, ads) /\ ~Answering(r, ads)'
      BY <1>0 DEF Answering
    <3>2. Lately(replies, recent, ads)' = Lately(replies, recent, ads)
      BY <1>0 DEF Lately
    <3> QED BY <2>2, <2>5, <3>1, <3>2 DEF AnswersHaveRows, One
  <2>6. ASSUME NEW recent, NEW ads, OpenedHaveRows(r, recent, ads)
        PROVE  OpenedHaveRows(r, recent, ads)'
    <3> DEFINE said == Recorded("TICKET_CREADO", recent, ads) + Recorded("ERROR", recent, ads)
    <3>1. ~Opening(r, ads) /\ ~Opening(r, ads)'
      BY <1>0 DEF Opening
    <3>2. Lately(opened, recent, ads)' = Lately(opened, recent, ads) /\ Lately(opened, recent, ads) \in Nat
      BY <1>0, Counts DEF Lately
    <3>3. said \in Nat /\ said' \in Nat /\ said <= said'
      <4>1. Recorded("TICKET_CREADO", recent, ads) \in Nat /\ Recorded("ERROR", recent, ads) \in Nat
        BY Counts
      <4> QED BY <2>3, <4>1
    <3>4. Lately(opened, recent, ads) <= said
      BY <2>6, <3>1, <3>2, <3>3 DEF OpenedHaveRows, One
    <3> HIDE DEF said
    <3>5. Lately(opened, recent, ads)' <= said'
      BY <3>2, <3>3, <3>4
    <3> QED BY <3>1, <3>2, <3>5 DEF OpenedHaveRows, One, said
  <2> QED BY <2>4, <2>5, <2>6, BoundAssumption DEF BrakesInv
<1> QED BY <1>3, <1>4 DEF FailRow

\* An hour, or the cooldown, passes for the rows as it does for what they stand for.
LEMMA TimeBrakes ==
    ASSUME TypeOK, NEW r \in Readers, BrakesInv(r), HourPasses \/ WeekPasses
    PROVE  BrakesInv(r)'
<1>0. pc[r] = "idle" /\ UNCHANGED pc
  BY DEF HourPasses, WeekPasses, TimePasses, readerVars
<1>1. \A outcome, ads : /\ ~Drafted(r, outcome, ads) /\ ~Drafted(r, outcome, ads)'
                        /\ ~Opening(r, ads) /\ ~Opening(r, ads)' /\ ~Answering(r, ads) /\ ~Answering(r, ads)'
  BY <1>0 DEF Drafted, Opening, Answering
<1>2. ASSUME NEW seq \in Seq(Entry)
      PROVE  \A i \in DOMAIN seq : \E x, y : seq[i] = [address |-> x, age |-> y]
  <2> TAKE i \in DOMAIN seq
  <2>1. seq[i] \in Entry
    OBVIOUS
  <2>2. seq[i] = [address |-> seq[i].address, age |-> seq[i].age]
    BY <2>1 DEF Entry
  <2> QED BY <2>2
<1>3. opened \in Seq(Entry) /\ replies \in Seq(Entry)
  BY DEF TypeOK, Entry
<1>4. ASSUME NEW outcome, NEW ads
      PROVE  /\ Recorded(outcome, {"hour"}, ads)' = 0
             /\ Recorded(outcome, {"hour", "week"}, ads)' \in {0, Recorded(outcome, {"hour", "week"}, ads)}
             /\ WeekPasses => Recorded(outcome, {"hour", "week"}, ads)' = 0
             /\ HourPasses => Recorded(outcome, {"hour", "week"}, ads)' = Recorded(outcome, {"hour", "week"}, ads)
  <2>1. HourPasses => /\ RowsOf(outcome, {"hour"}, ads)' = {}
                      /\ RowsOf(outcome, {"hour", "week"}, ads)' = RowsOf(outcome, {"hour", "week"}, ads)
    BY OlderRows DEF HourPasses, TimePasses, Ages
  <2>2. WeekPasses => RowsOf(outcome, {"hour"}, ads)' = {} /\ RowsOf(outcome, {"hour", "week"}, ads)' = {}
    BY OlderRows DEF WeekPasses, TimePasses, Ages
  <2>3. \A recent : /\ Recorded(outcome, recent, ads) = Cardinality(RowsOf(outcome, recent, ads))
                    /\ Recorded(outcome, recent, ads)' = Cardinality(RowsOf(outcome, recent, ads)')
    BY DEF Recorded, RowsOf
  <2> QED BY <2>1, <2>2, <2>3, FS_EmptySet
<1>5. ASSUME NEW ads
      PROVE  /\ Lately(opened, {"hour"}, ads)' = 0 /\ Lately(replies, {"hour"}, ads)' = 0
             /\ WeekPasses => Lately(replies, {"hour", "week"}, ads)' = 0
             /\ HourPasses => Lately(replies, {"hour", "week"}, ads)' = Lately(replies, {"hour", "week"}, ads)
  <2>1. HourPasses => /\ EntriesOf(opened', {"hour"}, ads) = {} /\ EntriesOf(replies', {"hour"}, ads) = {}
                      /\ EntriesOf(replies', {"hour", "week"}, ads) = EntriesOf(replies, {"hour", "week"}, ads)
    <3> SUFFICES ASSUME HourPasses
                 PROVE  /\ EntriesOf(opened', {"hour"}, ads) = {} /\ EntriesOf(replies', {"hour"}, ads) = {}
                        /\ EntriesOf(replies', {"hour", "week"}, ads) = EntriesOf(replies, {"hour", "week"}, ads)
      OBVIOUS
    <3>1. opened' = Older(opened, {"hour"}, "week") /\ replies' = Older(replies, {"hour"}, "week")
      BY DEF HourPasses, TimePasses
    <3>2. EntriesOf(opened', {"hour"}, ads) = {}
      BY <1>2, <1>3, <3>1, OlderEntries
    <3>3. EntriesOf(replies', {"hour"}, ads) = {}
          /\ EntriesOf(replies', {"hour", "week"}, ads) = EntriesOf(replies, {"hour", "week"}, ads)
      BY <1>2, <1>3, <3>1, OlderEntries
    <3> QED BY <3>2, <3>3
  <2>2. WeekPasses => /\ EntriesOf(opened', {"hour"}, ads) = {} /\ EntriesOf(replies', {"hour"}, ads) = {}
                      /\ EntriesOf(replies', {"hour", "week"}, ads) = {}
    <3> SUFFICES ASSUME WeekPasses
                 PROVE  /\ EntriesOf(opened', {"hour"}, ads) = {} /\ EntriesOf(replies', {"hour"}, ads) = {}
                        /\ EntriesOf(replies', {"hour", "week"}, ads) = {}
      OBVIOUS
    <3>1. opened' = Older(opened, {"hour", "week"}, "old") /\ replies' = Older(replies, {"hour", "week"}, "old")
      BY DEF WeekPasses, TimePasses
    <3>2. EntriesOf(opened', {"hour"}, ads) = {}
      BY <1>2, <1>3, <3>1, OlderEntries
    <3>3. EntriesOf(replies', {"hour"}, ads) = {} /\ EntriesOf(replies', {"hour", "week"}, ads) = {}
      BY <1>2, <1>3, <3>1, OlderEntries
    <3> QED BY <3>2, <3>3
  <2>3. \A recent : /\ Lately(opened, recent, ads)' = Cardinality(EntriesOf(opened', recent, ads))
                    /\ Lately(replies, recent, ads)' = Cardinality(EntriesOf(replies', recent, ads))
                    /\ Lately(replies, recent, ads) = Cardinality(EntriesOf(replies, recent, ads))
    BY DEF Lately, EntriesOf
  <2> QED BY <2>1, <2>2, <2>3, FS_EmptySet
<1>6. TicketCap \in Nat /\ ReplyCap \in Nat
  BY BoundAssumption
<1>7. ASSUME NEW ad \in Addresses
      PROVE  /\ OpenedHaveRows(r, {"hour"}, {ad})'
             /\ Within(r, "TICKET_CREADO", {"hour"}, {ad}, TicketCap)'
             /\ AnswersHaveRows(r, {"hour", "week"}, {ad})'
             /\ Within(r, "REMITENTE_DESCONOCIDO", {"hour", "week"}, {ad}, 1)'
  <2>1. OpenedHaveRows(r, {"hour"}, {ad})'
    BY <1>1, <1>4, <1>5 DEF OpenedHaveRows, One
  <2>2. Within(r, "TICKET_CREADO", {"hour"}, {ad}, TicketCap)'
    BY <1>1, <1>4, <1>6 DEF Within, One
  <2>3. AnswersHaveRows(r, {"hour", "week"}, {ad})'
    <3>1. AnswersHaveRows(r, {"hour", "week"}, {ad})
      BY DEF BrakesInv
    <3>2. ~Answering(r, {ad}) /\ ~Answering(r, {ad})'
      BY <1>1
    <3>3. CASE WeekPasses
      BY <1>4, <1>5, <3>2, <3>3 DEF AnswersHaveRows, One
    <3>4. CASE HourPasses
      BY <1>4, <1>5, <3>1, <3>2, <3>4 DEF AnswersHaveRows, One
    <3> QED BY <3>3, <3>4
  <2>4. Within(r, "REMITENTE_DESCONOCIDO", {"hour", "week"}, {ad}, 1)'
    <3>1. Within(r, "REMITENTE_DESCONOCIDO", {"hour", "week"}, {ad}, 1)
      BY DEF BrakesInv
    <3>2. ~Drafted(r, "REMITENTE_DESCONOCIDO", {ad}) /\ ~Drafted(r, "REMITENTE_DESCONOCIDO", {ad})'
      BY <1>1
    <3> QED BY <1>4, <3>1, <3>2 DEF Within, One
  <2> QED BY <2>1, <2>2, <2>3, <2>4
<1>8. AnswersHaveRows(r, {"hour"}, Addresses)'
  BY <1>1, <1>4, <1>5 DEF AnswersHaveRows, One
<1>9. Within(r, "REMITENTE_DESCONOCIDO", {"hour"}, Addresses, ReplyCap)'
  BY <1>1, <1>4, <1>6 DEF Within, One
<1> QED BY <1>7, <1>8, <1>9 DEF BrakesInv

LEMMA BrakesInit == ASSUME Init, NEW r \in Readers PROVE BrakesInv(r)
<1>1. pc[r] = "idle" /\ rows = <<>> /\ opened = <<>> /\ replies = <<>>
  BY DEF Init
<1>2. \A outcome, recent, ads : Recorded(outcome, recent, ads) = 0
  <2> TAKE outcome, recent, ads
  <2>1. RowsOf(outcome, recent, ads) = {}
    BY <1>1 DEF RowsOf
  <2> QED BY <2>1, FS_EmptySet DEF Recorded, RowsOf
<1>3. \A recent, ads : Lately(opened, recent, ads) = 0 /\ Lately(replies, recent, ads) = 0
  <2> TAKE recent, ads
  <2>1. EntriesOf(<<>>, recent, ads) = {}
    BY DEF EntriesOf
  <2> QED BY <1>1, <2>1, FS_EmptySet DEF Lately, EntriesOf
<1>4. \A outcome, ads : ~Drafted(r, outcome, ads) /\ ~Opening(r, ads) /\ ~Answering(r, ads)
  BY <1>1 DEF Drafted, Opening, Answering
<1>5. TicketCap \in Nat /\ ReplyCap \in Nat
  BY BoundAssumption
<1> QED BY <1>2, <1>3, <1>4, <1>5 DEF BrakesInv, OpenedHaveRows, AnswersHaveRows, Within, One

LEMMA BrakesStep ==
    ASSUME OnceInv, NEW r \in Readers, Readers = {r}, BrakesInv(r), [Next]_vars
    PROVE  BrakesInv(r)'
<1>0. TypeOK /\ Holding
  BY DEF OnceInv
<1>1. CASE StartPass(r) \/ Advance(r) \/ Break(r)
  <2>1. CASE \/ StartPass(r) \/ Look(r) \/ Screen(r) \/ JudgeBlind(r) \/ Throw(r) \/ Mark(r) \/ Crash(r)
             \/ Link(r) \/ LinkFails(r)
    BY <1>0, <2>1, PassingBrakes
  <2>2. CASE Judge(r)
    BY <1>0, <2>2, JudgeBrakes
  <2>3. CASE Record(r) \/ RecordUnconfirmed(r) \/ RecordError(r)
    BY <1>0, <2>3, RecordBrakes
  <2>4. CASE Write(r) \/ WriteFails(r)
    BY <1>0, <2>4, WriteBrakes
  <2>5. CASE FailRow(r)
    BY <1>0, <2>5, FailBrakes
  <2>6. CASE Reply(r)
    BY <1>0, <2>6, ReplyBrakes
  <2> QED BY <1>1, <2>1, <2>2, <2>3, <2>4, <2>5, <2>6 DEF Advance, Break
<1>2. CASE HourPasses \/ WeekPasses
  BY <1>0, <1>2, TimeBrakes
<1>3. CASE (\E m \in Mails : Arrive(m)) \/ Switch \/ UNCHANGED vars \/ \E a \in Admins : Retry(a)
  BY <1>0, <1>3, AsideBrakes
<1> QED BY <1>1, <1>2, <1>3 DEF Next

\* What the rows say is what the caps limit.
LEMMA BrakesFollow ==
    ASSUME TypeOK, NEW r \in Readers, BrakesInv(r)
    PROVE  BrakesHold
<1>1. TicketCap \in Nat /\ ReplyCap \in Nat
  BY BoundAssumption
<1>2. \A outcome, recent, ads : /\ Recorded(outcome, recent, ads) \in Nat
                                /\ Lately(opened, recent, ads) \in Nat /\ Lately(replies, recent, ads) \in Nat
  BY Counts
<1>3. \A b : One(b) \in {0, 1}
  BY DEF One
<1>4. ASSUME NEW ad \in Addresses
      PROVE  Lately(opened, {"hour"}, {ad}) <= TicketCap + Recorded("ERROR", {"hour"}, {ad})
  <2>1. OpenedHaveRows(r, {"hour"}, {ad}) /\ Within(r, "TICKET_CREADO", {"hour"}, {ad}, TicketCap)
    BY DEF BrakesInv
  <2> QED BY <1>1, <1>2, <1>3, <2>1 DEF OpenedHaveRows, Within
<1>5. ASSUME NEW ad \in Addresses
      PROVE  Lately(replies, {"hour", "week"}, {ad}) <= 1
  <2>1. AnswersHaveRows(r, {"hour", "week"}, {ad}) /\ Within(r, "REMITENTE_DESCONOCIDO", {"hour", "week"}, {ad}, 1)
    BY DEF BrakesInv
  <2> QED BY <1>2, <1>3, <2>1 DEF AnswersHaveRows, Within
<1>6. Lately(replies, {"hour"}, Addresses) <= ReplyCap
  <2>1. AnswersHaveRows(r, {"hour"}, Addresses) /\ Within(r, "REMITENTE_DESCONOCIDO", {"hour"}, Addresses, ReplyCap)
    BY DEF BrakesInv
  <2> QED BY <1>1, <1>2, <1>3, <2>1 DEF AnswersHaveRows, Within
<1> QED BY <1>4, <1>5, <1>6 DEF BrakesHold, TicketCapHolds, ReplyBrakesHold

\* With one reader, whatever fails, restarts or is put back by hand, in an hour a sender opens no more
\* tickets than the cap but for the rows that went to ERROR, and an unknown sender is answered once in
\* the cooldown and all of them within the cap (newTicketCapReached, allowedToReplyToUnknown).
THEOREM BrakesAreHeld == (\E r \in Readers : Readers = {r}) /\ Spec => []BrakesHold
<1> SUFFICES ASSUME NEW r \in Readers, Readers = {r} PROVE Spec => []BrakesHold
  OBVIOUS
<1>1. Init => BrakesInv(r)
  BY BrakesInit
<1>2. OnceInv /\ BrakesInv(r) /\ [Next]_vars => BrakesInv(r)'
  BY BrakesStep
<1>3. OnceInv /\ BrakesInv(r) => BrakesHold
  BY BrakesFollow DEF OnceInv
<1>4. Spec => []OnceInv
  BY OnceAlways DEF Setting
<1> QED BY <1>1, <1>2, <1>3, <1>4, PTL DEF Spec
=============================================================================
