-------------------------- MODULE MeetingRecordsProofs --------------------------
(***************************************************************************)
(* Theorems of MeetingRecords.  No row is locked, so what holds a property  *)
(* up is who may write while another still holds a row it read: a request    *)
(* is current, or it is marked outdated, and what an outdated one writes is  *)
(* marked (stale, trodden).  The rest is what the job in the queue knows.    *)
(***************************************************************************)
EXTENDS MeetingRecords, SequenceTheorems, TLAPS

\* The steps at which a request holds the acta, and those at which it approves it.
Holding == {"draft", "rewrite", "submit", "approve", "approved", "told", "export"}
Approving == {"approved", "told", "export"}

Busy == [at : {"start", "started", "hear", "save", "saved", "forget", "fail"}, job : Nat, talk : Talk]

Pcs == {"idle", "queue", "mark", "retry", "edit", "draft", "drafted", "rewrite", "submit", "approve",
        "approved", "told", "export", "retain"}

\* What a request may hold at a step, with the transcriptions there are.
Fits(at, row, ids) ==
    /\ at \in {"queue", "mark"} => row.of \in ids /\ row.op \in {"upload", "retry"}
    /\ at = "mark" => row.op = "upload"
    /\ at \in {"retry", "edit"} => row.of \in ids /\ row.talk \in Talk
    /\ at = "retry" => row.talk.status = "FAILED"
    /\ at = "draft" /\ row # NoActa => row.status = "DRAFT"
    /\ at \in Holding /\ row # NoActa => row \in Acta /\ row.text \in 1 .. MaxDrafts
    /\ at \in Holding \ {"draft"} => row # NoActa
    /\ at = "rewrite" => Editable(row.status)
    /\ at = "submit" => row.status = "DRAFT"
    /\ at = "approve" => row.status \in {"DRAFT", "IN_REVIEW"}
    /\ at \in Approving => row.status = "APPROVED"

TablesOK ==
    /\ audio \in Seq(Audio) /\ talk \in Seq(Talk) /\ Len(talk) = Len(audio)
    /\ halved \subseteq DOMAIN audio /\ stale \subseteq DOMAIN audio

\* A job that waits has an attempt left; the one the worker has is active, and has spent one.
QueueOK ==
    /\ jobs \in Seq(Job)
    /\ \A n \in DOMAIN jobs : /\ jobs[n].of \in DOMAIN talk /\ jobs[n].left <= 3
                              /\ jobs[n].state = "waiting" => jobs[n].left > 0
    /\ work # AtRest => /\ work \in Busy /\ work.job \in DOMAIN jobs
                        /\ jobs[work.job].state = "active" /\ jobs[work.job].left <= 2

MinutesOK ==
    /\ acta \in Acta \cup {NoActa} /\ pdf \in [DOMAIN pdf -> 1 .. MaxDrafts]
    /\ drafts \in 0 .. MaxDrafts /\ trodden \in BOOLEAN
    /\ acta # NoActa => acta.text \in 1 .. MaxDrafts

RequestsOK ==
    /\ pc \in [Requests -> Pcs] /\ DOMAIN req = Requests
    /\ \A c \in Requests : Fits(pc[c], req[c], DOMAIN talk)
    /\ \A c \in outdated : c \in Requests /\ pc[c] \in {"retry", "edit"} \cup Holding

RestOK ==
    /\ mix \in Mixes /\ policy \in Policies
    /\ meeting \in Statuses /\ teller \in {"hand", "upload", "worker", "acta"}
    /\ retries \in Nat /\ faults \in Nat

Shape == TablesOK /\ QueueOK /\ MinutesOK /\ RequestsOK /\ RestOK

\* A request that nobody wrote past holds the transcription as it is.
CurrentTalk == \A c \in Requests \ outdated :
    pc[c] \in {"retry", "edit"} => req[c].talk = talk[req[c].of]

\* What the worker holds: a text, once the audio may go.
WorkKnows == work # AtRest /\ Of \notin stale =>
    /\ audio[Of].why = "NEVER_STORE" => work.talk.text # "none"
    /\ work.at = "save" => work.talk = [status |-> "COMPLETED", text |-> "heard"]
    /\ work.at \in {"saved", "forget"} => talk[Of].status = "COMPLETED" /\ talk[Of].text # "none"

\* A job of the recording is there, or it was cut.
Kept(i) == \E n \in DOMAIN jobs : jobs[n].of = i /\ jobs[n].state # "gone"

NoForgotten == \A i \in DOMAIN talk :
    i \notin halved /\ i \notin stale /\ talk[i].status \in {"PENDING", "PROCESSING"} =>
        Kept(i) \/ \E c \in Requests : pc[c] = "queue" /\ req[c].of = i

\* The worker says TRANSCRIBING only while something is not transcribed, and takes it back before
\* its job ends well.
Told == meeting = "TRANSCRIBING" /\ teller = "worker"
Transcribing == Told =>
    /\ work.at # "forget"
    /\ \E i \in DOMAIN talk : talk[i].status # "COMPLETED" \/ i \in stale \/ Kept(i)

TalkInv == CurrentTalk /\ WorkKnows /\ Transcribing /\ NoForgotten /\ TextSurvivesAudio

\* A request that nobody wrote past holds the acta as it is, and its PDF when it has stored it.
CurrentActa == \A c \in Requests \ outdated : pc[c] \in Holding => req[c] = acta
Rendered == ~trodden => \A c \in Requests \ outdated : pc[c] = "export" =>
    req[c].version \in DOMAIN pdf /\ pdf[req[c].version] = req[c].text

ActaInv == CurrentActa /\ Rendered /\ PdfIsTheActa

IInv == Shape /\ TalkInv /\ ActaInv

-----------------------------------------------------------------------------
(* Facts.                                                                   *)

LEMMA ActaFact == /\ \A x \in Acta : x # NoActa
                  /\ NoActa.status = "none"
BY DEF Acta, NoActa

LEMMA RestFact == AtRest.at = "rest" /\ \A x \in Busy : x # AtRest /\ x.at # "rest"
BY DEF Busy, AtRest

\* The shape holds the types.
LEMMA ShapeTypes == Shape => TypeOK
<1> SUFFICES ASSUME Shape
             PROVE  TypeOK
  OBVIOUS
<1>1. work.at \in {"rest", "start", "started", "hear", "save", "saved", "forget", "fail"}
      /\ (work # AtRest => work.job \in DOMAIN jobs /\ work.talk \in Talk)
  BY RestFact DEF Shape, QueueOK, Busy
<1>2. \A n \in DOMAIN jobs : jobs[n].of \in DOMAIN talk
  BY DEF Shape, QueueOK
<1>3. outdated \subseteq {c \in Requests : pc[c] # "idle"}
  BY DEF Shape, RequestsOK, Holding
<1>4. {drafts, retries, faults} \subseteq Nat
  BY RecordsAssumption DEF Shape, MinutesOK, RestOK
<1> QED BY <1>1, <1>2, <1>3, <1>4
        DEF TypeOK, Shape, TablesOK, QueueOK, MinutesOK, RequestsOK, RestOK, Pcs

LEMMA GoFact ==
    ASSUME RequestsOK, NEW c \in Requests, NEW next \in Pcs, NEW held, Go(c, next, held)
    PROVE  /\ pc' \in [Requests -> Pcs] /\ DOMAIN req' = Requests
           /\ pc'[c] = next /\ req'[c] = held
           /\ \A d \in Requests \ {c} : pc'[d] = pc[d] /\ req'[d] = req[d]
BY DEF RequestsOK, Go

\* A request moves: the others hold what they held, or more transcriptions are there.
LEMMA MoveFact ==
    ASSUME RequestsOK, NEW c \in Requests, NEW next \in Pcs, NEW held, Go(c, next, held),
           DOMAIN talk \subseteq DOMAIN talk', Fits(next, held, DOMAIN talk'),
           \A d \in outdated' : /\ d \in Requests
                                /\ IF d = c THEN next \in {"retry", "edit"} \cup Holding
                                   ELSE pc[d] \in {"retry", "edit"} \cup Holding
    PROVE  RequestsOK'
<1>1. /\ pc' \in [Requests -> Pcs] /\ DOMAIN req' = Requests /\ pc'[c] = next /\ req'[c] = held
      /\ \A d \in Requests \ {c} : pc'[d] = pc[d] /\ req'[d] = req[d]
  BY GoFact
<1>2. \A d \in Requests : Fits(pc'[d], req'[d], DOMAIN talk')
  <2> TAKE d \in Requests
  <2>1. CASE d = c
    BY <1>1, <2>1
  <2>2. CASE d # c
    BY <1>1, <2>2 DEF RequestsOK, Fits
  <2> QED BY <2>1, <2>2
<1> QED BY <1>1, <1>2 DEF RequestsOK

\* Steps that do not write the acta, nor take it up, nor store its PDF.
LEMMA ActaFrame ==
    ASSUME ActaInv, UNCHANGED <<acta, pdf, trodden>>,
           \A d \in Requests : pc'[d] \in Holding =>
               /\ pc[d] \in Holding /\ (pc'[d] = "export" => pc[d] = "export")
               /\ req'[d] = req[d] /\ (d \in outdated' <=> d \in outdated)
    PROVE  ActaInv'
<1>1. CurrentActa'
  BY DEF ActaInv, CurrentActa
<1>2. Rendered'
  BY DEF ActaInv, Rendered, Holding
<1>3. PdfIsTheActa'
  BY DEF ActaInv, PdfIsTheActa
<1> QED BY <1>1, <1>2, <1>3 DEF ActaInv

\* Steps that do not write a transcription, nor take one up.
LEMMA TalkFrame ==
    ASSUME Shape, TalkInv, UNCHANGED <<talk, jobs, work, halved, stale>>, DOMAIN audio' = DOMAIN audio,
           \A i \in DOMAIN audio : audio'[i].why = "NEVER_STORE" => audio[i].why = "NEVER_STORE",
           \A d \in Requests : pc'[d] \in {"retry", "edit", "queue", "mark"} =>
               pc'[d] = pc[d] /\ req'[d] = req[d] /\ (d \notin outdated' => d \notin outdated),
           \A d \in Requests : pc[d] = "queue" => pc'[d] = "queue",
           Told' => Told
    PROVE  TalkInv'
<1>1. CurrentTalk'
  BY DEF TalkInv, CurrentTalk
<1>2. WorkKnows'
  <2>1. work # AtRest => Of \in DOMAIN audio
    <3>1. DOMAIN talk = DOMAIN audio
      BY DEF Shape, TablesOK
    <3> QED BY <3>1 DEF Shape, QueueOK, Of
  <2> QED BY <2>1 DEF TalkInv, WorkKnows, Of
<1>3. Transcribing'
  BY DEF TalkInv, Transcribing, Kept
<1>4. NoForgotten'
  BY DEF TalkInv, NoForgotten, Kept
<1>5. TextSurvivesAudio'
  BY DEF TalkInv, TextSurvivesAudio
<1> QED BY <1>1, <1>2, <1>3, <1>4, <1>5 DEF TalkInv

-----------------------------------------------------------------------------
(* The acta.                                                                *)

\* Steps of the acta leave the recordings alone.
LEMMA RecordsFrame ==
    ASSUME Shape, UNCHANGED <<mix, policy, audio, talk, jobs, work, halved, stale, retries, faults>>,
           \/ UNCHANGED <<meeting, teller>>
           \/ meeting' \in {"ACTA_DRAFT", "ACTA_APPROVED"} /\ teller' = "acta"
    PROVE  TablesOK' /\ QueueOK' /\ RestOK' /\ DOMAIN talk' = DOMAIN talk
<1>1. UNCHANGED <<mix, policy, audio, talk, jobs, work, halved, stale, retries, faults>>
  OBVIOUS
<1>2. TablesOK' /\ DOMAIN talk' = DOMAIN talk
  BY <1>1 DEF Shape, TablesOK
<1>3. QueueOK'
  BY <1>1 DEF Shape, QueueOK
<1>4. RestOK'
  BY <1>1 DEF Shape, RestOK, Statuses
<1> QED BY <1>2, <1>3, <1>4

LEMMA StartActaStep ==
    ASSUME IInv, NEW c \in Requests, StartActa(c)
    PROVE  IInv'
<1>0. Shape /\ TalkInv /\ ActaInv /\ RequestsOK
  BY DEF IInv, Shape
<1>1. pc[c] = "idle" /\ UNCHANGED <<telling, records, minutes, retries, faults, history>>
  BY DEF StartActa
<1>2. PICK next \in {"draft", "rewrite", "submit", "approve"} :
        /\ Go(c, next, acta)
        /\ next = "draft" => Draftable(acta)
        /\ next # "draft" => acta # NoActa
        /\ next = "rewrite" => Editable(acta.status)
        /\ next = "submit" => Submittable(acta.status)
        /\ next = "approve" => Approvable(acta.status)
  BY DEF StartActa
<1>3. UNCHANGED <<acta, pdf, drafts, trodden, outdated, talk, jobs, work, halved, stale, audio, meeting,
                  teller, mix, policy, retries, faults>>
  BY <1>1 DEF minutes, records, telling, history
<1>4. c \notin outdated
  BY <1>0, <1>1 DEF RequestsOK, Holding
<1>5. MinutesOK /\ MinutesOK'
  BY <1>0, <1>3 DEF Shape, MinutesOK
<1>6. TablesOK' /\ QueueOK' /\ RestOK' /\ DOMAIN talk' = DOMAIN talk
  BY <1>0, <1>3, RecordsFrame
<1>7. Fits(next, acta, DOMAIN talk')
  <2>1. acta # NoActa => acta \in Acta /\ acta.text \in 1 .. MaxDrafts
    BY <1>5 DEF MinutesOK
  <2>2. CASE next = "draft"
    BY <1>2, <2>1, <2>2, ActaFact DEF Fits, Draftable, Approving, Holding, Acta
  <2>3. CASE next = "rewrite"
    BY <1>2, <2>1, <2>3 DEF Fits, Approving, Holding
  <2>4. CASE next = "submit"
    BY <1>2, <2>1, <2>4 DEF Fits, Submittable, Approving, Holding
  <2>5. CASE next = "approve"
    BY <1>2, <2>1, <2>5 DEF Fits, Approvable, Approving, Holding
  <2> QED BY <2>2, <2>3, <2>4, <2>5
<1>8. next \in Pcs
  BY DEF Pcs
<1>9. /\ pc'[c] = next /\ req'[c] = acta
      /\ \A d \in Requests \ {c} : pc'[d] = pc[d] /\ req'[d] = req[d]
  BY <1>0, <1>2, <1>8, GoFact
<1>10. RequestsOK'
  <2>1. \A d \in outdated' : d # c /\ d \in Requests /\ pc[d] \in {"retry", "edit"} \cup Holding
    BY <1>0, <1>3, <1>4 DEF RequestsOK
  <2> QED BY <1>0, <1>2, <1>6, <1>7, <1>8, <2>1, MoveFact
<1>11. TalkInv'
  BY <1>0, <1>1, <1>3, <1>9, TalkFrame DEF Told
<1>12. CurrentActa'
  BY <1>0, <1>3, <1>9 DEF ActaInv, CurrentActa
<1>13. Rendered' /\ PdfIsTheActa'
  <2>1. \A d \in Requests : pc'[d] = "export" => pc[d] = "export" /\ req'[d] = req[d]
    BY <1>9
  <2> QED BY <1>0, <1>3, <2>1 DEF ActaInv, Rendered, PdfIsTheActa
<1> QED BY <1>5, <1>6, <1>10, <1>11, <1>12, <1>13 DEF IInv, Shape, ActaInv

\* Whoever saves the acta over what it read finds it not approved yet, or exports its approval.
LEMMA Fresh ==
    ASSUME IInv, NEW c \in Requests \ outdated, pc[c] \in Holding
    PROVE  /\ req[c] = acta
           /\ IF pc[c] \in Approving THEN acta.status = "APPROVED"
              ELSE acta.status \notin {"APPROVED", "EXPORTED"}
<1>1. req[c] = acta
  BY DEF IInv, ActaInv, CurrentActa
<1>2. Fits(pc[c], req[c], DOMAIN talk)
  BY DEF IInv, Shape, RequestsOK
<1> QED BY <1>1, <1>2, ActaFact DEF Fits, Holding, Approving, Editable

LEMMA SaveActaInv ==
    ASSUME IInv, NEW c \in Requests, pc[c] \in Holding \ {"approved", "told"},
           NEW next \in {"idle", "drafted", "approved", "retain"}, NEW row \in Acta, SaveActa(c, next, row),
           row.text \in 1 .. MaxDrafts, drafts' \in 0 .. MaxDrafts, pdf' = pdf,
           next = "approved" => row.status = "APPROVED",
           c \notin outdated /\ ~trodden /\ row.status = "EXPORTED" =>
               row.pdf = row.version /\ pdf[row.pdf] = row.text
    PROVE  IInv'
<1>0. Shape /\ TalkInv /\ ActaInv /\ RequestsOK
  BY DEF IInv, Shape
<1>1. /\ acta' = row /\ trodden' = (c \in outdated \/ (trodden /\ row.status # "APPROVED"))
      /\ outdated' = (outdated \cup HoldActa) \ {c}
      /\ UNCHANGED <<telling, records, retries, faults, halved, stale>>
      /\ Go(c, next, IF next = "idle" THEN <<>> ELSE row)
  BY DEF SaveActa, WriteActa
<1>2. next \in Pcs
  BY DEF Pcs
<1> DEFINE held == IF next = "idle" THEN <<>> ELSE row
<1> HIDE DEF held
<1>a. Go(c, next, held) /\ (next # "idle" => held = row)
  BY <1>1 DEF held
<1>3. /\ pc'[c] = next /\ req'[c] = held
      /\ \A d \in Requests \ {c} : pc'[d] = pc[d] /\ req'[d] = req[d]
  BY <1>0, <1>a, <1>2, GoFact
<1>b. UNCHANGED <<mix, policy, audio, talk, jobs, work, halved, stale, retries, faults, meeting, teller>>
  BY <1>1 DEF records, telling
<1>4. TablesOK' /\ QueueOK' /\ RestOK' /\ DOMAIN talk' = DOMAIN talk
  BY <1>0, <1>b, RecordsFrame
<1>5. MinutesOK'
  BY <1>0, <1>1 DEF Shape, MinutesOK
<1>6. RequestsOK'
  <2>1. Fits(next, held, DOMAIN talk')
    BY <1>a, ActaFact DEF Fits, Holding, Approving
  <2>2. \A d \in outdated' : d # c /\ d \in Requests /\ pc[d] \in {"retry", "edit"} \cup Holding
    BY <1>0, <1>1 DEF RequestsOK, HoldActa, Holding
  <2> QED BY <1>0, <1>a, <1>2, <1>4, <2>1, <2>2, MoveFact
<1>7. TalkInv'
  <2>2. \A d \in Requests : pc'[d] \in {"retry", "edit", "queue", "mark"} =>
          pc'[d] = pc[d] /\ req'[d] = req[d] /\ (d \notin outdated' => d \notin outdated)
    BY <1>1, <1>3
  <2>3. \A d \in Requests : pc[d] = "queue" => pc'[d] = "queue"
    BY <1>3 DEF Holding
  <2> QED BY <1>0, <1>b, <2>2, <2>3, TalkFrame DEF Told
<1>8. \A d \in Requests : d # c /\ pc'[d] \in Holding => d \in outdated'
  BY <1>1, <1>3 DEF HoldActa, Holding
<1>9. CurrentActa'
  BY <1>1, <1>3, <1>8, <1>a DEF CurrentActa, Holding
<1>10. Rendered'
  BY <1>3, <1>8 DEF Rendered, Holding
<1>11. PdfIsTheActa'
  <2> SUFFICES ASSUME row.status = "EXPORTED", ~trodden'
               PROVE  row.pdf = row.version /\ pdf[row.pdf] = row.text
    BY <1>1 DEF PdfIsTheActa
  <2> QED BY <1>1
<1> QED BY <1>4, <1>5, <1>6, <1>7, <1>9, <1>10, <1>11 DEF IInv, Shape, ActaInv

\* What a request that holds the acta may have read.
LEMMA HeldActa ==
    ASSUME IInv, NEW c \in Requests, pc[c] \in Holding, req[c] # NoActa
    PROVE  /\ req[c] \in Acta /\ req[c].text \in 1 .. MaxDrafts
           /\ req[c].version \in Nat /\ req[c].status \in {"DRAFT", "IN_REVIEW", "APPROVED", "EXPORTED"}
           /\ pc[c] = "draft" => req[c].status = "DRAFT"
           /\ pc[c] = "rewrite" => Editable(req[c].status)
           /\ pc[c] \in Approving => req[c].status = "APPROVED"
<1>1. Fits(pc[c], req[c], DOMAIN talk)
  BY DEF IInv, Shape, RequestsOK
<1>2. req[c] \in Acta
  BY <1>1 DEF Fits
<1>3. req[c].version \in Nat /\ req[c].status \in {"DRAFT", "IN_REVIEW", "APPROVED", "EXPORTED"}
  BY <1>2 DEF Acta
<1> QED BY <1>1, <1>2, <1>3 DEF Fits

LEMMA HeldSome ==
    ASSUME IInv, NEW c \in Requests, pc[c] \in Holding \ {"draft"}
    PROVE  req[c] # NoActa
BY DEF IInv, Shape, RequestsOK, Fits

\* The counter of drafts, and a text it gives.
LEMMA DraftFact ==
    ASSUME IInv
    PROVE  /\ drafts \in 0 .. MaxDrafts /\ MaxDrafts \in Nat
           /\ drafts < MaxDrafts => drafts + 1 \in 1 .. MaxDrafts /\ drafts + 1 \in 0 .. MaxDrafts
BY RecordsAssumption DEF IInv, Shape, MinutesOK

LEMMA SaveSteps ==
    ASSUME IInv, NEW c \in Requests,
           SaveDraft(c) \/ SaveRewrite(c) \/ SaveSubmit(c) \/ SaveApproved(c) \/ Export(c)
    PROVE  IInv'
<1>1. CASE SaveDraft(c)
  <2> DEFINE row == IF req[c] = NoActa
                    THEN [status |-> "DRAFT", version |-> 1, text |-> drafts + 1, pdf |-> 0]
                    ELSE [req[c] EXCEPT !.text = drafts + 1]
  <2>1. pc[c] = "draft" /\ drafts < MaxDrafts /\ drafts' = drafts + 1 /\ UNCHANGED pdf
        /\ SaveActa(c, "drafted", row)
    BY <1>1 DEF SaveDraft
  <2>2. drafts + 1 \in 1 .. MaxDrafts /\ drafts + 1 \in 0 .. MaxDrafts /\ drafts + 1 \in Nat
    BY <2>1, DraftFact
  <2>3. row \in Acta /\ row.text = drafts + 1 /\ row.status = "DRAFT"
    <3>1. CASE req[c] = NoActa
      BY <2>2, <3>1 DEF Acta
    <3>2. CASE req[c] # NoActa
      <4>1. req[c] \in Acta /\ req[c].status = "DRAFT"
        BY <2>1, <3>2, HeldActa DEF Holding
      <4>2. row = [req[c] EXCEPT !.text = drafts + 1]
        BY <3>2
      <4> HIDE DEF row
      <4>3. row \in Acta
        BY <2>2, <4>1, <4>2 DEF Acta
      <4>4. row.text = drafts + 1 /\ row.status = req[c].status
        BY <4>1, <4>2 DEF Acta
      <4> QED BY <4>1, <4>3, <4>4
    <3> QED BY <3>1, <3>2
  <2> HIDE DEF row
  <2> QED BY <2>1, <2>2, <2>3, SaveActaInv DEF Holding
<1>2. CASE SaveRewrite(c)
  <2> DEFINE row == [req[c] EXCEPT !.version = @ + 1, !.text = drafts + 1]
  <2>1. pc[c] = "rewrite" /\ drafts < MaxDrafts /\ drafts' = drafts + 1 /\ UNCHANGED pdf
        /\ SaveActa(c, "idle", row)
    BY <1>2 DEF SaveRewrite
  <2>2. drafts + 1 \in 1 .. MaxDrafts /\ drafts + 1 \in 0 .. MaxDrafts /\ drafts + 1 \in Nat
    BY <2>1, DraftFact
  <2>3. req[c] \in Acta /\ Editable(req[c].status) /\ req[c].version \in Nat
    BY <2>1, HeldActa, HeldSome DEF Holding
  <2>4. row \in Acta /\ row.text = drafts + 1 /\ row.status = req[c].status
    <3> DEFINE next == req[c].version + 1
               text == drafts + 1
    <3>1. next \in Nat /\ text \in Nat /\ row = [req[c] EXCEPT !.version = next, !.text = text]
      BY <2>2, <2>3 DEF Acta
    <3> HIDE DEF row, next, text
    <3>2. row \in Acta
      BY <2>3, <3>1 DEF Acta
    <3>3. row.text = text /\ row.status = req[c].status
      BY <2>3, <3>1 DEF Acta
    <3> QED BY <3>2, <3>3 DEF text
  <2> HIDE DEF row
  <2>5. row.status # "EXPORTED"
    BY <2>3, <2>4 DEF Editable
  <2> QED BY <2>1, <2>2, <2>4, <2>5, SaveActaInv DEF Holding
<1>3. CASE SaveSubmit(c)
  <2> DEFINE row == [req[c] EXCEPT !.status = "IN_REVIEW"]
  <2>1. pc[c] = "submit" /\ UNCHANGED <<pdf, drafts>> /\ SaveActa(c, "idle", row)
    BY <1>3 DEF SaveSubmit
  <2>2. req[c] \in Acta /\ req[c].text \in 1 .. MaxDrafts
    BY <2>1, HeldActa, HeldSome DEF Holding
  <2>3. row \in Acta /\ row.text = req[c].text /\ row.status = "IN_REVIEW"
    BY <2>2 DEF Acta
  <2> HIDE DEF row
  <2> QED BY <2>1, <2>2, <2>3, DraftFact, SaveActaInv DEF Holding
<1>4. CASE SaveApproved(c)
  <2> DEFINE row == [req[c] EXCEPT !.status = "APPROVED"]
  <2>1. pc[c] = "approve" /\ UNCHANGED <<pdf, drafts>> /\ SaveActa(c, "approved", row)
    BY <1>4 DEF SaveApproved
  <2>2. req[c] \in Acta /\ req[c].text \in 1 .. MaxDrafts
    BY <2>1, HeldActa, HeldSome DEF Holding
  <2>3. row \in Acta /\ row.text = req[c].text /\ row.status = "APPROVED"
    BY <2>2 DEF Acta
  <2> HIDE DEF row
  <2> QED BY <2>1, <2>2, <2>3, DraftFact, SaveActaInv DEF Holding
<1>5. CASE Export(c)
  <2> DEFINE row == [req[c] EXCEPT !.status = "EXPORTED", !.pdf = req[c].version]
  <2>1. pc[c] = "export" /\ UNCHANGED <<pdf, drafts>> /\ SaveActa(c, "retain", row)
    BY <1>5 DEF Export
  <2>2. req[c] \in Acta /\ req[c].text \in 1 .. MaxDrafts /\ req[c].version \in Nat
    BY <2>1, HeldActa, HeldSome DEF Holding
  <2>3. /\ row \in Acta /\ row.text = req[c].text /\ row.status = "EXPORTED"
        /\ row.pdf = req[c].version /\ row.version = req[c].version
    BY <2>2 DEF Acta
  <2>4. c \notin outdated /\ ~trodden => pdf[row.pdf] = row.text
    <3> HIDE DEF row
    <3> QED BY <2>1, <2>3 DEF IInv, ActaInv, Rendered
  <2> HIDE DEF row
  <2> QED BY <2>1, <2>2, <2>3, <2>4, DraftFact, SaveActaInv DEF Holding
<1> QED BY <1>1, <1>2, <1>3, <1>4, <1>5

\* A request that approves goes on with the row it saved: it tells the meeting, then stores the PDF.
LEMMA ApproveSteps ==
    ASSUME IInv, NEW c \in Requests, TellApproved(c) \/ StorePdf(c)
    PROVE  IInv'
<1>0. Shape /\ TalkInv /\ ActaInv /\ RequestsOK
  BY DEF IInv, Shape
<1>1. PICK next \in {"told", "export"} :
        /\ pc' = [pc EXCEPT ![c] = next] /\ UNCHANGED <<req, outdated, acta, drafts>>
        /\ UNCHANGED <<mix, policy, audio, talk, jobs, work, halved, stale, retries, faults>>
        /\ next = "told" => /\ TellApproved(c) /\ pc[c] = "approved" /\ UNCHANGED <<pdf, trodden>>
                            /\ meeting' = "ACTA_APPROVED" /\ teller' = "acta"
        /\ next = "export" => StorePdf(c) /\ pc[c] = "told" /\ UNCHANGED <<meeting, teller>>
  <2>1. CASE TellApproved(c)
    BY <2>1 DEF TellApproved, Tell, Step, records, minutes, history
  <2>2. CASE StorePdf(c)
    BY <2>2 DEF StorePdf, Step, records, telling, history
  <2> QED BY <2>1, <2>2
<1>2. /\ pc' \in [Requests -> Pcs] /\ pc'[c] = next /\ pc[c] \in {"approved", "told"}
      /\ \A d \in Requests \ {c} : pc'[d] = pc[d]
  BY <1>0, <1>1 DEF RequestsOK, Pcs
<1>3. req[c] \in Acta /\ req[c].text \in 1 .. MaxDrafts /\ req[c].status = "APPROVED" /\ req[c] # NoActa
  BY <1>2, HeldActa, HeldSome DEF Holding, Approving
<1>4. TablesOK' /\ QueueOK' /\ RestOK' /\ DOMAIN talk' = DOMAIN talk
  BY <1>0, <1>1, RecordsFrame
<1>5. next = "export" =>
        /\ pdf' = [w \in DOMAIN pdf \cup {req[c].version} |->
                     IF w = req[c].version THEN req[c].text ELSE pdf[w]]
        /\ trodden' = (trodden \/ c \in outdated)
  BY <1>1 DEF StorePdf
<1>6. MinutesOK'
  <2>1. CASE next = "told"
    BY <1>0, <1>1, <2>1 DEF Shape, MinutesOK
  <2>2. CASE next = "export"
    <3>1. pdf' \in [DOMAIN pdf' -> 1 .. MaxDrafts]
      BY <1>0, <1>3, <1>5, <2>2 DEF Shape, MinutesOK
    <3>2. trodden' \in BOOLEAN
      BY <1>5, <2>2
    <3> QED BY <1>0, <1>1, <3>1, <3>2 DEF Shape, MinutesOK
  <2> QED BY <2>1, <2>2
<1>7. RequestsOK'
  <2>1. Fits(next, req[c], DOMAIN talk)
    BY <1>3, ActaFact DEF Fits, Holding, Approving
  <2>2. \A d \in Requests : Fits(pc'[d], req[d], DOMAIN talk)
    <3> TAKE d \in Requests
    <3>1. CASE d = c
      BY <1>2, <2>1, <3>1
    <3>2. CASE d # c
      BY <1>0, <1>2, <3>2 DEF RequestsOK
    <3> QED BY <3>1, <3>2
  <2>3. \A d \in outdated : d \in Requests /\ pc'[d] \in {"retry", "edit"} \cup Holding
    BY <1>0, <1>2 DEF RequestsOK, Holding
  <2> QED BY <1>0, <1>1, <1>2, <2>2, <2>3 DEF RequestsOK
<1>8. TalkInv'
  <2>1. Told' => Told
    BY <1>1 DEF Told
  <2> QED BY <1>0, <1>1, <1>2, <2>1, TalkFrame
<1>9. CASE next = "told"
  <2>1. ActaInv'
    BY <1>0, <1>1, <1>2, <1>9, ActaFrame DEF Holding
  <2> QED BY <1>4, <1>6, <1>7, <1>8, <2>1 DEF IInv, Shape
<1>10. CASE next = "export"
  <2>1. CurrentActa'
    BY <1>0, <1>1, <1>2 DEF ActaInv, CurrentActa, Holding
  <2>2. ASSUME ~trodden'
        PROVE  /\ ~trodden /\ c \notin outdated /\ acta = req[c]
               /\ \A d \in Requests \ outdated : pc'[d] = "export" => req[d] = req[c]
    <3>1. ~trodden /\ c \notin outdated
      BY <1>5, <1>10, <2>2
    <3>2. \A d \in Requests \ outdated : pc'[d] = "export" => req[d] = acta
      BY <1>0, <1>1, <1>2, <3>1 DEF ActaInv, CurrentActa, Holding
    <3> QED BY <1>2, <1>10, <3>1, <3>2
  <2>3. Rendered'
    BY <1>1, <1>5, <1>10, <2>2 DEF Rendered
  <2>4. PdfIsTheActa'
    BY <1>1, <1>3, <2>2 DEF PdfIsTheActa
  <2> QED BY <1>4, <1>6, <1>7, <1>8, <2>1, <2>3, <2>4 DEF IInv, Shape, ActaInv
<1> QED BY <1>9, <1>10

\* deleteAudioFile: a recording loses its file, or is marked, for the reason given, or stays.
LEMMA DeleteFact ==
    ASSUME TablesOK, NEW ids \in SUBSET DOMAIN audio,
           NEW why \in {"NEVER_STORE", "AFTER_APPROVAL", "AFTER_DAYS", "MANUAL"},
           DeleteAll(ids, why), faults \in Nat
    PROVE  /\ audio' \in Seq(Audio) /\ Len(audio') = Len(audio) /\ DOMAIN audio' = DOMAIN audio
           /\ \A i \in DOMAIN audio : audio'[i].why \in {audio[i].why, why}
           /\ \A i \in DOMAIN audio \ ids : audio'[i] = audio[i]
           /\ faults' \in Nat
<1>1. DOMAIN audio = 1 .. Len(audio) /\ Len(audio) \in Nat /\ \A i \in DOMAIN audio : audio[i] \in Audio
  BY DEF TablesOK
<1> DEFINE gone == [file |-> FALSE, why |-> why]
<1>2. gone \in Audio /\ gone.why = why
  BY DEF Audio
<1> HIDE DEF gone
<1>3. \A i \in DOMAIN audio : /\ Forgotten(audio[i], why) \in Audio
                              /\ Forgotten(audio[i], why).why \in {audio[i].why, why}
  BY <1>1, <1>2 DEF Forgotten, gone
<1>4. \A i \in DOMAIN audio : \A x \in Spoilt(audio[i], why) : x.why \in {audio[i].why, why}
  BY <1>1 DEF Spoilt, Audio
<1>5. CASE /\ audio' = [i \in DOMAIN audio |-> IF i \in ids THEN Forgotten(audio[i], why) ELSE audio[i]]
           /\ UNCHANGED faults
  <2>1. /\ DOMAIN audio' = DOMAIN audio /\ \A i \in DOMAIN audio \ ids : audio'[i] = audio[i]
        /\ \A i \in DOMAIN audio : audio'[i] \in Audio /\ audio'[i].why \in {audio[i].why, why}
    BY <1>1, <1>3, <1>5
  <2>2. audio' \in [1 .. Len(audio) -> Audio]
    BY <1>1, <1>3, <1>5
  <2> QED BY <1>1, <1>5, <2>1, <2>2
<1>6. CASE /\ audio' \in [DOMAIN audio -> Audio] /\ faults' = faults + 1
           /\ \A i \in DOMAIN audio :
                 audio'[i] \in (IF i \in ids THEN Spoilt(audio[i], why) \cup {Forgotten(audio[i], why)} ELSE {audio[i]})
  <2>1. \A i \in DOMAIN audio : audio'[i].why \in {audio[i].why, why}
    BY <1>3, <1>4, <1>6
  <2>2. \A i \in DOMAIN audio \ ids : audio'[i] = audio[i]
    BY <1>6
  <2> QED BY <1>1, <1>6, <2>1, <2>2
<1> QED BY <1>5, <1>6 DEF DeleteAll

\* The request is done with the acta.
LEMMA LeaveSteps ==
    ASSUME IInv, NEW c \in Requests, TellDraft(c) \/ Retain(c)
    PROVE  IInv'
<1>0. Shape /\ TalkInv /\ ActaInv /\ RequestsOK /\ TablesOK /\ RestOK
  BY DEF IInv, Shape
<1>1. /\ pc[c] \in {"drafted", "retain"} /\ Go(c, "idle", <<>>) /\ outdated' = outdated \ {c}
      /\ UNCHANGED <<acta, pdf, drafts, trodden, mix, policy, talk, jobs, work, halved, stale, retries>>
      /\ \/ UNCHANGED <<meeting, teller>>
         \/ meeting' = "ACTA_DRAFT" /\ teller' = "acta"
  <2>1. CASE TellDraft(c)
    BY <2>1 DEF TellDraft, Done, Tell, records, minutes
  <2>2. CASE Retain(c)
    BY <2>2 DEF Retain, Done, minutes, telling
  <2> QED BY <2>1, <2>2
<1>2. /\ audio' \in Seq(Audio) /\ Len(audio') = Len(audio) /\ DOMAIN audio' = DOMAIN audio
      /\ \A i \in DOMAIN audio : audio'[i].why = "NEVER_STORE" => audio[i].why = "NEVER_STORE"
      /\ faults' \in Nat
  <2>1. CASE TellDraft(c)
    BY <1>0, <2>1 DEF TellDraft, records, TablesOK, RestOK
  <2>2. CASE Retain(c)
    <3>1. PICK ids \in SUBSET DOMAIN audio : DeleteAll(ids, "AFTER_APPROVAL")
      BY <2>2 DEF Retain
    <3> QED BY <1>0, <3>1, DeleteFact DEF RestOK
  <2> QED BY <2>1, <2>2
<1>3. /\ pc'[c] = "idle" /\ \A d \in Requests \ {c} : pc'[d] = pc[d] /\ req'[d] = req[d]
  BY <1>0, <1>1, GoFact DEF Pcs
<1>4. TablesOK'
  BY <1>0, <1>1, <1>2 DEF TablesOK
<1>5. QueueOK' /\ RestOK' /\ MinutesOK'
  BY <1>0, <1>1, <1>2 DEF Shape, QueueOK, RestOK, MinutesOK, Statuses
<1>6. RequestsOK'
  <2>1. Fits("idle", <<>>, DOMAIN talk') /\ "idle" \in Pcs
    BY DEF Fits, Holding, Approving, Pcs
  <2>2. \A d \in outdated' : d # c /\ d \in Requests /\ pc[d] \in {"retry", "edit"} \cup Holding
    BY <1>0, <1>1 DEF RequestsOK
  <2> QED BY <1>0, <1>1, <2>1, <2>2, MoveFact
<1>7. TalkInv'
  <2>1. \A d \in Requests : pc'[d] \in {"retry", "edit", "queue", "mark"} =>
          pc'[d] = pc[d] /\ req'[d] = req[d] /\ (d \notin outdated' => d \notin outdated)
    BY <1>1, <1>3
  <2>2. \A d \in Requests : pc[d] = "queue" => pc'[d] = "queue"
    BY <1>1, <1>3
  <2>3. Told' => Told
    BY <1>1 DEF Told
  <2> QED BY <1>0, <1>1, <1>2, <2>1, <2>2, <2>3, TalkFrame
<1>8. ActaInv'
  BY <1>0, <1>1, <1>3, ActaFrame DEF Holding
<1> QED BY <1>4, <1>5, <1>6, <1>7, <1>8 DEF IInv, Shape

-----------------------------------------------------------------------------
(* The requests about recordings.                                           *)

\* The recordings, their texts and their jobs go by the same numbers.
LEMMA TableFact ==
    ASSUME Shape
    PROVE  /\ DOMAIN talk = 1 .. Len(talk) /\ DOMAIN audio = DOMAIN talk /\ Len(talk) \in Nat
           /\ Len(audio) = Len(talk) /\ halved \subseteq DOMAIN talk /\ stale \subseteq DOMAIN talk
           /\ \A i \in DOMAIN talk : talk[i] \in Talk /\ audio[i] \in Audio
           /\ \A n \in DOMAIN jobs : jobs[n] \in Job /\ jobs[n].of \in DOMAIN talk
           /\ work # AtRest => /\ work.job \in DOMAIN jobs /\ Of \in DOMAIN talk /\ work.talk \in Talk
                               /\ jobs[work.job].state # "gone" /\ jobs[work.job].left < 3
<1>1. audio \in Seq(Audio) /\ talk \in Seq(Talk) /\ Len(talk) = Len(audio) /\ jobs \in Seq(Job)
      /\ halved \subseteq DOMAIN audio /\ stale \subseteq DOMAIN audio
  BY DEF Shape, TablesOK, QueueOK
<1>2. \A n \in DOMAIN jobs : jobs[n] \in Job /\ jobs[n].of \in DOMAIN talk
  BY <1>1 DEF Shape, QueueOK
<1>3. work # AtRest => /\ work.job \in DOMAIN jobs /\ Of \in DOMAIN talk /\ work.talk \in Talk
                       /\ jobs[work.job].state # "gone" /\ jobs[work.job].left < 3
  <2> SUFFICES ASSUME work # AtRest
               PROVE  /\ work.job \in DOMAIN jobs /\ Of \in DOMAIN talk /\ work.talk \in Talk
                      /\ jobs[work.job].state # "gone" /\ jobs[work.job].left < 3
    OBVIOUS
  <2>1. /\ work \in Busy /\ work.job \in DOMAIN jobs
        /\ jobs[work.job].state = "active" /\ jobs[work.job].left <= 2
    BY DEF Shape, QueueOK
  <2>2. jobs[work.job] \in Job
    BY <1>2, <2>1
  <2>3. jobs[work.job].left < 3
    BY <2>1, <2>2 DEF Job
  <2> QED BY <1>2, <2>1, <2>3 DEF Of, Busy
<1> QED BY <1>1, <1>2, <1>3

LEMMA UploadStep ==
    ASSUME IInv, NEW c \in Requests, Upload(c)
    PROVE  IInv'
<1>0. Shape /\ TalkInv /\ ActaInv /\ RequestsOK
  BY DEF IInv, Shape
<1> DEFINE id == Len(audio) + 1
           held == [op |-> "upload", of |-> id]
           file == [file |-> TRUE, why |-> "kept"]
           text == [status |-> "PENDING", text |-> "none"]
<1>1. /\ pc[c] = "idle" /\ audio' = Append(audio, file) /\ talk' = Append(talk, text)
      /\ Go(c, "queue", held)
      /\ UNCHANGED <<acta, pdf, drafts, trodden, mix, policy, jobs, work, halved, stale, retries, faults,
                     outdated, meeting, teller>>
  BY DEF Upload, telling, minutes, history
<1>2. /\ audio' \in Seq(Audio) /\ talk' \in Seq(Talk) /\ Len(talk') = id /\ Len(audio') = id
      /\ DOMAIN talk' = DOMAIN talk \cup {id} /\ DOMAIN audio' = DOMAIN talk' /\ id \notin DOMAIN talk
      /\ talk'[id] = text /\ audio'[id] = file
      /\ \A i \in DOMAIN talk : talk'[i] = talk[i] /\ audio'[i] = audio[i]
  <2>1. file \in Audio /\ text \in Talk
    BY DEF Audio, Talk
  <2>2. audio \in Seq(Audio) /\ talk \in Seq(Talk) /\ Len(talk) = Len(audio)
    BY <1>0 DEF Shape, TablesOK
  <2> HIDE DEF file, text
  <2> QED BY <1>1, <2>1, <2>2
<1>3. /\ pc'[c] = "queue" /\ req'[c] = held
      /\ \A d \in Requests \ {c} : pc'[d] = pc[d] /\ req'[d] = req[d]
  BY <1>0, <1>1, GoFact DEF Pcs
<1>4. TablesOK'
  BY <1>0, <1>1, <1>2, TableFact DEF TablesOK
<1>5. QueueOK' /\ MinutesOK' /\ RestOK'
  <2>1. QueueOK'
    BY <1>0, <1>1, <1>2 DEF Shape, QueueOK
  <2>2. MinutesOK' /\ RestOK'
    BY <1>0, <1>1 DEF Shape, MinutesOK, RestOK
  <2> QED BY <2>1, <2>2
<1>6. RequestsOK'
  <2>1. Fits("queue", held, DOMAIN talk') /\ "queue" \in Pcs
    BY <1>2 DEF Fits, Holding, Approving, Pcs
  <2>2. \A d \in outdated' : d # c /\ d \in Requests /\ pc[d] \in {"retry", "edit"} \cup Holding
    BY <1>0, <1>1 DEF RequestsOK, Holding
  <2> QED BY <1>0, <1>1, <1>2, <2>1, <2>2, MoveFact
<1>7. \A d \in Requests : pc[d] \in {"queue", "mark", "retry", "edit"} => req[d].of \in DOMAIN talk
  BY <1>0 DEF RequestsOK, Fits
<1>8. CurrentTalk'
  BY <1>0, <1>1, <1>2, <1>3, <1>7 DEF TalkInv, CurrentTalk
<1>9. WorkKnows'
  BY <1>0, <1>1, <1>2, TableFact DEF TalkInv, WorkKnows, Of
<1>11. Transcribing'
  BY <1>0, <1>1, <1>2 DEF TalkInv, Transcribing, Told, Kept
<1>12. NoForgotten'
  <2> SUFFICES ASSUME NEW i \in DOMAIN talk', i \notin halved, i \notin stale,
                      talk'[i].status \in {"PENDING", "PROCESSING"}
               PROVE  Kept(i)' \/ \E d \in Requests : pc'[d] = "queue" /\ req'[d].of = i
    BY <1>1 DEF NoForgotten
  <2>1. CASE i = id
    BY <1>3, <2>1
  <2>2. CASE i # id
    <3>1. Kept(i) \/ \E d \in Requests : pc[d] = "queue" /\ req[d].of = i
      BY <1>0, <1>1, <1>2, <2>2 DEF TalkInv, NoForgotten
    <3> QED BY <1>1, <1>3, <3>1 DEF Kept
  <2> QED BY <2>1, <2>2
<1>13. TextSurvivesAudio'
  BY <1>0, <1>1, <1>2, TableFact DEF TalkInv, TextSurvivesAudio
<1>14. ActaInv'
  BY <1>0, <1>1, <1>3, ActaFrame DEF Holding
<1> QED BY <1>4, <1>5, <1>6, <1>8, <1>9, <1>11, <1>12, <1>13, <1>14 DEF IInv, Shape, TalkInv

LEMMA StartSteps ==
    ASSUME IInv, NEW c \in Requests, StartRetry(c) \/ StartEdit(c)
    PROVE  IInv'
<1>0. Shape /\ TalkInv /\ ActaInv /\ RequestsOK
  BY DEF IInv, Shape
<1>1. PICK i \in DOMAIN talk, next \in {"retry", "edit"} :
        /\ Go(c, next, [op |-> next, of |-> i, talk |-> talk[i]])
        /\ next = "retry" => talk[i].status = "FAILED"
  BY DEF StartRetry, StartEdit, Retriable
<1> DEFINE held == [op |-> next, of |-> i, talk |-> talk[i]]
<1>2. /\ pc[c] = "idle" /\ retries' \in {retries, retries + 1}
      /\ UNCHANGED <<acta, pdf, drafts, trodden, mix, policy, audio, talk, jobs, work, halved, stale,
                     faults, outdated, meeting, teller>>
  BY DEF StartRetry, StartEdit, telling, minutes, records, history
<1>3. held.of = i /\ held.talk = talk[i] /\ talk[i] \in Talk /\ next \in Pcs /\ Go(c, next, held)
  BY <1>0, <1>1, TableFact DEF Pcs
<1> HIDE DEF held
<1>4. /\ pc'[c] = next /\ req'[c] = held
      /\ \A d \in Requests \ {c} : pc'[d] = pc[d] /\ req'[d] = req[d]
  BY <1>0, <1>3, GoFact
<1>5. TablesOK' /\ QueueOK' /\ MinutesOK' /\ RestOK'
  BY <1>0, <1>2 DEF Shape, TablesOK, QueueOK, MinutesOK, RestOK
<1>6. RequestsOK'
  <2>1. Fits(next, held, DOMAIN talk')
    BY <1>1, <1>2, <1>3 DEF Fits, Holding, Approving
  <2>2. \A d \in outdated' : d # c /\ d \in Requests /\ pc[d] \in {"retry", "edit"} \cup Holding
    BY <1>0, <1>2 DEF RequestsOK, Holding
  <2> QED BY <1>0, <1>2, <1>3, <2>1, <2>2, MoveFact
<1>7. CurrentTalk'
  BY <1>0, <1>2, <1>3, <1>4 DEF TalkInv, CurrentTalk
<1>8. WorkKnows' /\ Transcribing' /\ TextSurvivesAudio'
  BY <1>0, <1>2 DEF TalkInv, WorkKnows, Of, Transcribing, Told, Kept, TextSurvivesAudio
<1>9. NoForgotten'
  BY <1>0, <1>2, <1>4 DEF TalkInv, NoForgotten, Kept
<1>10. ActaInv'
  BY <1>0, <1>2, <1>4, ActaFrame DEF Holding
<1> QED BY <1>5, <1>6, <1>7, <1>8, <1>9, <1>10 DEF IInv, Shape, TalkInv

\* A request saves the transcription it holds: over the one it read, or the row is stale.
LEMMA SaveTalkSteps ==
    ASSUME IInv, NEW c \in Requests, SaveRetry(c) \/ SaveEdit(c)
    PROVE  IInv'
<1>0. Shape /\ TalkInv /\ ActaInv /\ RequestsOK
  BY DEF IInv, Shape
<1> DEFINE i == req[c].of
           old == req[c].talk
<1>1. PICK next, held, row :
        /\ next \in {"queue", "idle"}
        /\ Go(c, next, held)
        /\ next = "queue" => pc[c] = "retry" /\ held = [op |-> "retry", of |-> i]
                             /\ row = [old EXCEPT !.status = "PENDING"]
        /\ next = "idle" => pc[c] = "edit" /\ row = [old EXCEPT !.text = "edited"]
        /\ talk' = [talk EXCEPT ![i] = row]
  BY DEF SaveRetry, SaveEdit, WriteTalk
<1>2. /\ stale' = IF c \in outdated THEN stale \cup {i} ELSE stale
      /\ outdated' = (outdated \cup HoldTalk(i)) \ {c}
      /\ UNCHANGED <<acta, pdf, drafts, trodden, mix, policy, audio, jobs, work, halved, retries, faults,
                     meeting, teller>>
  BY DEF SaveRetry, SaveEdit, WriteTalk, telling, minutes
<1>3. /\ i \in DOMAIN talk /\ old \in Talk /\ pc[c] \in {"retry", "edit"}
      /\ pc[c] = "retry" => old.status = "FAILED"
  BY <1>0, <1>1 DEF RequestsOK, Fits
<1>4. /\ row \in Talk /\ next \in {"queue", "idle"}
      /\ next = "queue" => row.status = "PENDING" /\ row.text = old.text
      /\ next = "idle" => row.status = old.status /\ row.text = "edited"
  <2>1. CASE next = "queue"
    BY <1>1, <1>3, <2>1 DEF Talk
  <2>2. CASE next = "idle"
    BY <1>1, <1>3, <2>2 DEF Talk
  <2> QED BY <1>1, <2>1, <2>2
<1>5. /\ talk' \in Seq(Talk) /\ Len(talk') = Len(talk) /\ DOMAIN talk' = DOMAIN talk
      /\ talk'[i] = row /\ \A j \in DOMAIN talk \ {i} : talk'[j] = talk[j]
  BY <1>0, <1>1, <1>3, <1>4 DEF Shape, TablesOK
<1>6. c \notin outdated => talk[i] = old
  BY <1>0, <1>3 DEF TalkInv, CurrentTalk
<1>7. /\ pc'[c] = next /\ req'[c] = held /\ next \in {"queue", "idle"}
      /\ \A d \in Requests \ {c} : pc'[d] = pc[d] /\ req'[d] = req[d]
  BY <1>0, <1>1, GoFact DEF Pcs
<1>8. \A j : j \notin stale' => j \notin stale /\ (j = i => c \notin outdated)
  BY <1>2
<1> HIDE DEF i, old
<1>9. TablesOK'
  BY <1>0, <1>2, <1>3, <1>5, TableFact DEF Shape, TablesOK
<1>10. QueueOK' /\ MinutesOK' /\ RestOK'
  BY <1>0, <1>2, <1>5 DEF Shape, QueueOK, MinutesOK, RestOK
<1>11. RequestsOK'
  <2>1. Fits(next, held, DOMAIN talk') /\ next \in Pcs
    BY <1>1, <1>3, <1>5 DEF Fits, Holding, Approving, Pcs
  <2>2. \A d \in outdated' : d # c /\ d \in Requests /\ pc[d] \in {"retry", "edit"} \cup Holding
    BY <1>0, <1>2 DEF RequestsOK, HoldTalk
  <2> QED BY <1>0, <1>1, <1>5, <2>1, <2>2, MoveFact
<1>12. CurrentTalk'
  <2> SUFFICES ASSUME NEW d \in Requests, d \notin outdated', pc'[d] \in {"retry", "edit"}
               PROVE  req'[d].talk = talk'[req'[d].of]
    BY DEF CurrentTalk
  <2>1. d # c /\ pc[d] = pc'[d] /\ req'[d] = req[d]
    BY <1>7
  <2>2. d \notin outdated /\ req[d].of # i
    BY <1>2, <2>1 DEF HoldTalk
  <2>3. req[d].of \in DOMAIN talk /\ req[d].talk = talk[req[d].of]
    BY <1>0, <2>1, <2>2 DEF TalkInv, CurrentTalk, RequestsOK, Fits
  <2> QED BY <1>5, <2>1, <2>2, <2>3
<1>13. WorkKnows'
  <2> SUFFICES ASSUME work # AtRest, Of \notin stale'
               PROVE  /\ audio[Of].why = "NEVER_STORE" => work.talk.text # "none"
                      /\ work.at = "save" => work.talk = [status |-> "COMPLETED", text |-> "heard"]
                      /\ work.at \in {"saved", "forget"} => talk'[Of].status = "COMPLETED" /\ talk'[Of].text # "none"
    BY <1>2 DEF WorkKnows, Of
  <2>1. /\ audio[Of].why = "NEVER_STORE" => work.talk.text # "none"
        /\ work.at = "save" => work.talk = [status |-> "COMPLETED", text |-> "heard"]
        /\ work.at \in {"saved", "forget"} => talk[Of].status = "COMPLETED" /\ talk[Of].text # "none"
    BY <1>0, <1>8 DEF TalkInv, WorkKnows
  <2>2. Of \in DOMAIN talk
    BY <1>0, TableFact
  <2>3. CASE Of # i
    BY <1>5, <2>1, <2>2, <2>3
  <2>4. CASE Of = i
    <3>1. talk[i] = old /\ talk'[i] = row
      BY <1>5, <1>6, <1>8, <2>4
    <3>2. work.at \in {"saved", "forget"} => next = "idle"
      BY <1>1, <1>3, <2>1, <2>4, <3>1
    <3> QED BY <1>4, <2>1, <2>4, <3>1, <3>2
  <2> QED BY <2>3, <2>4
<1>14. Transcribing'
  <2> SUFFICES ASSUME Told
               PROVE  /\ work.at # "forget"
                      /\ \E j \in DOMAIN talk' : talk'[j].status # "COMPLETED" \/ j \in stale' \/ Kept(j)
    BY <1>2 DEF Transcribing, Told, Kept
  <2>1. PICK j \in DOMAIN talk : talk[j].status # "COMPLETED" \/ j \in stale \/ Kept(j)
    BY <1>0 DEF TalkInv, Transcribing
  <2>2. talk[j].status # "COMPLETED" => talk'[j].status # "COMPLETED" \/ j \in stale'
    BY <1>2, <1>4, <1>5, <1>6
  <2>3. work.at # "forget"
    BY <1>0 DEF TalkInv, Transcribing
  <2> QED BY <1>2, <1>5, <2>1, <2>2, <2>3
<1>15. NoForgotten'
  <2> SUFFICES ASSUME NEW j \in DOMAIN talk, j \notin halved, j \notin stale',
                      talk'[j].status \in {"PENDING", "PROCESSING"}
               PROVE  Kept(j) \/ \E d \in Requests : pc'[d] = "queue" /\ req'[d].of = j
    BY <1>2, <1>5 DEF NoForgotten, Kept
  <2>1. CASE j = i /\ next = "queue"
    BY <1>1, <1>7, <2>1
  <2>2. CASE ~(j = i /\ next = "queue")
    <3>1. talk[j].status = talk'[j].status /\ j \notin stale
      BY <1>4, <1>5, <1>6, <1>8, <2>2
    <3>2. Kept(j) \/ \E d \in Requests : pc[d] = "queue" /\ req[d].of = j
      BY <1>0, <3>1 DEF TalkInv, NoForgotten
    <3> QED BY <1>3, <1>7, <3>2
  <2> QED BY <2>1, <2>2
<1>16. TextSurvivesAudio'
  <2> SUFFICES ASSUME NEW j \in DOMAIN audio, j \notin stale', audio[j].why = "NEVER_STORE"
               PROVE  talk'[j].text # "none"
    BY <1>2 DEF TextSurvivesAudio
  <2>1. talk[j].text # "none" /\ j \in DOMAIN talk
    BY <1>0, <1>8, TableFact DEF TalkInv, TextSurvivesAudio
  <2> QED BY <1>4, <1>5, <1>6, <1>8, <2>1
<1>17. ActaInv'
  <2>1. \A d \in Requests : pc'[d] \in Holding =>
          pc'[d] = pc[d] /\ req'[d] = req[d] /\ (d \in outdated' <=> d \in outdated)
    BY <1>2, <1>7 DEF Holding, HoldTalk
  <2> QED BY <1>0, <1>2, <2>1, ActaFrame
<1> QED BY <1>9, <1>10, <1>11, <1>12, <1>13, <1>14, <1>15, <1>16, <1>17 DEF IInv, Shape, TalkInv

\* A transcription that says it waits has a job, or a request about to add it.
LEMMA EnqueueStep ==
    ASSUME IInv, NEW c \in Requests, Enqueue(c)
    PROVE  IInv'
<1>0. Shape /\ TalkInv /\ ActaInv /\ RequestsOK
  BY DEF IInv, Shape
<1> DEFINE i == req[c].of
           new == [of |-> i, left |-> Attempts(req[c].op), stalled |-> FALSE, state |-> "waiting"]
<1>1. /\ pc[c] = "queue" /\ jobs' = Append(jobs, new)
      /\ UNCHANGED <<acta, pdf, drafts, trodden, mix, policy, audio, talk, work, halved, stale, retries,
                     faults, outdated, meeting, teller>>
  BY DEF Enqueue, telling, minutes, history
<1>2. i \in DOMAIN talk /\ req[c].op \in {"upload", "retry"} /\ c \notin outdated
  BY <1>0, <1>1 DEF RequestsOK, Fits, Holding
<1>3. /\ \A d \in Requests \ {c} : pc'[d] = pc[d] /\ req'[d] = req[d]
      /\ pc' \in [Requests -> Pcs] /\ DOMAIN req' = Requests
      /\ \/ pc'[c] = "mark" /\ req[c].op = "upload" /\ req'[c] = req[c]
         \/ pc'[c] = "idle"
  <2>1. CASE req[c].op = "upload"
    BY <1>0, <1>1, <2>1 DEF Enqueue, Step, RequestsOK, Pcs
  <2>2. CASE req[c].op # "upload"
    <3>1. Go(c, "idle", <<>>) /\ "idle" \in Pcs
      BY <2>2 DEF Enqueue, Pcs
    <3> QED BY <1>0, <3>1, GoFact
  <2> QED BY <2>1, <2>2
<1>4. i \in Nat /\ Attempts(req[c].op) \in 1 .. 3
  BY <1>0, <1>2, TableFact DEF Attempts
<1>5. new \in Job /\ new.of = i /\ new.left \in 1 .. 3 /\ new.state = "waiting"
  BY <1>4 DEF Job
<1> HIDE DEF new, i
<1>6. /\ jobs' \in Seq(Job) /\ DOMAIN jobs' = DOMAIN jobs \cup {Len(jobs) + 1}
      /\ Len(jobs) + 1 \notin DOMAIN jobs /\ jobs'[Len(jobs) + 1] = new
      /\ \A n \in DOMAIN jobs : jobs'[n] = jobs[n]
  BY <1>0, <1>1, <1>5 DEF Shape, QueueOK
<1>7. TablesOK' /\ MinutesOK' /\ RestOK'
  BY <1>0, <1>1 DEF Shape, TablesOK, MinutesOK, RestOK
<1>8. QueueOK'
  <2>1. \A n \in DOMAIN jobs' : /\ jobs'[n].of \in DOMAIN talk' /\ jobs'[n].left <= 3
                                /\ jobs'[n].state = "waiting" => jobs'[n].left > 0
    <3> TAKE n \in DOMAIN jobs'
    <3>1. CASE n = Len(jobs) + 1
      BY <1>1, <1>2, <1>5, <1>6, <3>1 DEF i
    <3>2. CASE n # Len(jobs) + 1
      BY <1>0, <1>1, <1>6, <3>2 DEF Shape, QueueOK
    <3> QED BY <3>1, <3>2
  <2>2. work # AtRest => /\ work \in Busy /\ work.job \in DOMAIN jobs'
                         /\ jobs'[work.job].state = "active" /\ jobs'[work.job].left <= 2
    BY <1>0, <1>6 DEF Shape, QueueOK
  <2> QED BY <1>1, <1>6, <2>1, <2>2 DEF QueueOK
<1>9. RequestsOK'
  <2>1. \A d \in Requests : Fits(pc'[d], req'[d], DOMAIN talk)
    <3> TAKE d \in Requests
    <3>1. CASE d # c
      BY <1>0, <1>3, <3>1 DEF RequestsOK
    <3>2. CASE d = c
      BY <1>2, <1>3, <3>2 DEF Fits, Holding, Approving, i
    <3> QED BY <3>1, <3>2
  <2> QED BY <1>0, <1>1, <1>2, <1>3, <2>1 DEF RequestsOK
<1>10. CurrentTalk'
  BY <1>0, <1>1, <1>3 DEF TalkInv, CurrentTalk
<1>11. WorkKnows'
  <2>1. work # AtRest => jobs'[work.job] = jobs[work.job]
    BY <1>0, <1>6, TableFact
  <2> QED BY <1>0, <1>1, <2>1 DEF TalkInv, WorkKnows, Of
<1>12. \A j : Kept(j) => Kept(j)'
  BY <1>6 DEF Kept
<1>13. Transcribing' /\ TextSurvivesAudio'
  BY <1>0, <1>1, <1>12 DEF TalkInv, Transcribing, Told, TextSurvivesAudio
<1>14. NoForgotten'
  <2> SUFFICES ASSUME NEW j \in DOMAIN talk, j \notin halved, j \notin stale,
                      talk[j].status \in {"PENDING", "PROCESSING"}
               PROVE  Kept(j)' \/ \E d \in Requests : pc'[d] = "queue" /\ req'[d].of = j
    BY <1>1 DEF NoForgotten
  <2>1. CASE j = i
    BY <1>5, <1>6, <2>1 DEF Kept
  <2>2. CASE j # i
    <3>1. Kept(j) \/ \E d \in Requests : pc[d] = "queue" /\ req[d].of = j
      BY <1>0 DEF TalkInv, NoForgotten
    <3> QED BY <1>3, <1>12, <2>2, <3>1 DEF i
  <2> QED BY <2>1, <2>2
<1>15. ActaInv'
  BY <1>0, <1>1, <1>3, ActaFrame DEF Holding
<1> QED BY <1>7, <1>8, <1>9, <1>10, <1>11, <1>13, <1>14, <1>15 DEF IInv, Shape, TalkInv

\* The upload tells the meeting, and a person may tell it anything: neither is the worker.
LEMMA MarkStep ==
    ASSUME IInv, NEW c \in Requests, Mark(c)
    PROVE  IInv'
<1>0. Shape /\ TalkInv /\ ActaInv /\ RequestsOK
  BY DEF IInv, Shape
<1>1. /\ pc[c] = "mark" /\ meeting' = "TRANSCRIBING" /\ teller' = "upload" /\ Go(c, "idle", <<>>)
      /\ UNCHANGED <<acta, pdf, drafts, trodden, mix, policy, audio, talk, jobs, work, halved, stale,
                     retries, faults, outdated>>
  BY DEF Mark, Tell, records, minutes, history
<1>2. /\ pc'[c] = "idle" /\ \A d \in Requests \ {c} : pc'[d] = pc[d] /\ req'[d] = req[d]
  BY <1>0, <1>1, GoFact DEF Pcs
<1>3. TablesOK' /\ QueueOK' /\ MinutesOK' /\ RestOK'
  BY <1>0, <1>1 DEF Shape, TablesOK, QueueOK, MinutesOK, RestOK, Statuses
<1>4. RequestsOK'
  <2>1. Fits("idle", <<>>, DOMAIN talk') /\ "idle" \in Pcs
    BY DEF Fits, Holding, Approving, Pcs
  <2>2. \A d \in outdated' : d # c /\ d \in Requests /\ pc[d] \in {"retry", "edit"} \cup Holding
    BY <1>0, <1>1 DEF RequestsOK, Holding
  <2> QED BY <1>0, <1>1, <2>1, <2>2, MoveFact
<1>5. TalkInv'
  <2>1. ~Told'
    BY <1>1 DEF Told
  <2>2. \A d \in Requests : pc'[d] \in {"retry", "edit", "queue", "mark"} => pc'[d] = pc[d] /\ req'[d] = req[d]
    BY <1>2
  <2>3. \A d \in Requests : pc[d] = "queue" => pc'[d] = "queue"
    BY <1>1, <1>2
  <2> QED BY <1>0, <1>1, <2>1, <2>2, <2>3, TalkFrame
<1>6. ActaInv'
  BY <1>0, <1>1, <1>2, ActaFrame DEF Holding
<1> QED BY <1>3, <1>4, <1>5, <1>6 DEF IInv, Shape

LEMMA SetStatusStep == ASSUME IInv, SetStatus PROVE IInv'
<1>0. Shape /\ TalkInv /\ ActaInv
  BY DEF IInv
<1>1. /\ meeting' \in Statuses /\ teller' = "hand"
      /\ UNCHANGED <<acta, pdf, drafts, trodden, mix, policy, audio, talk, jobs, work, halved, stale,
                     retries, faults, outdated, pc, req>>
  BY DEF SetStatus, Tell, records, minutes, history
<1>2. TablesOK' /\ QueueOK' /\ MinutesOK' /\ RequestsOK' /\ RestOK'
  BY <1>0, <1>1 DEF Shape, TablesOK, QueueOK, MinutesOK, RequestsOK, RestOK
<1>3. TalkInv'
  <2>1. ~Told'
    BY <1>1 DEF Told
  <2> QED BY <1>0, <1>1, <2>1, TalkFrame
<1>4. ActaInv'
  BY <1>0, <1>1, ActaFrame
<1> QED BY <1>2, <1>3, <1>4 DEF IInv, Shape

-----------------------------------------------------------------------------
(* The worker.                                                              *)

\* Steps of the worker leave the requests where they are, and the acta alone.
LEMMA WorkerFrame ==
    ASSUME IInv, UNCHANGED <<pc, req, acta, pdf, drafts, trodden>>, DOMAIN talk' = DOMAIN talk,
           outdated' = outdated \/ \E i : outdated' = outdated \cup HoldTalk(i)
    PROVE  RequestsOK' /\ MinutesOK' /\ ActaInv'
<1>1. RequestsOK'
  BY DEF IInv, Shape, RequestsOK, HoldTalk
<1>2. MinutesOK'
  BY DEF IInv, Shape, MinutesOK
<1>3. ActaInv'
  BY ActaFrame DEF IInv, HoldTalk, Holding
<1> QED BY <1>1, <1>2, <1>3

\* A job leaves the worker.
LEMMA FinishFact ==
    ASSUME Shape, work # AtRest, NEW state \in {"waiting", "gone", "cut"},
           state = "waiting" => jobs[work.job].left > 0, Finish(state), DOMAIN talk' = DOMAIN talk
    PROVE  /\ QueueOK' /\ work' = AtRest /\ DOMAIN jobs' = DOMAIN jobs
           /\ \A n \in DOMAIN jobs : jobs'[n].of = jobs[n].of /\ jobs'[n].left = jobs[n].left
           /\ \A n \in DOMAIN jobs \ {work.job} : jobs'[n] = jobs[n]
           /\ jobs'[work.job].state = state
<1> DEFINE k == work.job
           job == [jobs[k] EXCEPT !.state = state]
<1>1. k \in DOMAIN jobs /\ jobs \in Seq(Job) /\ jobs[k] \in Job
  BY DEF Shape, QueueOK
<1>2. jobs' = [jobs EXCEPT ![k] = job] /\ work' = AtRest
  BY <1>1 DEF Finish
<1>3. job \in Job /\ job.of = jobs[k].of /\ job.left = jobs[k].left /\ job.state = state
  BY <1>1 DEF Job
<1> HIDE DEF job, k
<1>4. /\ jobs' \in Seq(Job) /\ DOMAIN jobs' = DOMAIN jobs /\ jobs'[k] = job
      /\ \A n \in DOMAIN jobs \ {k} : jobs'[n] = jobs[n]
  BY <1>1, <1>2, <1>3
<1>5. \A n \in DOMAIN jobs : jobs'[n].of = jobs[n].of /\ jobs'[n].left = jobs[n].left
  BY <1>3, <1>4
<1>6. \A n \in DOMAIN jobs : /\ jobs[n].of \in DOMAIN talk /\ jobs[n].left <= 3
                             /\ jobs[n].state = "waiting" => jobs[n].left > 0
  BY DEF Shape, QueueOK
<1>7. \A n \in DOMAIN jobs : jobs'[n].state = "waiting" => jobs'[n].left > 0
  <2> TAKE n \in DOMAIN jobs
  <2>1. CASE n = k
    BY <1>3, <1>4, <2>1 DEF k
  <2>2. CASE n # k
    BY <1>4, <1>6, <2>2
  <2> QED BY <2>1, <2>2
<1>8. QueueOK'
  BY <1>2, <1>4, <1>5, <1>6, <1>7 DEF QueueOK
<1> QED BY <1>2, <1>3, <1>4, <1>5, <1>8 DEF k

LEMMA TakeStep == ASSUME IInv, Take PROVE IInv'
<1>0. Shape /\ TalkInv
  BY DEF IInv
<1>1. PICK k \in DOMAIN jobs :
        /\ jobs[k].state = "waiting"
        /\ jobs' = [jobs EXCEPT ![k].state = "active", ![k].left = @ - 1]
        /\ work' = [at |-> "start", job |-> k, talk |-> talk[jobs[k].of]]
  BY DEF Take
<1>2. UNCHANGED <<acta, pdf, drafts, trodden, mix, policy, audio, talk, halved, stale, retries, faults,
                  outdated, meeting, teller, pc, req>>
  BY DEF Take, telling, minutes, history
<1>3. /\ jobs \in Seq(Job) /\ jobs[k] \in Job /\ jobs[k].of \in DOMAIN talk /\ jobs[k].left <= 3
      /\ jobs[k].left > 0 /\ talk[jobs[k].of] \in Talk /\ jobs[k].left \in Nat
  <2>1. jobs \in Seq(Job) /\ jobs[k].of \in DOMAIN talk /\ jobs[k].left <= 3 /\ jobs[k].left > 0
    BY <1>0, <1>1 DEF Shape, QueueOK
  <2>2. jobs[k] \in Job /\ talk[jobs[k].of] \in Talk
    BY <1>0, TableFact
  <2> QED BY <2>1, <2>2 DEF Job
<1> DEFINE left == jobs[k].left - 1
           job == [jobs[k] EXCEPT !.state = "active", !.left = left]
<1>4. left \in Nat /\ left <= 2 /\ left < jobs[k].left
  BY <1>3
<1> HIDE DEF left
<1>5. job \in Job /\ job.of = jobs[k].of /\ job.left = left /\ job.state = "active"
  <2>1. job \in Job
    BY <1>3, <1>4 DEF Job
  <2>2. job.of = jobs[k].of /\ job.left = left /\ job.state = "active"
    BY <1>3 DEF Job
  <2> QED BY <2>1, <2>2
<1>6. /\ DOMAIN jobs' = DOMAIN jobs /\ jobs'[k].of = jobs[k].of /\ jobs'[k].left = left
      /\ jobs'[k].state = "active" /\ jobs'[k] \in Job
      /\ \A n \in DOMAIN jobs \ {k} : jobs'[n] = jobs[n]
      /\ jobs' \in Seq(Job)
  <2>1. jobs' = [jobs EXCEPT ![k] = job]
    BY <1>1, <1>3 DEF left
  <2> HIDE DEF job
  <2> QED BY <1>3, <1>5, <2>1
<1>7. QueueOK'
  <2>1. \A n \in DOMAIN jobs' : jobs'[n].of \in DOMAIN talk /\ jobs'[n].left <= 3
    BY <1>0, <1>3, <1>4, <1>6 DEF Shape, QueueOK
  <2>2. \A n \in DOMAIN jobs' : jobs'[n].state = "waiting" => jobs'[n].left > 0
    BY <1>0, <1>6 DEF Shape, QueueOK
  <2>3. work' \in Busy /\ work'.job = k
    <3>1. k \in Nat
      BY <1>3
    <3> QED BY <1>1, <1>3, <3>1 DEF Busy
  <2> QED BY <1>2, <1>4, <1>6, <2>1, <2>2, <2>3 DEF QueueOK
<1>8. TablesOK' /\ RestOK'
  BY <1>0, <1>2 DEF Shape, TablesOK, RestOK
<1>9. RequestsOK' /\ MinutesOK' /\ ActaInv'
  BY <1>2, WorkerFrame
<1>10. CurrentTalk' /\ TextSurvivesAudio'
  BY <1>0, <1>2 DEF TalkInv, CurrentTalk, TextSurvivesAudio
<1>11. WorkKnows'
  <2>1. Of' = jobs[k].of /\ work'.talk = talk[jobs[k].of] /\ work'.at = "start"
    BY <1>1, <1>6 DEF Of
  <2>2. jobs[k].of \notin stale /\ audio[jobs[k].of].why = "NEVER_STORE" => talk[jobs[k].of].text # "none"
    BY <1>0, <1>3, TableFact DEF TalkInv, TextSurvivesAudio
  <2> QED BY <1>2, <2>1, <2>2 DEF WorkKnows
<1>12. \A i : Kept(i) => Kept(i)'
  BY <1>6 DEF Kept
<1>13. NoForgotten'
  BY <1>0, <1>2, <1>12 DEF TalkInv, NoForgotten
<1>14. Transcribing'
  <2>1. work'.at = "start"
    BY <1>1
  <2> QED BY <1>0, <1>2, <1>12, <2>1 DEF TalkInv, Transcribing, Told
<1> QED BY <1>7, <1>8, <1>9, <1>10, <1>11, <1>13, <1>14 DEF IInv, Shape, TalkInv

\* The worker saves the row it holds, whatever others saved since it read it.
LEMMA SavesFact ==
    ASSUME IInv, work # AtRest, NEW row \in Talk, NEW next \in {"started", "saved"}, WorkerSaves(row, next),
           UNCHANGED jobs
    PROVE  /\ talk' \in Seq(Talk) /\ Len(talk') = Len(talk) /\ DOMAIN talk' = DOMAIN talk
           /\ talk'[Of] = row /\ \A j \in DOMAIN talk \ {Of} : talk'[j] = talk[j]
           /\ outdated' = outdated \cup HoldTalk(Of)
           /\ work' \in Busy /\ work'.at = next /\ work'.job = work.job /\ work'.talk = row /\ work' # AtRest
           /\ Of' = Of /\ QueueOK'
<1>1. Shape /\ work \in Busy /\ Of \in DOMAIN talk
  BY TableFact DEF IInv, Shape, QueueOK
<1>2. /\ talk' = [talk EXCEPT ![Of] = row] /\ outdated' = outdated \cup HoldTalk(Of)
      /\ work' = [work EXCEPT !.at = next, !.talk = row]
  BY DEF WorkerSaves
<1>3. /\ talk' \in Seq(Talk) /\ Len(talk') = Len(talk) /\ DOMAIN talk' = DOMAIN talk
      /\ talk'[Of] = row /\ \A j \in DOMAIN talk \ {Of} : talk'[j] = talk[j]
  BY <1>1, <1>2 DEF Shape, TablesOK
<1>4. work' \in Busy
  BY <1>1, <1>2 DEF Busy
<1>5. work'.at = next /\ work'.job = work.job /\ work'.talk = row
  BY <1>1, <1>2 DEF Busy
<1>6. work' # AtRest
  BY <1>4, RestFact
<1>7. Of' = Of
  BY <1>5 DEF Of
<1>8. QueueOK'
  BY <1>1, <1>3, <1>4, <1>5 DEF Shape, QueueOK
<1> QED BY <1>2, <1>3, <1>4, <1>5, <1>6, <1>7, <1>8

\* After the worker saved, what others hold of that transcription is outdated.
LEMMA SavedTalk ==
    ASSUME IInv, UNCHANGED <<pc, req>>, Of \in DOMAIN talk, outdated' = outdated \cup HoldTalk(Of),
           \A j \in DOMAIN talk \ {Of} : talk'[j] = talk[j]
    PROVE  CurrentTalk'
<1> SUFFICES ASSUME NEW d \in Requests, d \notin outdated', pc[d] \in {"retry", "edit"}
             PROVE  req[d].talk = talk'[req[d].of]
  BY DEF CurrentTalk
<1>1. d \notin outdated /\ req[d].of # Of
  BY DEF HoldTalk
<1>2. req[d].of \in DOMAIN talk /\ req[d].talk = talk[req[d].of]
  BY <1>1 DEF IInv, TalkInv, CurrentTalk, Shape, RequestsOK, Fits
<1> QED BY <1>1, <1>2

\* Either way the row it saves keeps a text whose audio is gone.
LEMMA SavesStep ==
    ASSUME IInv, work # AtRest, NEW row \in Talk, NEW next \in {"started", "saved"}, WorkerSaves(row, next),
           UNCHANGED <<mix, policy, meeting, teller, audio, jobs, acta, pdf, drafts, trodden, pc, req, retries,
                       faults, halved, stale>>,
           Of \notin stale /\ audio[Of].why = "NEVER_STORE" => row.text # "none",
           Of \notin stale /\ next = "saved" => row.status = "COMPLETED" /\ row.text # "none"
    PROVE  IInv'
<1>0. Shape /\ TalkInv
  BY DEF IInv
<1>1. /\ talk' \in Seq(Talk) /\ Len(talk') = Len(talk) /\ DOMAIN talk' = DOMAIN talk
      /\ talk'[Of] = row /\ \A j \in DOMAIN talk \ {Of} : talk'[j] = talk[j]
      /\ outdated' = outdated \cup HoldTalk(Of)
      /\ work' \in Busy /\ work'.at = next /\ work'.job = work.job /\ work'.talk = row /\ work' # AtRest
      /\ Of' = Of /\ QueueOK'
  BY SavesFact
<1>2. /\ work.job \in DOMAIN jobs /\ Of \in DOMAIN talk /\ DOMAIN audio = DOMAIN talk
      /\ jobs[work.job].state # "gone" /\ jobs[work.job].of = Of
  BY <1>0, TableFact DEF Of
<1>3. TablesOK' /\ RestOK'
  BY <1>0, <1>1 DEF Shape, TablesOK, RestOK
<1>4. RequestsOK' /\ MinutesOK' /\ ActaInv'
  BY <1>1, WorkerFrame
<1>5. CurrentTalk'
  BY <1>1, <1>2, SavedTalk
<1>6. WorkKnows'
  BY <1>1 DEF WorkKnows
<1>7. \A i : Kept(i)' <=> Kept(i)
  BY DEF Kept
<1>8. Transcribing'
  <2> PICK i \in DOMAIN talk : i = Of
    BY <1>2
  <2>1. i \in DOMAIN talk' /\ Kept(i)'
    BY <1>1, <1>2, <1>7 DEF Kept
  <2>2. Told' => work'.at # "forget"
    BY <1>1
  <2> QED BY <2>1, <2>2 DEF Transcribing
<1>9. NoForgotten'
  <2> SUFFICES ASSUME NEW i \in DOMAIN talk, i \notin halved \cup stale,
                      talk'[i].status \in {"PENDING", "PROCESSING"}
               PROVE  Kept(i)' \/ \E c \in Requests : pc[c] = "queue" /\ req[c].of = i
    BY <1>1 DEF NoForgotten
  <2>1. CASE i = Of
    <3>1. jobs[work.job].of = i /\ jobs[work.job].state # "gone"
      BY <2>1, <1>2
    <3>2. Kept(i)
      BY <3>1, <1>2 DEF Kept
    <3> QED BY <3>2, <1>7
  <2>2. CASE i # Of
    BY <2>2, <1>0, <1>1, <1>7 DEF TalkInv, NoForgotten
  <2> QED BY <2>1, <2>2
<1>10. TextSurvivesAudio'
  BY <1>0, <1>1, <1>2 DEF TalkInv, TextSurvivesAudio
<1> QED BY <1>1, <1>3, <1>4, <1>5, <1>6, <1>8, <1>9, <1>10 DEF IInv, Shape, TalkInv

LEMMA StartStep == ASSUME IInv, Start PROVE IInv'
<1>1. work # AtRest /\ work.talk \in Talk
  BY RestFact, TableFact DEF Start, IInv
<1> DEFINE row == [work.talk EXCEPT !.status = "PROCESSING"]
<1>2. row \in Talk
  BY <1>1 DEF Talk
<1>3. row.text = work.talk.text
  BY <1>1 DEF Talk
<1>4. WorkerSaves(row, "started")
  BY DEF Start
<1>5. UNCHANGED <<mix, policy, meeting, teller, audio, jobs, acta, pdf, drafts, trodden, pc, req, retries, faults,
                  halved, stale>>
  BY DEF Start, minutes, telling
<1>6. Of \notin stale /\ audio[Of].why = "NEVER_STORE" => row.text # "none"
  BY <1>1, <1>3 DEF IInv, TalkInv, WorkKnows
<1> HIDE DEF row
<1> QED BY <1>1, <1>2, <1>4, <1>5, <1>6, SavesStep

LEMMA SaveTextStep == ASSUME IInv, SaveText PROVE IInv'
<1>1. work # AtRest /\ work.talk \in Talk /\ work.at = "save"
  BY RestFact, TableFact DEF SaveText, IInv
<1>2. WorkerSaves(work.talk, "saved")
  BY DEF SaveText
<1>3. UNCHANGED <<mix, policy, meeting, teller, audio, jobs, acta, pdf, drafts, trodden, pc, req, retries, faults,
                  halved, stale>>
  BY DEF SaveText, minutes, telling
<1>4. Of \notin stale => work.talk.status = "COMPLETED" /\ work.talk.text # "none"
  BY <1>1 DEF IInv, TalkInv, WorkKnows
<1> QED BY <1>1, <1>2, <1>3, <1>4, SavesStep

\* The worker moves on with the row it holds, no row is written; it may tell the meeting.
LEMMA WorkerMoves ==
    ASSUME IInv, work # AtRest, work' \in Busy, work'.job = work.job,
           UNCHANGED <<mix, policy, audio, talk, jobs, acta, pdf, drafts, trodden, pc, req, retries, outdated,
                       halved, stale>>,
           meeting' \in Statuses, teller' \in {"hand", "upload", "worker", "acta"},
           faults' \in Nat, WorkKnows', Told' => work'.at # "forget"
    PROVE  IInv'
<1>0. Shape /\ TalkInv
  BY DEF IInv
<1>1. TablesOK' /\ RestOK'
  BY <1>0 DEF Shape, TablesOK, RestOK
<1>2. QueueOK'
  BY <1>0 DEF Shape, QueueOK
<1>3. RequestsOK' /\ MinutesOK' /\ ActaInv'
  BY WorkerFrame
<1>4. CurrentTalk' /\ TextSurvivesAudio' /\ NoForgotten'
  BY <1>0 DEF TalkInv, CurrentTalk, TextSurvivesAudio, NoForgotten, Kept
<1>5. Transcribing'
  <2>1. work.job \in DOMAIN jobs /\ Of \in DOMAIN talk /\ jobs[work.job].state # "gone" /\ jobs[work.job].of = Of
    BY <1>0, TableFact DEF Of
  <2> PICK i \in DOMAIN talk : i = Of
    BY <2>1
  <2>2. i \in DOMAIN talk' /\ Kept(i)'
    BY <2>1 DEF Kept
  <2> QED BY <2>2 DEF Transcribing
<1> QED BY <1>1, <1>2, <1>3, <1>4, <1>5 DEF IInv, Shape, TalkInv

\* A step that only moves the worker to another place.
LEMMA WorkerGoes ==
    ASSUME IInv, work # AtRest, NEW next \in {"hear", "forget", "fail"}, work' = [work EXCEPT !.at = next],
           UNCHANGED <<mix, policy, audio, talk, jobs, acta, pdf, drafts, trodden, pc, req, retries, outdated,
                       halved, stale>>,
           meeting' \in Statuses, teller' \in {"hand", "upload", "worker", "acta"}, faults' \in Nat,
           next = "forget" => work.at = "saved" /\ ~Told'
    PROVE  IInv'
<1>1. work \in Busy /\ WorkKnows
  BY DEF IInv, Shape, QueueOK, TalkInv
<1>2. work' \in Busy
  BY <1>1 DEF Busy
<1>3. work'.job = work.job /\ work'.at = next /\ work'.talk = work.talk
  BY <1>1 DEF Busy
<1>4. WorkKnows'
  BY <1>1, <1>3 DEF WorkKnows, Of
<1>5. Told' => work'.at # "forget"
  BY <1>3
<1> QED BY <1>2, <1>3, <1>4, <1>5, WorkerMoves

LEMMA WorkerTellsSteps == ASSUME IInv, TellStart \/ TellText PROVE IInv'
<1>1. PICK next \in {"hear", "forget"} :
        /\ work' = [work EXCEPT !.at = next] /\ teller' = "worker" /\ meeting' \in Statuses
        /\ next = "forget" => work.at = "saved" /\ meeting' = "TRANSCRIBED"
  BY DEF TellStart, TellText, WorkerTells, Tell, Heard, Statuses
<1>2. UNCHANGED <<mix, policy, audio, talk, jobs, acta, pdf, drafts, trodden, pc, req, retries, outdated, halved,
                  stale, faults>>
  BY DEF TellStart, TellText, WorkerTells, minutes, history
<1>3. work # AtRest
  BY RestFact DEF TellStart, TellText
<1>4. faults' \in Nat
  BY <1>2 DEF IInv, Shape, RestOK
<1>5. next = "forget" => ~Told'
  BY <1>1 DEF Told
<1> QED BY <1>1, <1>2, <1>3, <1>4, <1>5, WorkerGoes

LEMMA HearStep == ASSUME IInv, Hear PROVE IInv'
<1>0. work # AtRest /\ work \in Busy
  BY RestFact DEF Hear, IInv, Shape, QueueOK
<1>1. UNCHANGED <<mix, policy, audio, talk, jobs, acta, pdf, drafts, trodden, pc, req, retries, outdated, halved,
                  stale, meeting, teller, faults>>
  BY DEF Hear, telling, minutes, history
<1>2. faults' \in Nat /\ meeting' \in Statuses /\ teller' \in {"hand", "upload", "worker", "acta"}
  BY <1>1 DEF IInv, Shape, RestOK
<1>3. CASE work' = [work EXCEPT !.at = "save", !.talk = [status |-> "COMPLETED", text |-> "heard"]]
  <2> DEFINE row == [status |-> "COMPLETED", text |-> "heard"]
  <2>1. row \in Talk /\ row.text # "none"
    BY DEF Talk
  <2> HIDE DEF row
  <2>2. work' = [work EXCEPT !.at = "save", !.talk = row]
    BY <1>3 DEF row
  <2>3. work' \in Busy
    BY <1>0, <2>1, <2>2 DEF Busy
  <2>4. work'.job = work.job /\ work'.at = "save" /\ work'.talk = row
    BY <1>0, <2>2 DEF Busy
  <2>5. WorkKnows'
    BY <1>1, <2>1, <2>4 DEF WorkKnows, row
  <2>6. Told' => work'.at # "forget"
    BY <2>4
  <2> QED BY <1>0, <1>1, <1>2, <2>3, <2>4, <2>5, <2>6, WorkerMoves
<1>4. CASE work' = [work EXCEPT !.at = "fail"]
  BY <1>0, <1>1, <1>2, <1>4, WorkerGoes
<1> QED BY <1>3, <1>4 DEF Hear

LEMMA ForgetStep == ASSUME IInv, Forget PROVE IInv'
<1>0. Shape /\ TalkInv /\ TablesOK
  BY DEF IInv, Shape
<1>1. work # AtRest /\ work.at = "forget"
  BY RestFact DEF Forget
<1>2. /\ UNCHANGED <<mix, policy, talk, acta, pdf, drafts, trodden, pc, req, retries, outdated, halved, stale,
                     meeting, teller>>
      /\ Finish("gone") /\ DeleteAll(IF policy = "NEVER_STORE" THEN {Of} ELSE {}, "NEVER_STORE")
  BY DEF Forget, telling, minutes, history
<1>3. /\ work.job \in DOMAIN jobs /\ Of \in DOMAIN talk /\ DOMAIN audio = DOMAIN talk
      /\ jobs[work.job].of = Of
  BY <1>0, <1>1, TableFact DEF Of
<1>4. Of \notin stale => talk[Of].status = "COMPLETED" /\ talk[Of].text # "none"
  BY <1>0, <1>1 DEF TalkInv, WorkKnows
<1>5. /\ QueueOK' /\ work' = AtRest /\ DOMAIN jobs' = DOMAIN jobs
      /\ \A n \in DOMAIN jobs : jobs'[n].of = jobs[n].of /\ jobs'[n].left = jobs[n].left
      /\ \A n \in DOMAIN jobs \ {work.job} : jobs'[n] = jobs[n]
  BY <1>0, <1>1, <1>2, FinishFact
<1>6. /\ audio' \in Seq(Audio) /\ Len(audio') = Len(audio) /\ DOMAIN audio' = DOMAIN audio
      /\ \A j \in DOMAIN audio \ {Of} : audio'[j] = audio[j]
      /\ faults' \in Nat
  <2> DEFINE ids == IF policy = "NEVER_STORE" THEN {Of} ELSE {}
  <2>1. ids \in SUBSET DOMAIN audio /\ ids \subseteq {Of}
    BY <1>3
  <2>2. DeleteAll(ids, "NEVER_STORE") /\ faults \in Nat
    BY <1>0, <1>2 DEF Shape, RestOK
  <2> HIDE DEF ids
  <2> QED BY <1>0, <2>1, <2>2, DeleteFact
<1>7. TablesOK' /\ RestOK'
  BY <1>0, <1>2, <1>6 DEF Shape, TablesOK, RestOK
<1>8. RequestsOK' /\ MinutesOK' /\ ActaInv'
  BY <1>2, WorkerFrame
<1>9. CurrentTalk' /\ WorkKnows'
  BY <1>0, <1>2, <1>5 DEF TalkInv, CurrentTalk, WorkKnows
<1>10. Transcribing'
  BY <1>0, <1>1, <1>2 DEF TalkInv, Transcribing, Told
<1>11. NoForgotten'
  <2>1. \A i : i # Of /\ Kept(i) => Kept(i)'
    BY <1>3, <1>5 DEF Kept
  <2> QED BY <1>0, <1>2, <1>3, <1>4, <2>1 DEF TalkInv, NoForgotten
<1>12. TextSurvivesAudio'
  BY <1>0, <1>2, <1>4, <1>6 DEF TalkInv, TextSurvivesAudio
<1> QED BY <1>5, <1>7, <1>8, <1>9, <1>10, <1>11, <1>12 DEF IInv, Shape, TalkInv

\* The error is written over the row, its text with it: a job that waits has another attempt.
LEMMA SaveFailureStep == ASSUME IInv, SaveFailure PROVE IInv'
<1>0. Shape /\ TalkInv
  BY DEF IInv
<1>1. work # AtRest /\ work.talk \in Talk
  BY <1>0, RestFact, TableFact DEF SaveFailure
<1>2. /\ UNCHANGED <<mix, policy, audio, acta, pdf, drafts, trodden, pc, req, retries, faults, halved, stale,
                     meeting, teller>>
      /\ outdated' = outdated \cup HoldTalk(Of) /\ talk' = [talk EXCEPT ![Of] = Broken(work.talk)]
      /\ Finish(After("gone"))
  BY DEF SaveFailure, telling, minutes
<1>3. /\ work.job \in DOMAIN jobs /\ Of \in DOMAIN talk /\ DOMAIN audio = DOMAIN talk
      /\ jobs[work.job].of = Of
  BY <1>0, <1>1, TableFact DEF Of
<1> DEFINE row == Broken(work.talk)
<1>4. row \in Talk
  BY <1>1 DEF Talk, Broken
<1>5. row.status = "FAILED" /\ row.text = work.talk.text
  BY <1>1 DEF Talk, Broken
<1> HIDE DEF row
<1>6. /\ talk' \in Seq(Talk) /\ Len(talk') = Len(talk) /\ DOMAIN talk' = DOMAIN talk
      /\ talk'[Of] = row /\ \A j \in DOMAIN talk \ {Of} : talk'[j] = talk[j]
  <2>1. talk' = [talk EXCEPT ![Of] = row]
    BY <1>2 DEF row
  <2> QED BY <1>0, <1>3, <1>4, <2>1 DEF Shape, TablesOK
<1>7. PICK state \in {"waiting", "gone", "cut"} :
        Finish(state) /\ (state = "waiting" => jobs[work.job].left > 0)
  BY <1>2 DEF After
<1>8. /\ QueueOK' /\ work' = AtRest /\ DOMAIN jobs' = DOMAIN jobs
      /\ \A n \in DOMAIN jobs : jobs'[n].of = jobs[n].of /\ jobs'[n].left = jobs[n].left
      /\ \A n \in DOMAIN jobs \ {work.job} : jobs'[n] = jobs[n]
  BY <1>0, <1>1, <1>6, <1>7, FinishFact
<1>9. TablesOK' /\ RestOK'
  BY <1>0, <1>2, <1>6 DEF Shape, TablesOK, RestOK
<1>10. RequestsOK' /\ MinutesOK' /\ ActaInv'
  BY <1>2, <1>6, WorkerFrame
<1>11. CurrentTalk'
  BY <1>2, <1>3, <1>6, SavedTalk
<1>12. WorkKnows' /\ Transcribing'
  BY <1>3, <1>5, <1>6, <1>8, RestFact DEF WorkKnows, Transcribing
<1>13. NoForgotten'
  <2>1. \A i : i # Of /\ Kept(i) => Kept(i)'
    BY <1>3, <1>8 DEF Kept
  <2> QED BY <1>0, <1>2, <1>3, <1>5, <1>6, <2>1 DEF TalkInv, NoForgotten
<1>14. TextSurvivesAudio'
  <2>1. Of \notin stale /\ audio[Of].why = "NEVER_STORE" => work.talk.text # "none"
    BY <1>0, <1>1 DEF TalkInv, WorkKnows
  <2> QED BY <1>0, <1>2, <1>3, <1>5, <1>6, <2>1 DEF TalkInv, TextSurvivesAudio
<1> QED BY <1>8, <1>9, <1>10, <1>11, <1>12, <1>13, <1>14 DEF IInv, Shape, TalkInv

\* A write that fails leaves the row as it was, and the job waiting or cut.
LEMMA WorkerBreaksStep == ASSUME IInv, WorkerBreaks PROVE IInv'
<1>0. Shape /\ TalkInv
  BY DEF IInv
<1>1. /\ UNCHANGED <<mix, policy, audio, talk, acta, pdf, drafts, trodden, pc, req, retries, outdated,
                     meeting, teller, halved, stale>>
      /\ faults' \in Nat
  BY <1>0 DEF WorkerBreaks, telling, minutes, history, Shape, RestOK
<1>2. work # AtRest
  BY RestFact DEF WorkerBreaks
<1>3. meeting' \in Statuses /\ teller' \in {"hand", "upload", "worker", "acta"}
  BY <1>0, <1>1 DEF Shape, RestOK
<1>4. CASE work' = [work EXCEPT !.at = "fail"] /\ UNCHANGED jobs
  BY <1>1, <1>2, <1>3, <1>4, WorkerGoes
<1>5. CASE Finish(After("cut"))
  <2>1. /\ work.job \in DOMAIN jobs /\ jobs[work.job].of = Of
    BY <1>0, <1>2, TableFact DEF Of
  <2>2. PICK state \in {"waiting", "cut"} : Finish(state) /\ (state = "waiting" => jobs[work.job].left > 0)
    BY <1>5 DEF After
  <2>3. /\ QueueOK' /\ work' = AtRest /\ DOMAIN jobs' = DOMAIN jobs
        /\ \A n \in DOMAIN jobs : jobs'[n].of = jobs[n].of /\ jobs'[n].left = jobs[n].left
        /\ \A n \in DOMAIN jobs \ {work.job} : jobs'[n] = jobs[n]
        /\ jobs'[work.job].state = state
    BY <1>0, <1>1, <1>2, <2>2, FinishFact
  <2>4. \A i : Kept(i) => Kept(i)'
    BY <2>1, <2>2, <2>3 DEF Kept
  <2>5. TablesOK' /\ RestOK'
    BY <1>0, <1>1 DEF Shape, TablesOK, RestOK
  <2>6. RequestsOK' /\ MinutesOK' /\ ActaInv'
    BY <1>1, WorkerFrame
  <2>7. CurrentTalk' /\ WorkKnows' /\ TextSurvivesAudio'
    BY <1>0, <1>1, <2>3 DEF TalkInv, CurrentTalk, WorkKnows, TextSurvivesAudio
  <2>8. NoForgotten'
    BY <1>0, <1>1, <2>4 DEF TalkInv, NoForgotten
  <2>9. Transcribing'
    BY <1>0, <1>1, <2>3, <2>4, RestFact DEF TalkInv, Transcribing, Told
  <2> QED BY <2>3, <2>5, <2>6, <2>7, <2>8, <2>9 DEF IInv, Shape, TalkInv
<1> QED BY <1>4, <1>5 DEF WorkerBreaks

-----------------------------------------------------------------------------
(* Retention and failures.                                                  *)

\* Whoever deletes by hand, or past the days, does not do it under NEVER_STORE.
LEMMA RetentionSteps == ASSUME IInv, DeleteAudio \/ ChangePolicy PROVE IInv'
<1>0. Shape /\ TalkInv /\ ActaInv /\ TablesOK /\ RestOK
  BY DEF IInv, Shape
<1>1. /\ UNCHANGED <<mix, talk, jobs, work, acta, pdf, drafts, trodden, pc, req, retries, outdated, halved, stale,
                     meeting, teller>>
      /\ policy' \in Policies
  BY <1>0 DEF DeleteAudio, ChangePolicy, telling, minutes, history, RestOK
<1>2. /\ audio' \in Seq(Audio) /\ Len(audio') = Len(audio) /\ DOMAIN audio' = DOMAIN audio
      /\ \A j \in DOMAIN audio : audio'[j].why = "NEVER_STORE" => audio[j].why = "NEVER_STORE"
      /\ faults' \in Nat
  <2>1. CASE ChangePolicy
    BY <1>0, <2>1 DEF ChangePolicy, TablesOK, RestOK
  <2>2. CASE DeleteAudio
    <3>1. PICK i \in DOMAIN audio, why \in {"MANUAL", "AFTER_DAYS"} : DeleteAll({i}, why)
      BY <2>2 DEF DeleteAudio
    <3> QED BY <1>0, <3>1, DeleteFact DEF RestOK
  <2> QED BY <2>1, <2>2
<1>3. TablesOK' /\ RestOK'
  BY <1>0, <1>1, <1>2 DEF TablesOK, RestOK
<1>4. QueueOK' /\ MinutesOK' /\ RequestsOK'
  BY <1>0, <1>1 DEF Shape, QueueOK, MinutesOK, RequestsOK
<1>5. TalkInv'
  <2>1. Told' => Told
    BY <1>1 DEF Told
  <2> QED BY <1>0, <1>1, <1>2, <2>1, TalkFrame
<1>6. ActaInv'
  BY <1>0, <1>1, ActaFrame
<1> QED BY <1>3, <1>4, <1>5, <1>6 DEF IInv, Shape

\* What a request has left half done is a transcription there is.
LEMMA HalvedFact ==
    ASSUME Shape, NEW cs, cs \subseteq Requests
    PROVE  /\ Halved(cs) \subseteq DOMAIN talk
           /\ \A d \in cs : pc[d] = "queue" => req[d].of \in Halved(cs)
BY DEF Halved, Shape, RequestsOK, Fits

LEMMA FailStep == ASSUME IInv, NEW c \in Requests, Fail(c) PROVE IInv'
<1>0. Shape /\ TalkInv /\ ActaInv /\ RequestsOK /\ TablesOK
  BY DEF IInv, Shape
<1>1. /\ Go(c, "idle", <<>>) /\ outdated' = outdated \ {c} /\ halved' = halved \cup Halved({c})
      /\ UNCHANGED <<mix, policy, audio, talk, jobs, work, acta, pdf, drafts, trodden, retries,
                     meeting, teller, stale>>
      /\ faults' \in Nat
  BY <1>0 DEF Fail, Done, telling, records, minutes, Shape, RestOK
<1>2. /\ pc'[c] = "idle" /\ \A d \in Requests \ {c} : pc'[d] = pc[d] /\ req'[d] = req[d]
  BY <1>0, <1>1, GoFact DEF Pcs
<1>3. /\ Halved({c}) \subseteq DOMAIN talk /\ DOMAIN audio = DOMAIN talk
      /\ (pc[c] = "queue" => req[c].of \in Halved({c}))
  BY <1>0, HalvedFact, TableFact
<1>4. TablesOK' /\ QueueOK' /\ MinutesOK' /\ RestOK'
  BY <1>0, <1>1, <1>3 DEF Shape, TablesOK, QueueOK, MinutesOK, RestOK
<1>5. RequestsOK'
  <2>1. Fits("idle", <<>>, DOMAIN talk') /\ "idle" \in Pcs
    BY DEF Fits, Holding, Approving, Pcs
  <2>2. \A d \in outdated' : d # c /\ d \in Requests /\ pc[d] \in {"retry", "edit"} \cup Holding
    BY <1>0, <1>1 DEF RequestsOK
  <2> QED BY <1>0, <1>1, <2>1, <2>2, MoveFact
<1>6. CurrentTalk'
  BY <1>0, <1>1, <1>2 DEF TalkInv, CurrentTalk
<1>7. WorkKnows' /\ Transcribing' /\ TextSurvivesAudio'
  BY <1>0, <1>1 DEF TalkInv, WorkKnows, Of, Transcribing, Told, Kept, TextSurvivesAudio
<1>8. NoForgotten'
  BY <1>0, <1>1, <1>2, <1>3 DEF TalkInv, NoForgotten, Kept
<1>9. ActaInv'
  BY <1>0, <1>1, <1>2, ActaFrame DEF Holding
<1> QED BY <1>4, <1>5, <1>6, <1>7, <1>8, <1>9 DEF IInv, Shape, TalkInv

\* After a restart no request holds anything; the job of the worker waits again, or is cut.
LEMMA CrashStep == ASSUME IInv, Crash PROVE IInv'
<1>0. Shape /\ TalkInv /\ ActaInv
  BY DEF IInv
<1> DEFINE lost == work # AtRest /\ jobs[work.job].stalled
<1>1. /\ pc' = [c \in Requests |-> "idle"] /\ req' = [c \in Requests |-> <<>>] /\ outdated' = {}
      /\ halved' = halved \cup Halved(Requests) /\ stale' = stale
      /\ work' = AtRest
      /\ UNCHANGED <<mix, policy, audio, talk, acta, pdf, drafts, trodden, retries, meeting, teller>>
      /\ faults' \in Nat
  BY <1>0 DEF Crash, telling, minutes, Shape, RestOK
<1>2. /\ DOMAIN audio = DOMAIN talk /\ Halved(Requests) \subseteq DOMAIN talk
      /\ \A d \in Requests : pc[d] = "queue" => req[d].of \in Halved(Requests)
  BY <1>0, HalvedFact, TableFact DEF Of
<1>3. /\ QueueOK' /\ DOMAIN jobs' = DOMAIN jobs
      /\ \A n \in DOMAIN jobs : jobs'[n].of = jobs[n].of
      /\ \A n \in DOMAIN jobs : jobs[n].state # "gone" => jobs'[n].state # "gone"
  <2>1. CASE work = AtRest
    <3>1. jobs' = jobs
      BY <2>1 DEF Crash
    <3> QED BY <1>0, <1>1, <3>1 DEF Shape, QueueOK
  <2>2. CASE work # AtRest
    <3> DEFINE k == work.job
               state == IF lost THEN "cut" ELSE "waiting"
               left == jobs[k].left + 1
               job == [jobs[k] EXCEPT !.stalled = TRUE, !.left = left, !.state = state]
    <3>1. k \in DOMAIN jobs /\ jobs \in Seq(Job) /\ jobs[k] \in Job /\ jobs[k].left <= 2
          /\ jobs[k].left \in Nat
      <4>1. k \in DOMAIN jobs /\ jobs \in Seq(Job) /\ jobs[k] \in Job /\ jobs[k].left <= 2
        BY <1>0, <2>2 DEF Shape, QueueOK
      <4> QED BY <4>1 DEF Job
    <3>2. jobs' = [jobs EXCEPT ![k] = job]
      <4>1. jobs' = [jobs EXCEPT ![k].stalled = TRUE, ![k].left = @ + 1, ![k].state = state]
        BY <2>2 DEF Crash
      <4> QED BY <3>1, <4>1
    <3>3. left \in Nat /\ left <= 3 /\ left > 0 /\ state \in {"waiting", "cut"}
      BY <3>1
    <3> HIDE DEF left, state
    <3>4. job \in Job
      BY <3>1, <3>3 DEF Job
    <3>5. job.of = jobs[k].of /\ job.left = left /\ job.state = state
      BY <3>1, <3>3 DEF Job
    <3> HIDE DEF job, k, lost
    <3>6. /\ jobs' \in Seq(Job) /\ DOMAIN jobs' = DOMAIN jobs /\ jobs'[k] = job
          /\ \A n \in DOMAIN jobs \ {k} : jobs'[n] = jobs[n]
      BY <3>1, <3>2, <3>4
    <3>7. \A n \in DOMAIN jobs : jobs'[n].of = jobs[n].of
      BY <3>5, <3>6
    <3>8. \A n \in DOMAIN jobs : /\ jobs[n].of \in DOMAIN talk /\ jobs[n].left <= 3
                                 /\ jobs[n].state = "waiting" => jobs[n].left > 0
      BY <1>0 DEF Shape, QueueOK
    <3>9. \A n \in DOMAIN jobs : /\ jobs'[n].of \in DOMAIN talk /\ jobs'[n].left <= 3
                                 /\ jobs'[n].state = "waiting" => jobs'[n].left > 0
      <4> TAKE n \in DOMAIN jobs
      <4>1. CASE n = k
        BY <3>1, <3>3, <3>5, <3>6, <3>8, <4>1
      <4>2. CASE n # k
        BY <3>6, <3>8, <4>2
      <4> QED BY <4>1, <4>2
    <3>10. QueueOK'
      BY <1>1, <3>6, <3>9 DEF QueueOK
    <3>11. \A n \in DOMAIN jobs : jobs[n].state # "gone" => jobs'[n].state # "gone"
      BY <3>3, <3>5, <3>6
    <3> QED BY <3>6, <3>7, <3>10, <3>11 DEF k
  <2> QED BY <2>1, <2>2
<1> HIDE DEF lost
<1>4. TablesOK' /\ MinutesOK' /\ RestOK'
  BY <1>0, <1>1, <1>2 DEF Shape, TablesOK, MinutesOK, RestOK
<1>5. \A c \in Requests : pc'[c] = "idle" /\ req'[c] = <<>>
  BY <1>1
<1>6. RequestsOK'
  <2>1. Fits("idle", <<>>, DOMAIN talk')
    BY DEF Fits, Holding, Approving
  <2>2. pc' \in [Requests -> Pcs] /\ DOMAIN req' = Requests
    BY <1>1 DEF Pcs
  <2>3. \A c \in Requests : Fits(pc'[c], req'[c], DOMAIN talk')
    BY <1>5, <2>1
  <2> QED BY <1>1, <2>2, <2>3 DEF RequestsOK
<1>7. CurrentTalk' /\ WorkKnows' /\ TextSurvivesAudio'
  BY <1>0, <1>1, <1>5 DEF TalkInv, CurrentTalk, WorkKnows, TextSurvivesAudio
<1>8. \A i : Kept(i) => Kept(i)'
  BY <1>3 DEF Kept
<1>9. Transcribing'
  BY <1>0, <1>1, <1>8, RestFact DEF TalkInv, Transcribing, Told
<1>10. NoForgotten'
  BY <1>0, <1>1, <1>2, <1>8 DEF TalkInv, NoForgotten
<1>11. ActaInv'
  BY <1>0, <1>1, <1>5, ActaFrame DEF Holding
<1> QED BY <1>3, <1>4, <1>6, <1>7, <1>9, <1>10, <1>11 DEF IInv, Shape, TalkInv

-----------------------------------------------------------------------------
(* The theorems.                                                            *)

LEMMA InitInv == Init => IInv
<1> SUFFICES ASSUME Init
             PROVE  IInv
  OBVIOUS
<1>1. work = AtRest /\ acta = NoActa /\ NoActa.status = "none" /\ NoActa \notin Acta
  BY ActaFact DEF Init
<1>2. \A c \in Requests : pc[c] = "idle"
  BY DEF Init
<1>3. TablesOK /\ QueueOK
  BY DEF Init, TablesOK, QueueOK
<1>4. MinutesOK
  <2>1. MaxDrafts \in Nat /\ drafts = 0 /\ trodden = FALSE
    BY RecordsAssumption DEF Init
  <2>2. pdf \in [DOMAIN pdf -> 1 .. MaxDrafts]
    BY DEF Init
  <2>3. drafts \in 0 .. MaxDrafts
    BY <2>1, SMT
  <2>4. trodden \in BOOLEAN
    BY <2>1, Zenon
  <2>5. acta \in Acta \cup {NoActa} /\ (acta # NoActa => acta.text \in 1 .. MaxDrafts)
    BY <1>1
  <2> QED BY <2>2, <2>3, <2>4, <2>5 DEF MinutesOK
<1>5. RequestsOK
  BY DEF Init, RequestsOK, Pcs, Fits, Holding, Approving
<1>6. RestOK
  BY DEF Init, RestOK, Statuses
<1>7. TalkInv
  BY <1>1, <1>2
     DEF Init, TalkInv, CurrentTalk, WorkKnows, Transcribing, Told, NoForgotten, TextSurvivesAudio
<1>8. ActaInv
  BY <1>1, <1>2 DEF ActaInv, CurrentActa, Rendered, PdfIsTheActa, Holding, Approving
<1> QED BY <1>3, <1>4, <1>5, <1>6, <1>7, <1>8 DEF IInv, Shape

LEMMA StutterInv ==
    ASSUME IInv, UNCHANGED vars
    PROVE  IInv'
<1>0. Shape /\ TalkInv /\ ActaInv
  BY DEF IInv
<1>1. UNCHANGED <<mix, policy, meeting, audio, talk, jobs, work, acta, pdf, pc, req, drafts, retries, faults,
                  outdated, teller, halved, stale, trodden>>
  BY DEF vars
<1>2. TablesOK' /\ QueueOK' /\ MinutesOK' /\ RequestsOK' /\ RestOK'
  BY <1>0, <1>1 DEF Shape, TablesOK, QueueOK, MinutesOK, RequestsOK, RestOK
<1>3. TalkInv'
  BY <1>0, <1>1, TalkFrame DEF Told
<1>4. ActaInv'
  BY <1>0, <1>1, ActaFrame
<1> QED BY <1>2, <1>3, <1>4 DEF IInv, Shape

LEMMA NextInv == ASSUME IInv, [Next]_vars PROVE IInv'
<1>1. CASE \E c \in Requests :
              Upload(c) \/ StartRetry(c) \/ StartEdit(c) \/ StartActa(c) \/ Handler(c) \/ Fail(c)
  <2>1. PICK c \in Requests :
          Upload(c) \/ StartRetry(c) \/ StartEdit(c) \/ StartActa(c) \/ Handler(c) \/ Fail(c)
    BY <1>1
  <2>2. CASE Handler(c)
    BY <2>2, SaveTalkSteps, EnqueueStep, MarkStep, SaveSteps, LeaveSteps, ApproveSteps DEF Handler
  <2> QED BY <2>1, <2>2, UploadStep, StartSteps, StartActaStep, FailStep
<1>2. CASE Worker
  BY <1>2, TakeStep, StartStep, WorkerTellsSteps, HearStep, SaveTextStep, ForgetStep, SaveFailureStep DEF Worker
<1>3. CASE WorkerBreaks \/ DeleteAudio \/ ChangePolicy \/ SetStatus \/ Crash
  BY <1>3, WorkerBreaksStep, RetentionSteps, SetStatusStep, CrashStep
<1>4. CASE UNCHANGED vars
  BY <1>4, StutterInv
<1> QED BY <1>1, <1>2, <1>3, <1>4 DEF Next

LEMMA Invariance == Spec => []IInv
<1>1. IInv /\ [Next]_vars => IInv'
  BY NextInv
<1> QED BY <1>1, InitInv, PTL DEF Spec

\* Every variable keeps the shape of the tables, of the queue and of the requests, whatever requests
\* cross, fail or are cut by a restart.
THEOREM RecordTypes == Spec => []TypeOK
<1>1. IInv => TypeOK
  BY ShapeTypes DEF IInv
<1> QED BY <1>1, Invariance, PTL

\* A job that is kept is one that waits, works or was cut.
LEMMA KeptFact ==
    ASSUME Shape, NEW i, Kept(i)
    PROVE  Live(i) \/ Cut(i)
<1>1. PICK n \in DOMAIN jobs : jobs[n].of = i /\ jobs[n].state # "gone"
  BY DEF Kept
<1>2. jobs[n].state \in {"waiting", "active", "cut"}
  BY <1>1, TableFact DEF Job
<1> QED BY <1>1, <1>2 DEF Live, Cut

\* A transcription that says it waits or works has a job that does, or a request about to add it,
\* unless the request ended in between, an outdated request saved the row, or the job was cut: those
\* four ways are the only ones (upload and retry write PENDING before queue.add, the processor writes
\* FAILED before it gives the job back, and retry saves the row it read).
THEOREM NoTranscriptionIsForgotten == Spec => []NoForgottenTranscription
<1>1. IInv => NoForgottenTranscription
  BY KeptFact DEF IInv, TalkInv, NoForgotten, NoForgottenTranscription
<1> QED BY <1>1, Invariance, PTL

\* A meeting the worker leaves at TRANSCRIBING, and nobody else has written since, has a recording
\* that is not COMPLETED, or that an outdated request saved, or whose job was cut (process tells
\* TRANSCRIBED before its job ends; when that fails the row becomes FAILED, or the job is cut).
THEOREM MeetingTellsTheTruth == Spec => []TranscribingIsTrue
<1>1. IInv => TranscribingIsTrue
  BY KeptFact DEF IInv, TalkInv, Transcribing, Told, TranscribingIsTrue
<1> QED BY <1>1, Invariance, PTL

\* NEVER_STORE deletes the audio only once its text is kept, and no save loses it afterwards but that
\* of a retry or an edit that read the row before another wrote it (onTranscriptionCompleted runs
\* after the save, the processor saves the row it read before).
THEOREM TextIsKept == Spec => []TextSurvivesAudio
<1>1. IInv => TextSurvivesAudio
  BY DEF IInv, TalkInv
<1> QED BY <1>1, Invariance, PTL

\* The PDF an exported acta points at holds its text (approve renders the row it holds, under the
\* version of that row), unless since the approval an outdated request saved the acta or its PDF.
THEOREM PdfHoldsTheActa == Spec => []PdfIsTheActa
<1>1. IInv => PdfIsTheActa
  BY DEF IInv, ActaInv
<1> QED BY <1>1, Invariance, PTL

\* Who writes the acta, and what it may write over one that is approved.
LEMMA FrozenStep ==
    ASSUME IInv, [Next]_vars, acta.status \in {"APPROVED", "EXPORTED"}, \A c \in outdated : pc'[c] = pc[c]
    PROVE  /\ acta'.text = acta.text /\ acta'.version = acta.version
           /\ acta'.status \in {acta.status, "EXPORTED"}
<1>1. ASSUME NEW c \in Requests,
             SaveDraft(c) \/ SaveRewrite(c) \/ SaveSubmit(c) \/ SaveApproved(c) \/ Export(c)
      PROVE  /\ acta'.text = acta.text /\ acta'.version = acta.version /\ acta'.status = "EXPORTED"
  <2>1. PICK next, row :
          /\ next \in {"idle", "drafted", "approved", "retain"}
          /\ pc[c] \in Holding \ {"approved", "told"} /\ (pc[c] = "export" => Export(c))
          /\ SaveActa(c, next, row) /\ next # pc[c]
    BY <1>1 DEF SaveDraft, SaveRewrite, SaveSubmit, SaveApproved, Export, Holding
  <2>2. c \notin outdated
    <3>1. PICK held : Go(c, next, held)
      BY <2>1 DEF SaveActa
    <3>2. RequestsOK /\ next \in Pcs
      BY <2>1 DEF IInv, Shape, Pcs
    <3>3. pc'[c] = next
      BY <3>1, <3>2, GoFact
    <3> QED BY <2>1, <3>3
  <2>3. req[c] = acta /\ Export(c)
    BY <2>1, <2>2, Fresh DEF Approving, Holding
  <2>4. acta' = [acta EXCEPT !.status = "EXPORTED", !.pdf = acta.version] /\ acta \in Acta
    BY <2>3, ActaFact DEF Export, SaveActa, WriteActa, IInv, Shape, MinutesOK
  <2> QED BY <2>4 DEF Acta
<1>2. ASSUME UNCHANGED acta
      PROVE  /\ acta'.text = acta.text /\ acta'.version = acta.version /\ acta'.status = acta.status
  BY <1>2
<1>3. CASE \E c \in Requests :
              Upload(c) \/ StartRetry(c) \/ StartEdit(c) \/ StartActa(c) \/ Handler(c) \/ Fail(c)
  <2>1. PICK c \in Requests :
          Upload(c) \/ StartRetry(c) \/ StartEdit(c) \/ StartActa(c) \/ Handler(c) \/ Fail(c)
    BY <1>3
  <2>2. CASE Upload(c) \/ StartRetry(c) \/ StartEdit(c) \/ StartActa(c) \/ Fail(c)
    <3>1. UNCHANGED acta
      BY <2>2 DEF Upload, StartRetry, StartEdit, StartActa, Fail, minutes
    <3> QED BY <1>2, <3>1
  <2>3. CASE Handler(c)
    <3>1. CASE \/ SaveRetry(c) \/ SaveEdit(c) \/ Enqueue(c) \/ Mark(c)
               \/ TellDraft(c) \/ TellApproved(c) \/ StorePdf(c) \/ Retain(c)
      <4>1. UNCHANGED acta
        BY <3>1 DEF SaveRetry, SaveEdit, Enqueue, Mark, TellDraft, TellApproved, StorePdf, Retain, minutes
      <4> QED BY <1>2, <4>1
    <3> QED BY <1>1, <2>3, <3>1 DEF Handler
  <2> QED BY <2>1, <2>2, <2>3
<1>4. CASE \/ Worker \/ WorkerBreaks \/ DeleteAudio \/ ChangePolicy \/ SetStatus \/ Crash
           \/ UNCHANGED vars
  <2>1. UNCHANGED acta
    BY <1>4 DEF Worker, Take, Start, TellStart, TellText, WorkerTells, Hear, SaveText, Forget, SaveFailure,
                WorkerBreaks, DeleteAudio, ChangePolicy, SetStatus, Crash, minutes, vars
  <2> QED BY <1>2, <2>1
<1> QED BY <1>3, <1>4 DEF Next

\* An approved acta changes neither its text nor its version, nor goes back (update, submitReview and
\* approve decide on the row they read), but in the step of a request that had read it before another
\* wrote it.
THEOREM ApprovedStaysFrozen == Spec => ApprovedIsFrozen
<1>1. IInv /\ [Next]_vars =>
        [acta.status \in {"APPROVED", "EXPORTED"} /\ (\A c \in outdated : pc'[c] = pc[c]) =>
          /\ acta'.text = acta.text /\ acta'.version = acta.version
          /\ acta'.status \in {acta.status, "EXPORTED"}]_vars
  BY FrozenStep
<1> QED BY <1>1, Invariance, PTL DEF Spec, ApprovedIsFrozen
=============================================================================
