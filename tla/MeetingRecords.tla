---------------------------- MODULE MeetingRecords ----------------------------
(****************************************************************************)
(* The recording of a meeting and its minutes: an upload queues a job, a     *)
(* worker turns the audio into text, the acta is drafted from the text,      *)
(* edited and approved, and the retention policy deletes the audio.  No row  *)
(* is locked: a request reads a row, keeps it while it waits for others, and *)
(* saves it whole.  The queue (BullMQ over Redis) outlives the process.      *)
(****************************************************************************)
EXTENDS Integers, Sequences, FiniteSets

CONSTANTS
    Requests,    \* HTTP requests that may be in flight at once
    Policies,    \* the retention policies the workspace may have chosen
    Mixes,       \* bound: the kinds of requests a behaviour may have, one set of them in each
    MaxAudios,   \* bound: recordings of the meeting
    MaxRetries,  \* bound: retries asked for by hand
    MaxDrafts,   \* bound: texts written for the acta
    MaxFaults    \* bound: restarts, and writes or calls that fail outside any try

AudioPolicies == {"KEEP_FOREVER", "DELETE_AFTER_APPROVAL", "DELETE_AFTER_DAYS", "NEVER_STORE"}

Kinds == {"upload", "retry", "edit", "delete", "policy", "acta", "status"}

ASSUME RecordsAssumption ==
    /\ Mixes \subseteq SUBSET Kinds
    /\ Policies \subseteq AudioPolicies
    /\ {MaxAudios, MaxRetries, MaxDrafts, MaxFaults} \subseteq Nat

VARIABLES
    mix,       \* bound: the kinds of requests of this behaviour
    policy,    \* audioRetentionPolicy of the workspace
    meeting,   \* status of the meeting; HELD is any of those only a person sets
    audio,     \* audio_files: whether the file is there, and why it was deleted
    talk,      \* transcriptions, one per audio
    jobs,      \* the queue: every job ever added
    work,      \* the worker: where it stands, its job, and the row it holds
    acta,      \* the acta of the meeting, or NoActa
    pdf,       \* files of the storage: the text of the PDF of each version
    pc, req,   \* per request: where it stands, and the row it holds
    drafts, retries, faults,    \* counters of the bounds
    outdated,  \* history: requests whose row was written by another since they read it
    teller,    \* history: who told the meeting its status last
    halved,    \* history: audios whose request ended between the row that says PENDING and its job
    stale,     \* history: audios whose transcription an outdated request saved over
    trodden    \* history: since the last approval, an outdated request wrote the acta or its PDF

records == <<mix, policy, audio, talk, jobs, work>>
telling == <<meeting, teller>>
history == <<outdated, halved, stale>>
minutes == <<acta, pdf, drafts, trodden>>
vars == <<mix, policy, meeting, audio, talk, jobs, work, acta, pdf, pc, req, drafts, retries, faults,
          outdated, teller, halved, stale, trodden>>

Audio == [file : BOOLEAN, why : {"kept", "NEVER_STORE", "AFTER_APPROVAL", "AFTER_DAYS", "MANUAL"}]
Talk  == [status : {"PENDING", "PROCESSING", "COMPLETED", "FAILED"}, text : {"none", "heard", "edited"}]
\* A job that is cut ended by a write that failed, or stalled twice; another that ended is gone.
Job   == [of : Nat, left : Nat, stalled : BOOLEAN, state : {"waiting", "active", "gone", "cut"}]
NoActa == [status |-> "none"]
Acta  == [status : {"DRAFT", "IN_REVIEW", "APPROVED", "EXPORTED"}, version : Nat, text : Nat, pdf : Nat]

AtRest == [at |-> "rest"]

Init ==
    /\ mix \in Mixes /\ policy \in Policies
    /\ meeting = "HELD" /\ teller = "hand"
    /\ audio = <<>> /\ talk = <<>> /\ jobs = <<>> /\ work = AtRest
    /\ acta = NoActa /\ pdf = [v \in {} |-> 0]
    /\ pc = [c \in Requests |-> "idle"] /\ req = [c \in Requests |-> <<>>]
    /\ drafts = 0 /\ retries = 0 /\ faults = 0
    /\ outdated = {} /\ halved = {} /\ stale = {} /\ trodden = FALSE

-----------------------------------------------------------------------------
(* Requests.  A save writes every column of the row it holds.                *)

Go(c, next, held) == pc' = [pc EXCEPT ![c] = next] /\ req' = [req EXCEPT ![c] = held]
Done(c) == Go(c, "idle", <<>>) /\ outdated' = outdated \ {c}
Step(c, next) == pc' = [pc EXCEPT ![c] = next] /\ UNCHANGED req

\* The others that hold the row which is written now.
HoldTalk(i) == {d \in Requests : pc[d] \in {"retry", "edit"} /\ req[d].of = i}
HoldActa == {d \in Requests : pc[d] \in {"draft", "rewrite", "submit", "approve", "approved", "told", "export"}}

-----------------------------------------------------------------------------
(* Recordings.                                                               *)

Attempts(op) == IF op = "upload" THEN 3 ELSE 1

Upload(c) ==
    /\ "upload" \in mix /\ pc[c] = "idle" /\ Len(audio) < MaxAudios
    /\ audio' = Append(audio, [file |-> TRUE, why |-> "kept"])
    /\ talk' = Append(talk, [status |-> "PENDING", text |-> "none"])
    /\ Go(c, "queue", [op |-> "upload", of |-> Len(audio) + 1])
    /\ UNCHANGED <<telling, mix, policy, jobs, work, minutes, retries, faults, history>>

\* retry: only what failed, says the row that was read.
Retriable(status) == status = "FAILED"

StartRetry(c) ==
    /\ "retry" \in mix /\ pc[c] = "idle" /\ retries < MaxRetries
    /\ \E i \in DOMAIN talk :
          Retriable(talk[i].status) /\ Go(c, "retry", [op |-> "retry", of |-> i, talk |-> talk[i]])
    /\ retries' = retries + 1
    /\ UNCHANGED <<telling, records, minutes, faults, history>>

\* The text is corrected by hand, whatever the status.
StartEdit(c) ==
    /\ "edit" \in mix /\ pc[c] = "idle"
    /\ \E i \in DOMAIN talk : Go(c, "edit", [op |-> "edit", of |-> i, talk |-> talk[i]])
    /\ UNCHANGED <<telling, records, minutes, retries, faults, history>>

WriteTalk(c, i, row) ==
    /\ talk' = [talk EXCEPT ![i] = row]
    /\ stale' = IF c \in outdated THEN stale \cup {i} ELSE stale

SaveRetry(c) ==
    /\ pc[c] = "retry"
    /\ WriteTalk(c, req[c].of, [req[c].talk EXCEPT !.status = "PENDING"])
    /\ Go(c, "queue", [op |-> "retry", of |-> req[c].of])
    /\ outdated' = (outdated \cup HoldTalk(req[c].of)) \ {c}
    /\ UNCHANGED <<telling, mix, policy, audio, jobs, work, minutes, retries, faults, halved>>

SaveEdit(c) ==
    /\ pc[c] = "edit"
    /\ WriteTalk(c, req[c].of, [req[c].talk EXCEPT !.text = "edited"])
    /\ Go(c, "idle", <<>>)
    /\ outdated' = (outdated \cup HoldTalk(req[c].of)) \ {c}
    /\ UNCHANGED <<telling, mix, policy, audio, jobs, work, minutes, retries, faults, halved>>

\* queue.add, after the row says PENDING.
Enqueue(c) ==
    /\ pc[c] = "queue"
    /\ jobs' = Append(jobs, [of |-> req[c].of, left |-> Attempts(req[c].op), stalled |-> FALSE,
                             state |-> "waiting"])
    /\ IF req[c].op = "upload" THEN Step(c, "mark") ELSE Go(c, "idle", <<>>)
    /\ UNCHANGED <<telling, mix, policy, audio, talk, work, minutes, retries, faults, history>>

Statuses == {"HELD", "TRANSCRIBING", "TRANSCRIBED", "ACTA_DRAFT", "ACTA_APPROVED"}

\* setStatus of the meeting writes one column, whatever it says.
Tell(status, by) == meeting' = status /\ teller' = by

\* The upload tells the meeting after its job is in the queue.
Mark(c) ==
    /\ pc[c] = "mark"
    /\ Tell("TRANSCRIBING", "upload")
    /\ Go(c, "idle", <<>>)
    /\ UNCHANGED <<records, minutes, retries, faults, history>>

\* The meeting is edited by hand: the form takes any status, at any time.
SetStatus ==
    /\ "status" \in mix
    /\ \E status \in Statuses : Tell(status, "hand")
    /\ UNCHANGED <<records, minutes, pc, req, retries, faults, history>>

-----------------------------------------------------------------------------
(* The worker: one job at a time, in any order (attempts wait their backoff).*)

Take ==
    /\ work.at = "rest"
    /\ \E n \in DOMAIN jobs :
          /\ jobs[n].state = "waiting"
          /\ jobs' = [jobs EXCEPT ![n].state = "active", ![n].left = @ - 1]
          /\ work' = [at |-> "start", job |-> n, talk |-> talk[jobs[n].of]]
    /\ UNCHANGED <<telling, mix, policy, audio, talk, minutes, pc, req, retries, faults, history>>

Of == jobs[work.job].of

WorkerSaves(row, next) ==
    /\ talk' = [talk EXCEPT ![Of] = row]
    /\ outdated' = outdated \cup HoldTalk(Of)
    /\ work' = [work EXCEPT !.at = next, !.talk = row]

Start ==
    /\ work.at = "start"
    /\ WorkerSaves([work.talk EXCEPT !.status = "PROCESSING"], "started")
    /\ UNCHANGED <<telling, mix, policy, audio, jobs, minutes, pc, req, retries, faults, halved, stale>>

WorkerTells(status, next) ==
    /\ Tell(status, "worker")
    /\ work' = [work EXCEPT !.at = next]
    /\ UNCHANGED <<mix, policy, audio, talk, jobs, minutes, pc, req, retries, faults, history>>

TellStart == work.at = "started" /\ WorkerTells("TRANSCRIBING", "hear")

\* The provider answers or fails; of a file that is gone there is nothing to hear.
Hear ==
    /\ work.at = "hear"
    /\ \/ /\ audio[Of].file
          /\ work' = [work EXCEPT !.at = "save", !.talk = [status |-> "COMPLETED", text |-> "heard"]]
       \/ work' = [work EXCEPT !.at = "fail"]
    /\ UNCHANGED <<telling, mix, policy, audio, talk, jobs, minutes, pc, req, retries, faults, history>>

SaveText ==
    /\ work.at = "save"
    /\ WorkerSaves(work.talk, "saved")
    /\ UNCHANGED <<telling, mix, policy, audio, jobs, minutes, pc, req, retries, faults, halved, stale>>

Heard_Transcribing == "TRANSCRIBING"
Heard == "TRANSCRIBED"

TellText == work.at = "saved" /\ WorkerTells(Heard, "forget")

\* deleteAudioFile: the file is removed, then the row is marked.
Forgotten(row, why) == IF row.why = "kept" THEN [file |-> FALSE, why |-> why] ELSE row

\* A removal that fails leaves the file of a row that is marked all the same; a mark that fails, the
\* row of a file that is gone; a workspace or a row that cannot be read, both.
Spoilt(row, why) ==
    IF row.why = "kept" THEN {row, [row EXCEPT !.why = why], [row EXCEPT !.file = FALSE]} ELSE {row}

\* The audios among ids are to be deleted: all are, or in a failure any of them is spoilt.
DeleteAll(ids, why) ==
    \/ audio' = [i \in DOMAIN audio |-> IF i \in ids THEN Forgotten(audio[i], why) ELSE audio[i]]
       /\ UNCHANGED faults
    \/ /\ ids # {} /\ faults < MaxFaults /\ faults' = faults + 1
       /\ audio' \in [DOMAIN audio -> Audio]
       /\ \A i \in DOMAIN audio :
             audio'[i] \in (IF i \in ids THEN Spoilt(audio[i], why) \cup {Forgotten(audio[i], why)} ELSE {audio[i]})

Finish(state) ==
    /\ jobs' = [jobs EXCEPT ![work.job].state = state]
    /\ work' = AtRest

\* onTranscriptionCompleted, whose errors are swallowed.
Forget ==
    /\ work.at = "forget"
    /\ DeleteAll(IF policy = "NEVER_STORE" THEN {Of} ELSE {}, "NEVER_STORE")
    /\ Finish("gone")
    /\ UNCHANGED <<telling, mix, policy, talk, minutes, pc, req, retries, history>>

\* The error is written and thrown again: the queue gives the job another attempt, if any is left.
After_OffByOne(end) == IF jobs[work.job].left >= 0 THEN "waiting" ELSE end
After(end) == IF jobs[work.job].left > 0 THEN "waiting" ELSE end

Broken_Processing(row) == row
Broken_Blank(row) == [row EXCEPT !.status = "FAILED", !.text = "none"]
Broken(row) == [row EXCEPT !.status = "FAILED"]

SaveFailure ==
    /\ work.at = "fail"
    /\ talk' = [talk EXCEPT ![Of] = Broken(work.talk)]
    /\ outdated' = outdated \cup HoldTalk(Of)
    /\ Finish(After("gone"))
    /\ UNCHANGED <<telling, mix, policy, audio, minutes, pc, req, retries, faults, halved, stale>>

\* A read or a write of the worker fails.  Inside the try it is the error that is written; before
\* it, and when that write fails, nothing is, and the job is cut if it was its last attempt.
WorkerBreaks ==
    /\ faults < MaxFaults /\ faults' = faults + 1
    /\ \/ work.at \in {"start", "started", "fail"} /\ Finish(After("cut"))
       \/ work.at \in {"save", "saved"} /\ work' = [work EXCEPT !.at = "fail"] /\ UNCHANGED jobs
    /\ UNCHANGED <<telling, mix, policy, audio, talk, minutes, pc, req, retries, history>>

-----------------------------------------------------------------------------
(* Retention.                                                                *)

\* An administrator deletes the audios by hand, or the nightly check those past their days.
DeleteAudio ==
    /\ "delete" \in mix
    /\ \E i \in DOMAIN audio, why \in {"MANUAL", "AFTER_DAYS"} :
          /\ audio[i].why = "kept"
          /\ why = "AFTER_DAYS" => policy = "DELETE_AFTER_DAYS"
          /\ DeleteAll({i}, why)
    /\ UNCHANGED <<telling, mix, policy, talk, jobs, work, minutes, pc, req, retries, history>>

\* Other choices of the workspace do not touch the past.
ChangePolicy ==
    /\ "policy" \in mix
    /\ policy' \in Policies \ {policy}
    /\ UNCHANGED <<telling, mix, audio, talk, jobs, work, minutes, pc, req, retries, faults, history>>

-----------------------------------------------------------------------------
(* The acta.                                                                 *)

WriteActa(c, row) ==
    /\ acta' = row
    /\ trodden' = (c \in outdated \/ (trodden /\ row.status # "APPROVED"))

\* generateFromMeeting: a new acta, or a new text for one in DRAFT.
Draftable(row) == row.status \in {"none", "DRAFT"}

\* regenerateFromAI waits for the provider between its reading and its save; update does not.
Editable_Exported(status) == status # "APPROVED"
Editable(status) == status \notin {"APPROVED", "EXPORTED"}

Submittable(status) == status = "DRAFT"

Approvable(status) == status \in {"DRAFT", "IN_REVIEW"}

StartActa(c) ==
    /\ "acta" \in mix /\ pc[c] = "idle"
    /\ \/ Draftable(acta) /\ drafts < MaxDrafts /\ Go(c, "draft", acta)
       \/ acta # NoActa /\ Editable(acta.status) /\ drafts < MaxDrafts /\ Go(c, "rewrite", acta)
       \/ acta # NoActa /\ Submittable(acta.status) /\ Go(c, "submit", acta)
       \/ acta # NoActa /\ Approvable(acta.status) /\ Go(c, "approve", acta)
    /\ UNCHANGED <<telling, records, minutes, retries, faults, history>>

SaveActa(c, next, row) ==
    /\ WriteActa(c, row)
    /\ IF next = "idle" THEN Go(c, "idle", <<>>) ELSE Go(c, next, row)
    /\ outdated' = (outdated \cup HoldActa) \ {c}
    /\ UNCHANGED <<telling, records, retries, faults, halved, stale>>

\* meeting_id is unique: the second of two first drafts is refused.
SaveDraft(c) ==
    /\ pc[c] = "draft" /\ (req[c] = NoActa => acta = NoActa)
    /\ drafts < MaxDrafts /\ drafts' = drafts + 1
    /\ SaveActa(c, "drafted", IF req[c] = NoActa
                           THEN [status |-> "DRAFT", version |-> 1, text |-> drafts', pdf |-> 0]
                           ELSE [req[c] EXCEPT !.text = drafts'])
    /\ UNCHANGED pdf

TellDraft(c) ==
    /\ pc[c] = "drafted"
    /\ Tell("ACTA_DRAFT", "acta")
    /\ Done(c)
    /\ UNCHANGED <<records, minutes, retries, faults, halved, stale>>

SaveRewrite(c) ==
    /\ pc[c] = "rewrite"
    /\ drafts < MaxDrafts /\ drafts' = drafts + 1
    /\ SaveActa(c, "idle", [req[c] EXCEPT !.version = @ + 1, !.text = drafts'])
    /\ UNCHANGED pdf

SaveSubmit(c) ==
    /\ pc[c] = "submit"
    /\ SaveActa(c, "idle", [req[c] EXCEPT !.status = "IN_REVIEW"])
    /\ UNCHANGED <<pdf, drafts>>

SaveApproved(c) ==
    /\ pc[c] = "approve"
    /\ SaveActa(c, "approved", [req[c] EXCEPT !.status = "APPROVED"])
    /\ UNCHANGED <<pdf, drafts>>

TellApproved(c) ==
    /\ pc[c] = "approved"
    /\ Tell("ACTA_APPROVED", "acta")
    /\ Step(c, "told")
    /\ UNCHANGED <<records, minutes, retries, faults, history>>

\* The PDF is rendered from the row the request holds, and stored under the key of its version.
StorePdf(c) ==
    /\ pc[c] = "told"
    /\ pdf' = [v \in DOMAIN pdf \cup {req[c].version} |->
                  IF v = req[c].version THEN req[c].text ELSE pdf[v]]
    /\ trodden' = (trodden \/ c \in outdated)
    /\ Step(c, "export")
    /\ UNCHANGED <<telling, records, acta, drafts, retries, faults, history>>

Export(c) ==
    /\ pc[c] = "export"
    /\ SaveActa(c, "retain", [req[c] EXCEPT !.status = "EXPORTED", !.pdf = req[c].version])
    /\ UNCHANGED <<pdf, drafts>>

\* onActaApproved, whose errors are swallowed: the audios of the meeting, if the policy says so.
Retain(c) ==
    /\ pc[c] = "retain"
    /\ DeleteAll(IF policy = "DELETE_AFTER_APPROVAL" THEN DOMAIN audio ELSE {}, "AFTER_APPROVAL")
    /\ Done(c)
    /\ UNCHANGED <<telling, mix, policy, talk, jobs, work, minutes, retries, halved, stale>>

-----------------------------------------------------------------------------
(* Failures.                                                                 *)

\* What a request leaves half done: a row that says PENDING and no job.
Halved(cs) == {req[c].of : c \in {d \in cs : pc[d] = "queue"}}

\* A write of the request fails, or the second first draft is refused.
Fail(c) ==
    /\ pc[c] # "idle" /\ faults < MaxFaults /\ faults' = faults + 1
    /\ halved' = halved \cup Halved({c})
    /\ Done(c)
    /\ UNCHANGED <<telling, records, minutes, retries, stale>>

\* A restart.  Redis gives the job of the worker back once; the second time it is failed.
Crash ==
    /\ faults < MaxFaults /\ faults' = faults + 1
    /\ pc' = [c \in Requests |-> "idle"] /\ req' = [c \in Requests |-> <<>>] /\ outdated' = {}
    /\ halved' = halved \cup Halved(Requests)
    /\ LET lost == work # AtRest /\ jobs[work.job].stalled IN
       jobs' = IF work = AtRest THEN jobs
                  ELSE [jobs EXCEPT ![work.job].stalled = TRUE, ![work.job].left = @ + 1,
                                    ![work.job].state = IF lost THEN "cut" ELSE "waiting"]
    /\ work' = AtRest
    /\ UNCHANGED <<telling, mix, policy, audio, talk, minutes, retries, stale>>

Worker == Take \/ Start \/ TellStart \/ Hear \/ SaveText \/ TellText \/ Forget \/ SaveFailure

Handler(c) ==
    \/ SaveRetry(c) \/ SaveEdit(c) \/ Enqueue(c) \/ Mark(c)
    \/ SaveDraft(c) \/ TellDraft(c) \/ SaveRewrite(c) \/ SaveSubmit(c)
    \/ SaveApproved(c) \/ TellApproved(c) \/ StorePdf(c) \/ Export(c) \/ Retain(c)

Next ==
    \/ \E c \in Requests :
          \/ Upload(c) \/ StartRetry(c) \/ StartEdit(c) \/ StartActa(c) \/ Handler(c) \/ Fail(c)
    \/ Worker \/ WorkerBreaks \/ DeleteAudio \/ ChangePolicy \/ SetStatus \/ Crash

Spec == Init /\ [][Next]_vars

-----------------------------------------------------------------------------
(* Properties.                                                               *)

TypeOK ==
    /\ mix \in Mixes /\ policy \in Policies
    /\ meeting \in Statuses /\ teller \in {"hand", "upload", "worker", "acta"}
    /\ audio \in Seq(Audio) /\ talk \in Seq(Talk) /\ Len(talk) = Len(audio)
    /\ jobs \in Seq(Job) /\ \A n \in DOMAIN jobs : jobs[n].of \in DOMAIN talk
    /\ work.at \in {"rest", "start", "started", "hear", "save", "saved", "forget", "fail"}
    /\ work # AtRest => work.job \in DOMAIN jobs /\ work.talk \in Talk
    /\ acta \in Acta \cup {NoActa} /\ pdf \in [DOMAIN pdf -> 1 .. MaxDrafts]
    /\ pc \in [Requests -> {"idle", "queue", "mark", "retry", "edit", "draft", "drafted", "rewrite", "submit", "approve",
                            "approved", "told", "export", "retain"}]
    /\ outdated \subseteq {c \in Requests : pc[c] # "idle"} /\ (halved \cup stale) \subseteq DOMAIN audio
    /\ {drafts, retries, faults} \subseteq Nat /\ trodden \in BOOLEAN

Live(i) == \E n \in DOMAIN jobs : jobs[n].of = i /\ jobs[n].state \in {"waiting", "active"}
Cut(i) == \E n \in DOMAIN jobs : jobs[n].of = i /\ jobs[n].state = "cut"

\* A transcription that says it waits or works has a job that waits or works, or a request about to
\* add it.  retry takes only what is FAILED, so one without is lost.  The code loses it in four ways,
\* all of them excepted here: the request ended between the row and the queue (halved), a retry or an
\* edit saved the row it had read before another wrote it (stale), a write of the last attempt failed,
\* or the job stalled twice (Cut).  A recording that met one of them is excepted for good.
NoForgottenTranscription ==
    \A i \in DOMAIN talk \ (halved \cup stale) :
        talk[i].status \in {"PENDING", "PROCESSING"} =>
            \/ Live(i) \/ Cut(i)
            \/ \E c \in Requests : pc[c] = "queue" /\ req[c].of = i

\* A worker that leaves the meeting at TRANSCRIBING leaves a recording that it could not transcribe:
\* one that is not COMPLETED, or was made so by an outdated save, or whose last attempt was cut.
\* What a person or an upload says of the meeting is theirs, and may be false: the upload says
\* TRANSCRIBING even after its job ended.
TranscribingIsTrue ==
    meeting = "TRANSCRIBING" /\ teller = "worker" /\ (\A i \in DOMAIN talk : ~Live(i)) =>
        \E i \in DOMAIN talk : talk[i].status # "COMPLETED" \/ i \in stale \/ Cut(i)

\* Under NEVER_STORE the audio goes only when its text (it may be an empty one) is kept, and the text
\* stays, though a job that was retried by hand during a backoff runs again without the audio.  The
\* exception is a retry or an edit that read the row before the text was there and saves it after:
\* the text is lost, and the audio with it.
TextSurvivesAudio ==
    \A i \in DOMAIN audio \ stale : audio[i].why = "NEVER_STORE" => talk[i].text # "none"

\* An approved acta changes neither its text, nor its version, nor goes back, but in the step of a
\* request that had read it before another wrote it.
ApprovedIsFrozen ==
    [][acta.status \in {"APPROVED", "EXPORTED"} /\ (\A c \in outdated : pc'[c] = pc[c]) =>
          /\ acta'.text = acta.text /\ acta'.version = acta.version
          /\ acta'.status \in {acta.status, "EXPORTED"}]_vars

\* The PDF an exported acta points at holds its text, under its version, unless since its approval
\* a request that had read it before another wrote it saved the acta or its PDF.
PdfIsTheActa ==
    acta.status = "EXPORTED" /\ ~trodden => acta.pdf = acta.version /\ pdf[acta.pdf] = acta.text

=============================================================================
