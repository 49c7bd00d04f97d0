\* Two requests and the worker on one recording and its acta, one retry by hand, two failures.
\* No deadlock check: nothing obliges anybody to send another request.
SPECIFICATION Spec
CONSTANTS
    Requests = {c1, c2}
    Policies = {"NEVER_STORE", "DELETE_AFTER_APPROVAL", "DELETE_AFTER_DAYS"}
    Mixes = {{"upload", "retry", "edit", "delete"}, {"upload", "acta"}, {"upload", "delete", "policy"},
             {"upload", "retry", "status"}}
    MaxAudios = 1
    MaxRetries = 1
    MaxDrafts = 2
    MaxFaults = 2
SYMMETRY RequestSymmetry
INVARIANTS
    TypeOK
    NoForgottenTranscription
    TranscribingIsTrue
    TextSurvivesAudio
    PdfIsTheActa
PROPERTY ApprovedIsFrozen
CHECK_DEADLOCK FALSE
