\* Two requests at once over two cards, in a column that closes and the one they are born in.
\* No deadlock check: nothing obliges anybody to send another request.
SPECIFICATION Spec
CONSTANTS
    Requests = {c1, c2}
    Targets = {"PENDIENTE", "CERRADO"}
    Urgencies = {"ALTA", "BAJA"}
    MaxItems = 2
    MaxTold = 4
SYMMETRY RequestSymmetry
INVARIANTS
    TypeOK
    ClosedIsDated
    StatusIsTold
    AcceptedFirst
    AnsweredOnce
    Numbered
CHECK_DEADLOCK FALSE
