---------------------------- MODULE MCInboundEmail ----------------------------
(* Constants of the runs of InboundEmail.                                   *)
EXTENDS InboundEmail, TLC

CONSTANTS r1, r2, a1, a2, v, w, x, y, z, old, ana, leo, spam, acme, other

Kind    == (ana :> "CLIENT") @@ (leo :> "STAFF") @@ (spam :> "UNKNOWN")
Company == (ana :> acme) @@ (leo :> other) @@ (spam :> other)

\* One ticket of each company; a message of the first one can be answered by its header.
Before  == <<[company |-> acme, ids |-> {old}], [company |-> other, ids |-> {}]>>

M(mid, from, refs, code) ==
    [mid |-> mid, address |-> from, verdict |-> "PASA", refs |-> refs, code |-> code, empty |-> FALSE]

\* The same mail delivered twice, and one of the staff that answers it.
Twice == <<M(x, ana, {}, 0), M(x, ana, {}, 0), M(y, leo, {x}, 0)>>

\* The code of a ticket of another company, an answer to that mail, an automatic one, two strangers.
Sundry == <<M(x, ana, {}, 2), M(y, ana, {x}, 0),
            [M(v, leo, {}, 0) EXCEPT !.verdict = "DESCARTADO_AUTOMATICO"],
            M(z, spam, {}, 0), M(w, spam, {}, 0)>>
=============================================================================
