----------------------------- MODULE EventDelivery -----------------------------
(****************************************************************************)
(* What the outbox promises of each event of a ticket, whatever fails: while *)
(* the event is pending its mails go to the audiences it was for when it     *)
(* happened, some more than once, and failed tries are counted; sealing it   *)
(* is the last thing that happens to it, and what it keeps to recognise a    *)
(* reply by is of a mail the client was sent.                                *)
(****************************************************************************)
EXTENDS Naturals

CONSTANTS Events, Audiences, Tries

VARIABLES
    state,     \* "none", "pending" or "sealed"
    audience,  \* whom the event is for
    spent,     \* tries that failed
    reached,   \* the audiences a mail went to
    thread     \* whether a reply of the client may be recognised

deliveryVars == <<state, audience, spent, reached, thread>>

\* What an earlier release left pending is for nobody and has no tries left.
DeliveryInit ==
    /\ state \in [Events -> {"none", "pending"}]
    /\ audience = [e \in Events |-> {}]
    /\ spent = [e \in Events |-> IF state[e] = "pending" THEN Tries ELSE 0]
    /\ reached = [e \in Events |-> {}]
    /\ thread = [e \in Events |-> FALSE]

Happen(e) ==
    /\ state[e] = "none"
    /\ state' = [state EXCEPT ![e] = "pending"]
    /\ \E who \in SUBSET Audiences : audience' = [audience EXCEPT ![e] = who]
    /\ UNCHANGED <<spent, reached, thread>>

Tell(e, who) ==
    /\ state[e] = "pending" /\ spent[e] < Tries
    /\ who \in audience[e]
    /\ reached' = [reached EXCEPT ![e] = @ \cup {who}]
    /\ UNCHANGED <<state, audience, spent, thread>>

\* One more failed try, with at least another left.
TryAgain(e) ==
    /\ state[e] = "pending" /\ spent[e] + 1 < Tries
    /\ spent' = [spent EXCEPT ![e] = @ + 1]
    /\ UNCHANGED <<state, audience, reached, thread>>

\* Done, or given up: only the last try, which failed, is counted with it.  Nothing is asked of
\* who was reached: a mail may fail, or be skipped for want of an address, of its template or of the
\* ticket itself.
SealEvent(e, keeps) ==
    /\ state[e] = "pending"
    /\ keeps => "CLIENT" \in reached[e]
    /\ state' = [state EXCEPT ![e] = "sealed"]
    /\ \/ UNCHANGED spent
       \/ spent[e] + 1 = Tries /\ spent' = [spent EXCEPT ![e] = Tries]
    /\ thread' = [thread EXCEPT ![e] = keeps]
    /\ UNCHANGED <<audience, reached>>

DeliveryNext ==
    \E e \in Events :
        \/ Happen(e) \/ TryAgain(e)
        \/ \E who \in Audiences : Tell(e, who)
        \/ \E keeps \in BOOLEAN : SealEvent(e, keeps)

DeliverySpec == DeliveryInit /\ [][DeliveryNext]_deliveryVars
=============================================================================
