------------------------------ MODULE MessageOnce ------------------------------
(****************************************************************************)
(* What the ingestion of mail promises of each Message-ID, whatever fails:   *)
(* it is claimed before anything is written for it, it is written for at     *)
(* most once, and a claim given back does not allow a second writing.        *)
(****************************************************************************)
EXTENDS Naturals

CONSTANT Mids

VARIABLES held,     \* the Message-IDs claimed by a row
          written   \* tickets and messages written for each one

onceVars == <<held, written>>

OnceInit == held = {} /\ written = [i \in Mids |-> 0]

Claim(i) == i \notin held /\ held' = held \cup {i} /\ UNCHANGED written

WriteOnce(i) ==
    /\ i \in held /\ written[i] = 0
    /\ written' = [written EXCEPT ![i] = 1]
    /\ UNCHANGED held

Release(i) == i \in held /\ held' = held \ {i} /\ UNCHANGED written

OnceNext == \E i \in Mids : Claim(i) \/ WriteOnce(i) \/ Release(i)

OnceSpec == OnceInit /\ [][OnceNext]_onceVars
=============================================================================
