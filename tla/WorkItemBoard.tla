----------------------------- MODULE WorkItemBoard -----------------------------
(****************************************************************************)
(* The board of requirements: cards moved between columns and inside them,   *)
(* and the requests of the portal that the house accepts or rejects.  Every  *)
(* write is one transaction that reads a snapshot without locks (REPEATABLE  *)
(* READ) and then writes rows by id.  Rows that two transactions write are   *)
(* locked until the first commits, so a transaction is two steps: Begin, its *)
(* snapshot and all it decides from it, and Commit, all its writes.          *)
(****************************************************************************)
EXTENDS Integers, FiniteSets, Sequences

CONSTANTS
    Requests,   \* HTTP requests that may be in flight at once
    Targets,    \* bound: the statuses cards are moved to
    Urgencies,  \* bound: the priorities of the cards of the house
    MaxItems,   \* bound: rows of work_items
    MaxTold     \* bound: events

Statuses == {"PENDIENTE", "EN_PROCESO", "PRUEBAS", "CERRADO", "BLOQUEADO", "CANCELADO",
             "SOLICITADO", "RECHAZADO"}
PRE_BOARD_STATUSES == {"SOLICITADO", "RECHAZADO"}
Columns == Statuses \ PRE_BOARD_STATUSES
Priorities == {"ALTA", "MEDIA", "BAJA"}

ASSUME BoardAssumption ==
    Targets \subseteq Statuses /\ Urgencies \subseteq Priorities /\ MaxItems \in Nat /\ MaxTold \in Nat

VARIABLES
    items,    \* work_items, by id; NoItem is one deleted, or inserted and not committed
    told,     \* work_item_events of each id: what they say of its status
    pc, req,  \* per request: where it stands, and what it read and decided
    late,     \* history: columns that others changed since the snapshot of a request
    passed,   \* history: requests whose item changed status, or was deleted, since their snapshot
    raced,    \* history: items written by a request that had been passed
    shaken    \* history: columns left without an exact numbering by a race or a deletion

vars == <<items, told, pc, req, late, passed, raced, shaken>>
history == <<late, passed, raced, shaken>>

NoItem == [status |-> "none"]
Item   == [status : Statuses, order : Nat, priority : Priorities, closed : BOOLEAN, portal : BOOLEAN]
Event  == [type : {"REQUESTED", "CREATED", "ACCEPTED", "REJECTED", "MOVED"}, to : Statuses]

Init ==
    /\ items = <<>> /\ told = <<>>
    /\ pc = [c \in Requests |-> "idle"] /\ req = [c \in Requests |-> <<>>]
    /\ late = [c \in Requests |-> {}] /\ passed = {}
    /\ raced = {} /\ shaken = {}

Exists(i) == i \in DOMAIN items /\ items[i] # NoItem

-----------------------------------------------------------------------------
(* The order of a column: board_order, and the id where it ties.             *)

Column(status) == {i \in DOMAIN items : items[i].status = status}

Before(i, j) == \/ items[i].order < items[j].order
                \/ items[i].order = items[j].order /\ i < j

\* How many cards of a column are above this one.
Place(ids, j) == Cardinality({i \in ids : Before(i, j)})

\* reorder: the card at an index among the others, numbered around it.  No index is negative.
Reorder(ids, moved, index) ==
    LET others == ids \ {moved}
        at == IF index < Cardinality(others) THEN index ELSE Cardinality(others)
    IN [j \in ids \cup {moved} |->
           IF j = moved THEN at
           ELSE Place(others, j) + (IF Place(others, j) < at THEN 0 ELSE 1)]

\* The column a card leaves, without it.
ClosedUp_Left(status, moved) == [j \in {} |-> 0]
ClosedUp(status, moved) == [j \in Column(status) \ {moved} |-> Place(Column(status) \ {moved}, j)]

Lower(p) == CASE p = "ALTA" -> {"MEDIA", "BAJA"} [] p = "MEDIA" -> {"BAJA"} [] p = "BAJA" -> {}

\* insertionIndex: above the first card of lower priority, or at the end.
Lowers(ids, priority) == {j \in ids : items[j].priority \in Lower(priority)}
FirstLower(ids, priority) ==
    CHOOSE n \in 0 .. Cardinality(ids) :
        /\ \E j \in Lowers(ids, priority) : Place(ids, j) = n
        /\ \A j \in Lowers(ids, priority) : n <= Place(ids, j)
InsertionIndex(ids, priority) ==
    IF Lowers(ids, priority) = {} THEN Cardinality(ids) ELSE FirstLower(ids, priority)

-----------------------------------------------------------------------------
(* A request: its snapshot and what it decides from it.                      *)

NoOrder == [j \in {} |-> 0]

Plan(op, item, from, to, priority, order, event) ==
    [op |-> op, item |-> item, from |-> from, to |-> to, priority |-> priority, order |-> order,
     event |-> event]

Decide(c, next, plan) ==
    /\ pc' = [pc EXCEPT ![c] = next]
    /\ req' = [req EXCEPT ![c] = plan]

Settled(c) == pc' = [pc EXCEPT ![c] = "idle"] /\ req' = [req EXCEPT ![c] = <<>>]

Room == Cardinality(UNION {{i} \X DOMAIN told[i] : i \in DOMAIN told}) < MaxTold

\* move, before its transaction: the item exists.
StartMove(c) ==
    /\ pc[c] = "idle"
    /\ \E i \in DOMAIN items :
          /\ Exists(i)
          /\ Decide(c, "move", Plan("move", i, items[i].status, items[i].status, "MEDIA", NoOrder, <<>>))
    /\ UNCHANGED <<items, told, history>>

\* assertMovable: what nobody accepted, or somebody rejected, is on no column.
Movable_Any(from) == TRUE
Movable(from) == from \notin PRE_BOARD_STATUSES

\* The status that decides is the one read inside the transaction.
From_Early(c) == req[c].from
From(c) == items[req[c].item].status

\* The column it enters is renumbered around it, and so is the column it leaves.
MoveOrder(i, from, to, index) ==
    LET entered == Reorder(Column(to), i, index)
        left == ClosedUp(from, i)
    IN IF from = to THEN entered
       ELSE [j \in DOMAIN entered \cup DOMAIN left |->
                IF j \in DOMAIN entered THEN entered[j] ELSE left[j]]

\* A reorder inside a column is no transition and tells nothing.
BeginMove(c) ==
    LET i == req[c].item IN
    /\ pc[c] = "move" /\ Exists(i)
    /\ Movable(From(c))
    /\ \E to \in Targets, index \in 0 .. MaxItems :
          LET from == From(c) IN
          /\ from # to => Room
          /\ Decide(c, "commit", Plan("move", i, from, to, "MEDIA",
                 MoveOrder(i, from, to, index),
                 IF from = to THEN <<>> ELSE <<[type |-> "MOVED", to |-> to]>>))
    /\ UNCHANGED <<items, told, history>>

\* create: the row gets its id when it is inserted, after the column was read (0 stands for it).
BeginCreate(c) ==
    /\ pc[c] = "idle"
    /\ \E priority \in Urgencies :
          LET pending == Column("PENDIENTE") IN
          Decide(c, "insert", Plan("create", 0, "PENDIENTE", "PENDIENTE", priority,
              Reorder(pending, 0, InsertionIndex(pending, priority)),
              <<[type |-> "CREATED", to |-> "PENDIENTE"]>>))
    /\ UNCHANGED <<items, told, history>>

Reserve == items' = Append(items, NoItem) /\ told' = Append(told, <<>>)

Insert(c) ==
    LET id == Len(items) + 1
        order == req[c].order
    IN /\ pc[c] = "insert" /\ Len(items) < MaxItems
       /\ Reserve
       /\ Decide(c, "commit", [req[c] EXCEPT !.item = id,
              !.order = [j \in (DOMAIN order \ {0}) \cup {id} |->
                            IF j = id THEN order[0] ELSE order[j]]])
       /\ UNCHANGED history

\* A client of the portal asks: on no column, and nobody's order moves.
Ask(c) ==
    /\ pc[c] = "idle" /\ Len(items) < MaxItems
    /\ Reserve
    /\ Decide(c, "commit", Plan("request", Len(items) + 1, "SOLICITADO", "SOLICITADO", "MEDIA",
           NoOrder, <<[type |-> "REQUESTED", to |-> "SOLICITADO"]>>))
    /\ UNCHANGED history

\* assertEsperandoAceptacion.
Waiting_NotRejected(status) == status # "RECHAZADO"
Waiting(status) == status = "SOLICITADO"

BeginAccept(c) ==
    /\ pc[c] = "idle"
    /\ \E i \in DOMAIN items, priority \in Urgencies :
          LET pending == Column("PENDIENTE") IN
          /\ Exists(i) /\ Waiting(items[i].status) /\ Room
          /\ Decide(c, "commit", Plan("accept", i, items[i].status, "PENDIENTE", priority,
                 Reorder(pending, i, InsertionIndex(pending, priority)),
                 <<[type |-> "ACCEPTED", to |-> "PENDIENTE"]>>))
    /\ UNCHANGED <<items, told, history>>

\* A rejected request enters no column.
BeginReject(c) ==
    /\ pc[c] = "idle"
    /\ \E i \in DOMAIN items :
          /\ Exists(i) /\ Waiting(items[i].status) /\ Room
          /\ Decide(c, "commit", Plan("reject", i, items[i].status, "RECHAZADO", "MEDIA",
                 NoOrder, <<[type |-> "REJECTED", to |-> "RECHAZADO"]>>))
    /\ UNCHANGED <<items, told, history>>

\* A change of priority moves nothing: the position given by hand rules.
BeginPriority(c) ==
    /\ pc[c] = "idle"
    /\ \E i \in DOMAIN items, priority \in Urgencies :
          /\ Exists(i)
          /\ Decide(c, "commit", Plan("priority", i, items[i].status, items[i].status, priority,
                 NoOrder, <<>>))
    /\ UNCHANGED <<items, told, history>>

Removable(status) == status = "PENDIENTE"

\* remove: no transaction, the status is read first and the row is deleted by id.
StartRemove(c) ==
    /\ pc[c] = "idle"
    /\ \E i \in DOMAIN items :
          /\ Exists(i) /\ Removable(items[i].status)
          /\ Decide(c, "delete", Plan("remove", i, items[i].status, items[i].status,
                 "MEDIA", NoOrder, <<>>))
    /\ UNCHANGED <<items, told, history>>

-----------------------------------------------------------------------------
(* The writes.                                                               *)

\* closed_at is set on entering CERRADO and cleared on leaving it; a reorder does not touch it.
Closed(old, from, to) ==
    IF from # to /\ to = "CERRADO" THEN TRUE
    ELSE IF from # to /\ from = "CERRADO" THEN FALSE
    ELSE old

\* The row of the item.  An UPDATE of a row that is gone writes nothing.
Updated(plan, old) ==
    CASE plan.op = "move" -> [old EXCEPT !.status = plan.to, !.closed = Closed(@, plan.from, plan.to)]
      [] plan.op = "accept" -> [old EXCEPT !.status = plan.to, !.priority = plan.priority]
      [] plan.op = "reject" -> [old EXCEPT !.status = plan.to]
      [] plan.op = "priority" -> [old EXCEPT !.priority = plan.priority]

Born(plan) == [status |-> plan.to, order |-> 0, priority |-> plan.priority, closed |-> FALSE,
               portal |-> plan.op = "request"]

Written_Revives(plan, old) ==
    IF plan.op \in {"create", "request"} THEN Born(plan)
    ELSE IF plan.op = "remove" THEN NoItem
    ELSE Updated(plan, old)
Written(plan, old) ==
    IF plan.op \in {"create", "request"} THEN Born(plan)
    ELSE IF plan.op = "remove" \/ old = NoItem THEN NoItem
    ELSE Updated(plan, old)

\* applyOrder: each id of the columns that were read gets its place there, wherever it is now.
Ordered(plan, j, row) ==
    IF row # NoItem /\ j \in DOMAIN plan.order THEN [row EXCEPT !.order = plan.order[j]] ELSE row

After(plan) ==
    [j \in DOMAIN items |->
        Ordered(plan, j, IF j = plan.item THEN Written(plan, items[j]) ELSE items[j])]

\* The columns a request numbers anew.
Numbers(plan) ==
    CASE plan.op = "move" -> {plan.from, plan.to} \cap Columns
      [] plan.op \in {"create", "accept"} -> {"PENDIENTE"}
      [] plan.op \in {"request", "reject", "priority", "remove"} -> {}

\* What the history tells of a write: the columns it changed, and whose item it changed.
Touched(after) ==
    Columns \cap UNION {{items[j].status, after[j].status} : j \in {i \in DOMAIN items :
               \/ items[i].status # after[i].status
               \/ NoItem \notin {items[i], after[i]} /\ items[i].order # after[i].order}}

InFlight(c) == pc[c] \in {"insert", "commit", "delete"}
Watched(c) == IF InFlight(c) THEN Numbers(req[c]) ELSE {}

Told(c, after) ==
    LET plan == req[c]
        i == plan.item
        touched == Touched(after)
    IN /\ late' = [d \in Requests |-> IF d = c THEN {} ELSE late[d] \cup (touched \cap Watched(d))]
       /\ passed' = (passed \ {c}) \cup
              {d \in Requests \ {c} : /\ InFlight(d) /\ req[d].item = i
                                      /\ after[i].status # items[i].status}
       /\ raced' = IF c \in passed /\ plan.op # "priority" THEN raced \cup {i} ELSE raced
       /\ shaken' = (shaken \cup Numbers(plan) \cup touched)
                        \ (IF c \in passed THEN {} ELSE Numbers(plan) \ late[c])

Commit(c) ==
    /\ pc[c] = "commit"
    /\ items' = After(req[c])
    /\ told' = [told EXCEPT ![req[c].item] = @ \o req[c].event]
    /\ Told(c, After(req[c]))
    /\ Settled(c)

Delete(c) ==
    /\ pc[c] = "delete"
    /\ items' = After(req[c])
    /\ Told(c, After(req[c]))
    /\ Settled(c)
    /\ UNCHANGED told

\* Refused, or rolled back whole: what was read is forgotten.
Fail(c) ==
    /\ pc[c] # "idle"
    /\ Settled(c)
    /\ late' = [late EXCEPT ![c] = {}] /\ passed' = passed \ {c}
    /\ UNCHANGED <<items, told, raced, shaken>>

Next == \E c \in Requests :
    \/ StartMove(c) \/ BeginMove(c)
    \/ BeginCreate(c) \/ Insert(c) \/ Ask(c)
    \/ BeginAccept(c) \/ BeginReject(c) \/ BeginPriority(c)
    \/ StartRemove(c) \/ Commit(c) \/ Delete(c) \/ Fail(c)

Spec == Init /\ [][Next]_vars

-----------------------------------------------------------------------------
(* Properties.                                                               *)

\* Every variable keeps the shape the tables and the requests have.
TypeOK ==
    /\ items \in Seq(Item \cup {NoItem})
    /\ told \in Seq(Seq(Event)) /\ Len(told) = Len(items) /\ Len(items) <= MaxItems
    /\ pc \in [Requests -> {"idle", "move", "insert", "commit", "delete"}]
    /\ \A c \in Requests : pc[c] # "idle" =>
          /\ req[c].op \in {"move", "create", "request", "accept", "reject", "priority", "remove"}
          /\ req[c].item \in 0 .. Len(items) /\ (pc[c] # "insert" => req[c].item # 0)
          /\ {req[c].from, req[c].to} \subseteq Statuses /\ req[c].priority \in Priorities
          /\ DOMAIN req[c].order \subseteq 0 .. Len(items)
          /\ req[c].order \in [DOMAIN req[c].order -> Nat]
    /\ late \in [Requests -> SUBSET Statuses] /\ passed \subseteq Requests
    /\ raced \subseteq DOMAIN items /\ shaken \subseteq Columns

\* An item has a closing date exactly while it is in CERRADO, unless a request wrote it that had been
\* passed by another: the status is read again inside the transaction of a move for this.
ClosedIsDated ==
    \A i \in DOMAIN items \ raced : Exists(i) => (items[i].closed <=> items[i].status = "CERRADO")

\* The last event that names a status names the status the item has, unless a request that had been
\* passed wrote it: a move and its event go in one transaction, and a reorder writes none.
StatusIsTold ==
    \A i \in DOMAIN items \ raced : Exists(i) =>
        told[i] # <<>> /\ told[i][Len(told[i])].to = items[i].status

\* What a client asked for is on a column only if the house accepted it, however requests cross.
AcceptedFirst ==
    \A i \in DOMAIN items : Exists(i) /\ items[i].portal /\ items[i].status \notin PRE_BOARD_STATUSES =>
        \E n \in DOMAIN told[i] : told[i][n].type = "ACCEPTED"

\* A request of a client is answered once each time it waits, unless two answers crossed.
AnsweredOnce ==
    LET count(i, P(_)) == Cardinality({n \in DOMAIN told[i] : P(told[i][n])}) IN
    \A i \in DOMAIN items \ raced :
        count(i, LAMBDA e : e.type \in {"ACCEPTED", "REJECTED"}) <= count(i, LAMBDA e : e.to = "SOLICITADO")

\* The cards of a column are numbered 0, 1, 2... with no gap and no tie, except from a change that
\* crossed another in that column, or a deletion, until somebody numbers it again.
Numbered ==
    \A s \in Columns \ shaken :
        {items[i].order : i \in Column(s)} = 0 .. Cardinality(Column(s)) - 1

=============================================================================
