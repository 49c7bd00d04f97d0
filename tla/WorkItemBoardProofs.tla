-------------------------- MODULE WorkItemBoardProofs --------------------------
(***************************************************************************)
(* Theorems of WorkItemBoard: the types, and what a card says of itself.    *)
(* A plan in flight was computed from a snapshot; what of it is still true  *)
(* when it commits is what the history marks (passed) or what no request    *)
(* undoes: an event told, the portal a card came from.                      *)
(***************************************************************************)
EXTENDS WorkItemBoard, SequenceTheorems, FiniteSetTheorems, NaturalsInduction, TLAPS

Ops == {"move", "create", "request", "accept", "reject", "priority", "remove"}

USE DEF Statuses, PRE_BOARD_STATUSES, Columns, Priorities, Ops

-----------------------------------------------------------------------------
(* The order of a column.                                                   *)

\* A card is not the absence of one.
LEMMA ItemFact == /\ \A x \in Item : x # NoItem /\ x.status \in Statuses
                  /\ NoItem.status = "none"
BY DEF Item, NoItem

\* The identifiers in use.
LEMMA Ids == TypeOK => /\ DOMAIN items = 1 .. Len(items) /\ Len(items) \in Nat
                       /\ DOMAIN told = DOMAIN items
                       /\ \A j \in DOMAIN items : items[j] \in Item \cup {NoItem}
                       /\ \A j \in DOMAIN items : told[j] \in Seq(Event)
<1> SUFFICES ASSUME TypeOK
             PROVE  /\ DOMAIN items = 1 .. Len(items) /\ Len(items) \in Nat
                    /\ DOMAIN told = DOMAIN items
                    /\ \A j \in DOMAIN items : items[j] \in Item \cup {NoItem}
                    /\ \A j \in DOMAIN items : told[j] \in Seq(Event)
  OBVIOUS
<1>1. items \in Seq(Item \cup {NoItem}) /\ told \in Seq(Seq(Event)) /\ Len(told) = Len(items)
  BY DEF TypeOK
<1> QED BY <1>1

\* Sets of identifiers are finite, and the columns are among them.
LEMMA SomeIds ==
    ASSUME TypeOK, NEW ids \in SUBSET (0 .. Len(items))
    PROVE  IsFiniteSet(ids) /\ Cardinality(ids) \in Nat
<1>1. IsFiniteSet(0 .. Len(items))
  BY Ids, FS_Interval
<1>2. IsFiniteSet(ids)
  BY <1>1, FS_Subset
<1> QED BY <1>2, FS_CardinalityType

LEMMA ColumnFact ==
    ASSUME TypeOK, NEW s
    PROVE  Column(s) \subseteq 1 .. Len(items) /\ Column(s) \subseteq 0 .. Len(items)
BY Ids DEF Column

LEMMA PlaceFact ==
    ASSUME TypeOK, NEW ids \in SUBSET (0 .. Len(items)), NEW j
    PROVE  Place(ids, j) \in Nat /\ Place(ids, j) <= Cardinality(ids)
<1> DEFINE above == {i \in ids : Before(i, j)}
<1>1. above \in SUBSET ids /\ above \in SUBSET (0 .. Len(items))
  OBVIOUS
<1>2. Cardinality(above) \in Nat
  BY <1>1, SomeIds
<1>3. Cardinality(above) <= Cardinality(ids)
  BY <1>1, SomeIds, FS_Subset
<1> QED BY <1>2, <1>3 DEF Place

\* A set of naturals has a least one.
LEMMA LeastFact ==
    ASSUME NEW T, T \subseteq Nat, T # {}
    PROVE  \E n \in T : \A k \in T : n <= k
<1>1. PICK n \in T : \A y \in T : ~ (<<y, n>> \in OpToRel(<, Nat))
  BY NatLessThanWellFounded, WFMin, Zenon
<1>2. \A y \in T : ~ (y < n)
  BY <1>1 DEF OpToRel
<1> QED BY <1>2

\* insertionIndex gives an index.
LEMMA InsertionFact ==
    ASSUME TypeOK, NEW ids \in SUBSET (0 .. Len(items)), NEW p
    PROVE  InsertionIndex(ids, p) \in Nat
<1>1. CASE Lowers(ids, p) = {}
  BY <1>1, SomeIds DEF InsertionIndex
<1>2. CASE Lowers(ids, p) # {}
  <2> DEFINE places == {Place(ids, j) : j \in Lowers(ids, p)}
  <2>1. places \subseteq Nat /\ places # {} /\ \A n \in places : n <= Cardinality(ids)
    BY <1>2, PlaceFact
  <2>2. PICK n \in places : \A k \in places : n <= k
    BY <2>1, LeastFact
  <2>3. /\ n \in 0 .. Cardinality(ids)
        /\ \E j \in Lowers(ids, p) : Place(ids, j) = n
        /\ \A j \in Lowers(ids, p) : n <= Place(ids, j)
    <3>1. Cardinality(ids) \in Nat
      BY SomeIds
    <3> QED BY <2>1, <2>2, <3>1
  <2>4. FirstLower(ids, p) \in 0 .. Cardinality(ids)
    BY <2>3 DEF FirstLower
  <2>5. Cardinality(ids) \in Nat
    BY SomeIds
  <2> QED BY <1>2, <2>4, <2>5 DEF InsertionIndex
<1> QED BY <1>1, <1>2

\* reorder numbers the column and the card that enters it.
LEMMA ReorderFact ==
    ASSUME TypeOK, NEW ids \in SUBSET (1 .. Len(items)), NEW moved \in 0 .. Len(items), NEW index \in Nat
    PROVE  Reorder(ids, moved, index) \in [ids \cup {moved} -> Nat]
<1> DEFINE others == ids \ {moved}
           at == IF index < Cardinality(others) THEN index ELSE Cardinality(others)
<1>1. others \in SUBSET (0 .. Len(items))
  BY Ids
<1>2. Cardinality(others) \in Nat
  BY <1>1, SomeIds
<1>3. at \in Nat
  BY <1>2
<1>4. \A j : Place(others, j) \in Nat
  BY <1>1, PlaceFact
<1> HIDE DEF others, at
<1>5. \A j \in ids \cup {moved} :
         (IF j = moved THEN at
          ELSE Place(others, j) + (IF Place(others, j) < at THEN 0 ELSE 1)) \in Nat
  BY <1>3, <1>4
<1>6. Reorder(ids, moved, index) =
        [j \in ids \cup {moved} |->
           IF j = moved THEN at ELSE Place(others, j) + (IF Place(others, j) < at THEN 0 ELSE 1)]
  BY DEF Reorder, others, at
<1> QED BY <1>5, <1>6

LEMMA ClosedUpFact ==
    ASSUME TypeOK, NEW s, NEW i
    PROVE  ClosedUp(s, i) \in [Column(s) \ {i} -> Nat]
<1>1. Column(s) \ {i} \in SUBSET (0 .. Len(items))
  BY ColumnFact
<1>2. \A j \in Column(s) \ {i} : Place(Column(s) \ {i}, j) \in Nat
  BY <1>1, PlaceFact
<1> QED BY <1>2 DEF ClosedUp

LEMMA MoveOrderFact ==
    ASSUME TypeOK, NEW i \in 1 .. Len(items), NEW from, NEW to, NEW index \in Nat
    PROVE  /\ DOMAIN MoveOrder(i, from, to, index) \subseteq 0 .. Len(items)
           /\ MoveOrder(i, from, to, index) \in [DOMAIN MoveOrder(i, from, to, index) -> Nat]
<1> DEFINE entered == Reorder(Column(to), i, index)
           left == ClosedUp(from, i)
<1>0. Column(to) \in SUBSET (1 .. Len(items)) /\ i \in 0 .. Len(items)
  BY ColumnFact, Ids
<1>a. entered \in [Column(to) \cup {i} -> Nat]
  BY <1>0, ReorderFact
<1>1. entered \in [Column(to) \cup {i} -> Nat] /\ left \in [Column(from) \ {i} -> Nat]
  BY <1>a, ClosedUpFact
<1>2. /\ Column(to) \cup {i} \subseteq 0 .. Len(items)
      /\ Column(from) \ {i} \subseteq 0 .. Len(items)
  BY ColumnFact, Ids
<1> HIDE DEF entered, left
<1>3. MoveOrder(i, from, to, index) =
        IF from = to THEN entered
        ELSE [j \in DOMAIN entered \cup DOMAIN left |->
                IF j \in DOMAIN entered THEN entered[j] ELSE left[j]]
  BY DEF MoveOrder, entered, left
<1> QED BY <1>1, <1>2, <1>3

-----------------------------------------------------------------------------
(* What a request in flight knows.                                          *)

\* The event of a plan names the status the plan leads to.
Says(p) ==
    /\ p.op = "move" => /\ p.from \in Columns
                        /\ p.event = IF p.from = p.to THEN <<>> ELSE <<[type |-> "MOVED", to |-> p.to]>>
    /\ p.op = "create" => p.to = "PENDIENTE" /\ p.event = <<[type |-> "CREATED", to |-> p.to]>>
    /\ p.op = "request" => p.to = "SOLICITADO" /\ p.event = <<[type |-> "REQUESTED", to |-> p.to]>>
    /\ p.op = "accept" => /\ p.from = "SOLICITADO" /\ p.to = "PENDIENTE"
                          /\ p.event = <<[type |-> "ACCEPTED", to |-> p.to]>>
    /\ p.op = "reject" => /\ p.from = "SOLICITADO" /\ p.to = "RECHAZADO"
                          /\ p.event = <<[type |-> "REJECTED", to |-> p.to]>>
    /\ p.op = "priority" => p.event = <<>>

IsPlan(p) == p = Plan(p.op, p.item, p.from, p.to, p.priority, p.order, p.event)

PlanOK(c) ==
    /\ pc[c] = "move" => req[c].op = "move"
    /\ pc[c] = "insert" => req[c].op = "create" /\ 0 \in DOMAIN req[c].order /\ IsPlan(req[c])
    /\ pc[c] = "delete" => req[c].op = "remove"
    /\ pc[c] = "commit" => req[c].op # "remove"
    /\ pc[c] \in {"insert", "commit"} => Says(req[c])

Accepted(i) == \E n \in DOMAIN told[i] : told[i][n].type = "ACCEPTED"

\* A request that was not passed commits over the status it read; a card of the portal that
\* somebody moves was accepted, passed or not.
Knows(c) == pc[c] = "commit" =>
    /\ c \notin passed /\ req[c].op \in {"move", "accept", "reject"} =>
          items[req[c].item].status = req[c].from
    /\ req[c].op = "move" /\ items[req[c].item] # NoItem /\ items[req[c].item].portal =>
          Accepted(req[c].item)

\* A row that is inserted and not committed is nobody else's.
Fresh(c) == pc[c] = "commit" /\ req[c].op \in {"create", "request"} =>
    /\ items[req[c].item] = NoItem /\ told[req[c].item] = <<>>
    /\ \A d \in Requests \ {c} : pc[d] # "idle" => req[d].item # req[c].item

\* What a card says of itself.
RowOK(i) == items[i] # NoItem =>
    /\ items[i].portal /\ items[i].status \notin PRE_BOARD_STATUSES => Accepted(i)
    /\ i \notin raced => /\ told[i] # <<>> /\ told[i][Len(told[i])].to = items[i].status
                         /\ items[i].closed <=> items[i].status = "CERRADO"

IInv == /\ TypeOK /\ DOMAIN req = Requests
        /\ \A c \in Requests : PlanOK(c) /\ Knows(c) /\ Fresh(c)
        /\ \A i \in DOMAIN items : RowOK(i)

GoodPlan(p) ==
    /\ p.op \in Ops /\ p.item \in 0 .. Len(items)
    /\ {p.from, p.to} \subseteq Statuses /\ p.priority \in Priorities
    /\ DOMAIN p.order \subseteq 0 .. Len(items) /\ p.order \in [DOMAIN p.order -> Nat]

LEMMA PlanFact ==
    ASSUME IInv, NEW c \in Requests, pc[c] # "idle"
    PROVE  GoodPlan(req[c]) /\ (pc[c] # "insert" => req[c].item # 0)
BY DEF IInv, TypeOK, GoodPlan

\* The fields of a plan.
LEMMA Fields ==
    ASSUME NEW op, NEW item, NEW from, NEW to, NEW priority, NEW order, NEW event
    PROVE  LET p == Plan(op, item, from, to, priority, order, event) IN
           /\ p.op = op /\ p.item = item /\ p.from = from /\ p.to = to /\ p.priority = priority
           /\ p.order = order /\ p.event = event
BY DEF Plan

\* The plan of an insertion gets its identifier.
LEMMA Renamed ==
    ASSUME NEW r, IsPlan(r), NEW id, NEW new
    PROVE  LET p == [r EXCEPT !.item = id, !.order = new] IN
           /\ p.op = r.op /\ p.item = id /\ p.from = r.from /\ p.to = r.to /\ p.priority = r.priority
           /\ p.order = new /\ p.event = r.event
<1> PICK op, item, from, to, priority, order, event :
        r = [op |-> op, item |-> item, from |-> from, to |-> to, priority |-> priority,
             order |-> order, event |-> event]
  BY DEF IsPlan, Plan
<1> QED OBVIOUS

LEMMA NoOrderFact == DOMAIN NoOrder = {} /\ NoOrder \in [DOMAIN NoOrder -> Nat]
BY DEF NoOrder

-----------------------------------------------------------------------------
(* Steps that only read.                                                    *)

\* A request decides, and writes nothing.
LEMMA DecideInv ==
    ASSUME IInv, NEW c \in Requests, NEW next \in {"move", "insert", "commit", "delete"}, NEW plan,
           Decide(c, next, plan), UNCHANGED <<items, told, history>>,
           GoodPlan(plan), next # "insert" => plan.item # 0,
           plan.item = 0 \/ items[plan.item] # NoItem,
           PlanOK(c)', Knows(c)', next = "commit" => plan.op \notin {"create", "request"}
    PROVE  IInv'
<1>1. /\ pc' \in [Requests -> {"idle", "move", "insert", "commit", "delete"}]
      /\ DOMAIN req' = Requests /\ pc'[c] = next /\ req'[c] = plan
      /\ \A d \in Requests \ {c} : pc'[d] = pc[d] /\ req'[d] = req[d]
  BY DEF IInv, TypeOK, Decide
<1>2. UNCHANGED <<items, told, late, passed, raced, shaken>>
  BY DEF history
<1>3. \A d \in Requests : pc'[d] # "idle" =>
        /\ req'[d].op \in Ops /\ req'[d].item \in 0 .. Len(items)
        /\ (pc'[d] # "insert" => req'[d].item # 0)
        /\ {req'[d].from, req'[d].to} \subseteq Statuses /\ req'[d].priority \in Priorities
        /\ DOMAIN req'[d].order \subseteq 0 .. Len(items)
        /\ req'[d].order \in [DOMAIN req'[d].order -> Nat]
  <2> TAKE d \in Requests
  <2>1. CASE d = c
    BY <1>1, <2>1 DEF GoodPlan
  <2>2. CASE d # c
    BY <1>1, <2>2 DEF IInv, TypeOK
  <2> QED BY <2>1, <2>2
<1>4. TypeOK'
  BY <1>1, <1>2, <1>3 DEF IInv, TypeOK
<1>5. \A d \in Requests : PlanOK(d)' /\ Knows(d)'
  BY <1>1, <1>2 DEF IInv, PlanOK, Knows, Accepted
<1>6. \A d \in Requests : Fresh(d)'
  <2> SUFFICES ASSUME NEW d \in Requests, pc'[d] = "commit", req'[d].op \in {"create", "request"}
               PROVE  /\ items'[req'[d].item] = NoItem /\ told'[req'[d].item] = <<>>
                      /\ \A e \in Requests \ {d} : pc'[e] # "idle" => req'[e].item # req'[d].item
    BY DEF Fresh
  <2>1. d # c /\ pc[d] = "commit" /\ req[d] = req'[d]
    BY <1>1
  <2>2. Fresh(d) /\ req[d].item # 0
    BY <2>1 DEF IInv, TypeOK
  <2> QED BY <1>1, <1>2, <2>1, <2>2 DEF Fresh
<1>7. \A i \in DOMAIN items : RowOK(i)'
  BY <1>2 DEF IInv, RowOK, Accepted
<1> QED BY <1>1, <1>2, <1>4, <1>5, <1>6, <1>7 DEF IInv

LEMMA MoveSteps ==
    ASSUME IInv, NEW c \in Requests, StartMove(c) \/ BeginMove(c)
    PROVE  IInv'
<1>0. TypeOK
  BY DEF IInv
<1>1. CASE StartMove(c)
  <2>1. PICK i \in DOMAIN items :
           /\ Exists(i)
           /\ Decide(c, "move", Plan("move", i, items[i].status, items[i].status, "MEDIA", NoOrder, <<>>))
           /\ UNCHANGED <<items, told, history>>
    BY <1>1 DEF StartMove
  <2> DEFINE p == Plan("move", i, items[i].status, items[i].status, "MEDIA", NoOrder, <<>>)
  <2>a. /\ p.op = "move" /\ p.item = i /\ p.from = items[i].status /\ p.to = items[i].status
        /\ p.priority = "MEDIA" /\ p.order = NoOrder
    BY Fields
  <2>b. i \in 1 .. Len(items) /\ items[i].status \in Statuses
    BY <1>0, <2>1, Ids, ItemFact DEF Exists
  <2>2. GoodPlan(p) /\ p.item = i /\ i # 0 /\ p.op = "move"
    <3> HIDE DEF p
    <3> QED BY <1>0, <2>a, <2>b, Ids, NoOrderFact DEF GoodPlan
  <2>3. pc'[c] = "move" /\ req'[c] = p
    BY <1>0, <2>1 DEF IInv, TypeOK, Decide
  <2> HIDE DEF p
  <2>4. PlanOK(c)' /\ Knows(c)'
    BY <2>2, <2>3 DEF PlanOK, Knows
  <2> QED BY <2>1, <2>2, <2>4, DecideInv DEF Exists, p
<1>2. CASE BeginMove(c)
  <2> DEFINE i == req[c].item
             from == items[req[c].item].status
  <2>1. PICK to \in Targets, index \in 0 .. MaxItems :
          Decide(c, "commit", Plan("move", i, from, to, "MEDIA", MoveOrder(i, from, to, index),
                 IF from = to THEN <<>> ELSE <<[type |-> "MOVED", to |-> to]>>))
    BY <1>2 DEF BeginMove, From
  <2>2. pc[c] = "move" /\ Exists(i) /\ Movable(from) /\ UNCHANGED <<items, told, history>>
    BY <1>2 DEF BeginMove, From
  <2> DEFINE p == Plan("move", i, from, to, "MEDIA", MoveOrder(i, from, to, index),
                       IF from = to THEN <<>> ELSE <<[type |-> "MOVED", to |-> to]>>)
  <2>3. i \in 1 .. Len(items) /\ from \in Columns /\ to \in Statuses /\ index \in Nat
    BY <1>0, <2>2, Ids, ItemFact, BoardAssumption DEF Exists, Movable
  <2>4. /\ p.op = "move" /\ p.item = i /\ p.from = from /\ p.to = to /\ p.priority = "MEDIA"
        /\ p.order = MoveOrder(i, from, to, index)
        /\ p.event = IF from = to THEN <<>> ELSE <<[type |-> "MOVED", to |-> to]>>
    BY Fields
  <2>5. pc'[c] = "commit" /\ req'[c] = p
    BY <1>0, <2>1 DEF IInv, TypeOK, Decide
  <2>6. RowOK(i)
    BY <1>0, <2>3, Ids DEF IInv
  <2> HIDE DEF p, i, from
  <2>7. GoodPlan(p)
    BY <1>0, <2>3, <2>4, MoveOrderFact, Ids DEF GoodPlan
  <2>8. PlanOK(c)'
    BY <2>3, <2>4, <2>5 DEF PlanOK, Says
  <2>9. Knows(c)'
    BY <2>2, <2>3, <2>4, <2>5, <2>6 DEF Knows, RowOK, Accepted, history, from, i
  <2> QED BY <2>1, <2>2, <2>3, <2>4, <2>7, <2>8, <2>9, DecideInv DEF Exists, p
<1> QED BY <1>1, <1>2

\* The steps that take a card and decide, with the item as it was read.
LEMMA TakeInv ==
    ASSUME IInv, NEW c \in Requests, NEW i \in DOMAIN items, Exists(i),
           NEW op \in {"accept", "reject", "priority", "remove"}, NEW to \in Statuses,
           NEW priority \in Priorities, NEW order, NEW event,
           DOMAIN order \subseteq 0 .. Len(items), order \in [DOMAIN order -> Nat],
           NEW next \in {"commit", "delete"}, next = "delete" <=> op = "remove",
           Decide(c, next, Plan(op, i, items[i].status, to, priority, order, event)),
           UNCHANGED <<items, told, history>>,
           Says(Plan(op, i, items[i].status, to, priority, order, event))
    PROVE  IInv'
<1>0. TypeOK
  BY DEF IInv
<1> DEFINE p == Plan(op, i, items[i].status, to, priority, order, event)
<1>1. /\ p.op = op /\ p.item = i /\ p.from = items[i].status /\ p.to = to
      /\ p.priority = priority /\ p.order = order /\ p.event = event
  BY Fields
<1>2. i \in 1 .. Len(items) /\ items[i].status \in Statuses /\ items[i] # NoItem
  BY <1>0, Ids, ItemFact DEF Exists
<1>3. Decide(c, next, p) /\ Says(p)
  OBVIOUS
<1>4. next \in {"move", "insert", "commit", "delete"}
  OBVIOUS
<1>5. pc'[c] = next /\ req'[c] = p
  BY <1>0, <1>3 DEF IInv, TypeOK, Decide
<1> HIDE DEF p
<1>6. GoodPlan(p)
  BY <1>0, <1>1, <1>2, Ids DEF GoodPlan
<1>7. PlanOK(c)'
  BY <1>1, <1>3, <1>4, <1>5 DEF PlanOK
<1>8. Knows(c)'
  BY <1>1, <1>2, <1>5 DEF Knows, history
<1> QED BY <1>1, <1>2, <1>3, <1>4, <1>6, <1>7, <1>8, DecideInv

\* A card accepted enters the column of what is pending.
LEMMA EnterFact ==
    ASSUME TypeOK, NEW i \in 0 .. Len(items), NEW priority
    PROVE  LET pending == Column("PENDIENTE")
               order == Reorder(pending, i, InsertionIndex(pending, priority))
           IN /\ DOMAIN order \subseteq 0 .. Len(items) /\ order \in [DOMAIN order -> Nat]
              /\ i \in DOMAIN order
<1> DEFINE pending == Column("PENDIENTE")
           index == InsertionIndex(pending, priority)
           order == Reorder(pending, i, index)
<1>1. pending \in SUBSET (1 .. Len(items)) /\ pending \in SUBSET (0 .. Len(items))
  BY ColumnFact
<1>2. index \in Nat
  BY <1>1, InsertionFact
<1>3. order \in [pending \cup {i} -> Nat]
  <2> HIDE DEF pending, index
  <2> QED BY <1>1, <1>2, ReorderFact
<1> QED BY <1>1, <1>3

LEMMA TakeSteps ==
    ASSUME IInv, NEW c \in Requests,
           BeginAccept(c) \/ BeginReject(c) \/ BeginPriority(c) \/ StartRemove(c)
    PROVE  IInv'
<1>0. TypeOK /\ Len(items) \in Nat
  BY Ids DEF IInv
<1>1. CASE BeginAccept(c)
  <2>1. PICK i \in DOMAIN items, priority \in Urgencies :
          /\ Exists(i) /\ Waiting(items[i].status)
          /\ Decide(c, "commit", Plan("accept", i, items[i].status, "PENDIENTE", priority,
                 Reorder(Column("PENDIENTE"), i, InsertionIndex(Column("PENDIENTE"), priority)),
                 <<[type |-> "ACCEPTED", to |-> "PENDIENTE"]>>))
    BY <1>1 DEF BeginAccept
  <2> DEFINE order == Reorder(Column("PENDIENTE"), i, InsertionIndex(Column("PENDIENTE"), priority))
             event == <<[type |-> "ACCEPTED", to |-> "PENDIENTE"]>>
  <2>2. i \in 0 .. Len(items) /\ priority \in Priorities
    BY <1>0, Ids, BoardAssumption
  <2>3. DOMAIN order \subseteq 0 .. Len(items) /\ order \in [DOMAIN order -> Nat]
    BY <1>0, <2>2, EnterFact
  <2>4. UNCHANGED <<items, told, history>>
    BY <1>1 DEF BeginAccept
  <2>5. Decide(c, "commit", Plan("accept", i, items[i].status, "PENDIENTE", priority, order, event))
    BY <2>1
  <2>6. Says(Plan("accept", i, items[i].status, "PENDIENTE", priority, order, event))
    <3> HIDE DEF order
    <3> QED BY <2>1, Fields DEF Says, Waiting
  <2> HIDE DEF order, event
  <2> QED BY <2>1, <2>2, <2>3, <2>4, <2>5, <2>6, TakeInv
<1>2. CASE BeginReject(c)
  <2>1. PICK i \in DOMAIN items :
          /\ Exists(i) /\ Waiting(items[i].status)
          /\ Decide(c, "commit", Plan("reject", i, items[i].status, "RECHAZADO", "MEDIA",
                 NoOrder, <<[type |-> "REJECTED", to |-> "RECHAZADO"]>>))
    BY <1>2 DEF BeginReject
  <2>2. UNCHANGED <<items, told, history>>
    BY <1>2 DEF BeginReject
  <2>3. Says(Plan("reject", i, items[i].status, "RECHAZADO", "MEDIA", NoOrder,
                  <<[type |-> "REJECTED", to |-> "RECHAZADO"]>>))
    BY <2>1, Fields DEF Says, Waiting
  <2>4. DOMAIN NoOrder \subseteq 0 .. Len(items) /\ NoOrder \in [DOMAIN NoOrder -> Nat]
    BY NoOrderFact
  <2> QED BY <2>1, <2>2, <2>3, <2>4, TakeInv
<1>3. CASE BeginPriority(c)
  <2>1. PICK i \in DOMAIN items, priority \in Urgencies :
          /\ Exists(i)
          /\ Decide(c, "commit", Plan("priority", i, items[i].status, items[i].status, priority,
                 NoOrder, <<>>))
    BY <1>3 DEF BeginPriority
  <2>2. UNCHANGED <<items, told, history>>
    BY <1>3 DEF BeginPriority
  <2>3. items[i].status \in Statuses /\ priority \in Priorities
    BY <1>0, <2>1, Ids, ItemFact, BoardAssumption DEF Exists
  <2>4. Says(Plan("priority", i, items[i].status, items[i].status, priority, NoOrder, <<>>))
    BY Fields DEF Says
  <2>5. DOMAIN NoOrder \subseteq 0 .. Len(items) /\ NoOrder \in [DOMAIN NoOrder -> Nat]
    BY NoOrderFact
  <2>6. "priority" \in {"accept", "reject", "priority", "remove"} /\ ("commit" = "delete" <=> "priority" = "remove")
    OBVIOUS
  <2> DEFINE st == items[i].status
  <2>7. /\ Decide(c, "commit", Plan("priority", i, items[i].status, st, priority, NoOrder, <<>>))
        /\ Says(Plan("priority", i, items[i].status, st, priority, NoOrder, <<>>)) /\ st \in Statuses
    BY <2>1, <2>3, <2>4
  <2> HIDE DEF st
  <2> QED BY <2>1, <2>2, <2>3, <2>5, <2>6, <2>7, TakeInv
<1>4. CASE StartRemove(c)
  <2>1. PICK i \in DOMAIN items :
          /\ Exists(i)
          /\ Decide(c, "delete", Plan("remove", i, items[i].status, items[i].status,
                 "MEDIA", NoOrder, <<>>))
    BY <1>4 DEF StartRemove
  <2>2. UNCHANGED <<items, told, history>>
    BY <1>4 DEF StartRemove
  <2>3. items[i].status \in Statuses
    BY <1>0, <2>1, Ids, ItemFact DEF Exists
  <2>4. Says(Plan("remove", i, items[i].status, items[i].status, "MEDIA", NoOrder, <<>>))
    BY Fields DEF Says
  <2>5. DOMAIN NoOrder \subseteq 0 .. Len(items) /\ NoOrder \in [DOMAIN NoOrder -> Nat]
    BY NoOrderFact
  <2> QED BY <2>1, <2>2, <2>3, <2>4, <2>5, TakeInv
<1> QED BY <1>1, <1>2, <1>3, <1>4

LEMMA CreateStep ==
    ASSUME IInv, NEW c \in Requests, BeginCreate(c)
    PROVE  IInv'
<1>0. TypeOK /\ Len(items) \in Nat
  BY Ids DEF IInv
<1>1. PICK priority \in Urgencies :
        Decide(c, "insert", Plan("create", 0, "PENDIENTE", "PENDIENTE", priority,
              Reorder(Column("PENDIENTE"), 0, InsertionIndex(Column("PENDIENTE"), priority)),
              <<[type |-> "CREATED", to |-> "PENDIENTE"]>>))
  BY DEF BeginCreate
<1> DEFINE order == Reorder(Column("PENDIENTE"), 0, InsertionIndex(Column("PENDIENTE"), priority))
           p == Plan("create", 0, "PENDIENTE", "PENDIENTE", priority, order,
                     <<[type |-> "CREATED", to |-> "PENDIENTE"]>>)
<1>2. 0 \in 0 .. Len(items) /\ priority \in Priorities
  BY <1>0, BoardAssumption
<1>3. DOMAIN order \subseteq 0 .. Len(items) /\ order \in [DOMAIN order -> Nat] /\ 0 \in DOMAIN order
  BY <1>0, <1>2, EnterFact
<1>4. UNCHANGED <<items, told, history>>
  BY DEF BeginCreate
<1>5. Decide(c, "insert", p)
  BY <1>1
<1>6. /\ p.op = "create" /\ p.item = 0 /\ p.from = "PENDIENTE" /\ p.to = "PENDIENTE"
      /\ p.priority = priority /\ p.order = order
      /\ p.event = <<[type |-> "CREATED", to |-> "PENDIENTE"]>>
  BY Fields
<1>7. pc'[c] = "insert" /\ req'[c] = p
  BY <1>0, <1>5 DEF IInv, TypeOK, Decide
<1> HIDE DEF p, order
<1>8. GoodPlan(p)
  BY <1>2, <1>3, <1>6 DEF GoodPlan
<1>a. IsPlan(p)
  BY <1>6 DEF IsPlan, p
<1>9. PlanOK(c)' /\ Knows(c)'
  BY <1>3, <1>6, <1>7, <1>a DEF PlanOK, Knows, Says
<1> QED BY <1>4, <1>5, <1>6, <1>8, <1>9, DecideInv

-----------------------------------------------------------------------------
(* Steps that take an identifier.                                           *)

\* The row is nobody else's: no request in flight names an identifier not in use yet.
LEMMA ReserveInv ==
    ASSUME IInv, NEW c \in Requests, NEW plan, Reserve, Decide(c, "commit", plan), UNCHANGED history,
           Len(items) < MaxItems, plan.item = Len(items) + 1, plan.op \in {"create", "request"},
           Says(plan), {plan.from, plan.to} \subseteq Statuses, plan.priority \in Priorities,
           DOMAIN plan.order \subseteq 0 .. (Len(items) + 1), plan.order \in [DOMAIN plan.order -> Nat]
    PROVE  IInv'
<1>0. TypeOK
  BY DEF IInv
<1> DEFINE id == Len(items) + 1
<1>1. /\ pc' \in [Requests -> {"idle", "move", "insert", "commit", "delete"}]
      /\ DOMAIN req' = Requests /\ pc'[c] = "commit" /\ req'[c] = plan
      /\ \A d \in Requests \ {c} : pc'[d] = pc[d] /\ req'[d] = req[d]
  BY DEF IInv, TypeOK, Decide
<1>2. UNCHANGED <<late, passed, raced, shaken>>
  BY DEF history
<1>3. items \in Seq(Item \cup {NoItem}) /\ told \in Seq(Seq(Event)) /\ Len(told) = Len(items)
      /\ Len(items) \in Nat
  BY <1>0, Ids DEF TypeOK
<1>4. /\ items' \in Seq(Item \cup {NoItem}) /\ Len(items') = id /\ items'[id] = NoItem
      /\ DOMAIN items' = 1 .. id /\ \A j \in DOMAIN items : items'[j] = items[j]
  <2>1. items' = Append(items, NoItem)
    BY DEF Reserve
  <2> QED BY <1>3, <2>1
<1>5. /\ told' \in Seq(Seq(Event)) /\ Len(told') = id /\ told'[id] = <<>>
      /\ \A j \in DOMAIN items : told'[j] = told[j]
  <2>1. told' = Append(told, <<>>) /\ <<>> \in Seq(Event)
    BY DEF Reserve
  <2> QED BY <1>3, <2>1
<1>6. \A d \in Requests \ {c} : pc[d] # "idle" =>
        /\ req[d].op \in Ops /\ req[d].item \in 0 .. Len(items)
        /\ (pc[d] # "insert" => req[d].item # 0)
        /\ {req[d].from, req[d].to} \subseteq Statuses /\ req[d].priority \in Priorities
        /\ DOMAIN req[d].order \subseteq 0 .. Len(items)
        /\ req[d].order \in [DOMAIN req[d].order -> Nat]
  BY <1>0 DEF TypeOK
<1>7. \A d \in Requests : pc'[d] # "idle" =>
        /\ req'[d].op \in Ops /\ req'[d].item \in 0 .. id
        /\ (pc'[d] # "insert" => req'[d].item # 0)
        /\ {req'[d].from, req'[d].to} \subseteq Statuses /\ req'[d].priority \in Priorities
        /\ DOMAIN req'[d].order \subseteq 0 .. id
        /\ req'[d].order \in [DOMAIN req'[d].order -> Nat]
  <2> TAKE d \in Requests
  <2>1. CASE d = c
    BY <1>1, <1>3, <2>1
  <2>2. CASE d # c
    <3>1. 0 .. Len(items) \subseteq 0 .. id
      BY <1>3
    <3> QED BY <1>1, <1>3, <1>6, <2>2, <3>1
  <2> QED BY <2>1, <2>2
<1>8. TypeOK'
  <2>1. id <= MaxItems
    BY <1>3, BoardAssumption
  <2>2. raced \subseteq 1 .. Len(items) /\ late \in [Requests -> SUBSET Statuses]
        /\ passed \subseteq Requests /\ shaken \subseteq Columns
    BY <1>0, Ids DEF TypeOK
  <2>3. raced' \subseteq DOMAIN items'
    BY <1>2, <1>3, <1>4, <2>2
  <2>4. \A d \in Requests : pc'[d] # "idle" =>
          /\ req'[d].op \in Ops /\ req'[d].item \in 0 .. Len(items')
          /\ (pc'[d] # "insert" => req'[d].item # 0)
          /\ {req'[d].from, req'[d].to} \subseteq Statuses /\ req'[d].priority \in Priorities
          /\ DOMAIN req'[d].order \subseteq 0 .. Len(items')
          /\ req'[d].order \in [DOMAIN req'[d].order -> Nat]
    BY <1>4, <1>7
  <2>5. /\ items' \in Seq(Item \cup {NoItem}) /\ told' \in Seq(Seq(Event))
        /\ Len(told') = Len(items') /\ Len(items') <= MaxItems
    BY <1>4, <1>5, <2>1
  <2> QED BY <1>1, <1>2, <2>2, <2>3, <2>4, <2>5 DEF TypeOK
<1>9. \A d \in Requests : PlanOK(d)'
  BY <1>1 DEF IInv, PlanOK
<1>10. \A d \in Requests : Knows(d)'
  <2> SUFFICES ASSUME NEW d \in Requests
               PROVE  Knows(d)'
    OBVIOUS
  <2>1. CASE d = c
    BY <1>1, <2>1 DEF Knows
  <2>2. CASE d # c /\ pc[d] = "commit"
    <3>1. req[d].item \in DOMAIN items
      BY <1>0, <1>3, <1>6, <2>2, Ids
    <3>2. Knows(d)
      BY DEF IInv
    <3> QED BY <1>1, <1>2, <1>4, <1>5, <2>2, <3>1, <3>2 DEF Knows, Accepted
  <2>3. CASE d # c /\ pc[d] # "commit"
    BY <1>1, <2>3 DEF Knows
  <2> QED BY <2>1, <2>2, <2>3
<1>11. \A d \in Requests : Fresh(d)'
  <2> SUFFICES ASSUME NEW d \in Requests, pc'[d] = "commit", req'[d].op \in {"create", "request"}
               PROVE  /\ items'[req'[d].item] = NoItem /\ told'[req'[d].item] = <<>>
                      /\ \A e \in Requests \ {d} : pc'[e] # "idle" => req'[e].item # req'[d].item
    BY DEF Fresh
  <2>1. CASE d = c
    <3>1. \A e \in Requests \ {c} : pc[e] # "idle" => req[e].item # id
      BY <1>3, <1>6
    <3> QED BY <1>1, <1>4, <1>5, <2>1, <3>1
  <2>2. CASE d # c
    <3>1. Fresh(d) /\ req[d].item \in DOMAIN items /\ req[d].item # id
      BY <1>0, <1>1, <1>3, <1>6, <2>2, Ids DEF IInv
    <3> QED BY <1>1, <1>4, <1>5, <2>2, <3>1 DEF Fresh
  <2> QED BY <2>1, <2>2
<1>12. \A i \in DOMAIN items' : RowOK(i)'
  <2> TAKE i \in DOMAIN items'
  <2>1. CASE i = id
    BY <1>4, <2>1 DEF RowOK
  <2>2. CASE i # id
    <3>1. i \in DOMAIN items
      BY <1>0, <1>3, <1>4, <2>2, Ids
    <3>2. RowOK(i) /\ items'[i] = items[i] /\ told'[i] = told[i] /\ raced' = raced
      BY <1>2, <1>4, <1>5, <3>1 DEF IInv
    <3> QED BY <3>2 DEF RowOK, Accepted
  <2> QED BY <2>1, <2>2
<1> QED BY <1>1, <1>8, <1>9, <1>10, <1>11, <1>12 DEF IInv

LEMMA ReserveSteps ==
    ASSUME IInv, NEW c \in Requests, Insert(c) \/ Ask(c)
    PROVE  IInv'
<1>0. TypeOK /\ Len(items) \in Nat
  BY Ids DEF IInv
<1>1. CASE Insert(c)
  <2> DEFINE id == Len(items) + 1
             order == req[c].order
             new == [j \in (DOMAIN order \ {0}) \cup {id} |-> IF j = id THEN order[0] ELSE order[j]]
             plan == [req[c] EXCEPT !.item = id, !.order = new]
  <2>1. pc[c] = "insert" /\ Len(items) < MaxItems /\ Reserve /\ UNCHANGED history
        /\ Decide(c, "commit", plan)
    BY <1>1 DEF Insert
  <2>2. /\ IsPlan(req[c]) /\ req[c].op = "create" /\ 0 \in DOMAIN order /\ Says(req[c])
        /\ GoodPlan(req[c])
    BY <2>1, PlanFact DEF IInv, PlanOK
  <2>4. /\ plan.op = "create" /\ plan.item = id /\ plan.from = req[c].from /\ plan.to = req[c].to
        /\ plan.priority = req[c].priority /\ plan.order = new /\ plan.event = req[c].event
    <3> HIDE DEF new, id
    <3> QED BY <2>2, Renamed
  <2> HIDE DEF plan
  <2>5. new \in [DOMAIN new -> Nat] /\ DOMAIN new \subseteq 0 .. id
    BY <1>0, <2>2 DEF GoodPlan
  <2> HIDE DEF new
  <2>6. Says(plan) /\ {plan.from, plan.to} \subseteq Statuses /\ plan.priority \in Priorities
    BY <2>2, <2>4 DEF Says, GoodPlan
  <2> QED BY <2>1, <2>4, <2>5, <2>6, ReserveInv
<1>2. CASE Ask(c)
  <2> DEFINE p == Plan("request", Len(items) + 1, "SOLICITADO", "SOLICITADO", "MEDIA",
                       NoOrder, <<[type |-> "REQUESTED", to |-> "SOLICITADO"]>>)
  <2>1. Len(items) < MaxItems /\ Reserve /\ UNCHANGED history /\ Decide(c, "commit", p)
    BY <1>2 DEF Ask
  <2>2. /\ p.op = "request" /\ p.item = Len(items) + 1 /\ p.from = "SOLICITADO"
        /\ p.to = "SOLICITADO" /\ p.priority = "MEDIA" /\ p.order = NoOrder
        /\ p.event = <<[type |-> "REQUESTED", to |-> "SOLICITADO"]>>
    BY Fields
  <2> HIDE DEF p
  <2>3. Says(p)
    BY <2>2 DEF Says
  <2> QED BY <2>1, <2>2, <2>3, NoOrderFact, ReserveInv
<1> QED BY <1>1, <1>2

-----------------------------------------------------------------------------
(* Steps that write.                                                        *)

LEMMA FailStep ==
    ASSUME IInv, NEW c \in Requests, Fail(c)
    PROVE  IInv'
<1>1. /\ pc' \in [Requests -> {"idle", "move", "insert", "commit", "delete"}]
      /\ DOMAIN req' = Requests /\ pc'[c] = "idle"
      /\ \A d \in Requests \ {c} : pc'[d] = pc[d] /\ req'[d] = req[d]
      /\ UNCHANGED <<items, told, raced, shaken>>
      /\ \A d \in Requests \ {c} : d \in passed' <=> d \in passed
  BY DEF IInv, TypeOK, Fail, Settled
<1>2. late' \in [Requests -> SUBSET Statuses] /\ passed' \subseteq Requests
  BY DEF IInv, TypeOK, Fail
<1>3. \A d \in Requests : pc'[d] # "idle" => d # c /\ pc'[d] = pc[d] /\ req'[d] = req[d]
  BY <1>1
<1>4. TypeOK'
  BY <1>1, <1>2, <1>3 DEF IInv, TypeOK
<1>5. \A d \in Requests : PlanOK(d)' /\ Knows(d)' /\ Fresh(d)'
  <2> TAKE d \in Requests
  <2>1. CASE d = c
    BY <1>1, <2>1 DEF PlanOK, Knows, Fresh
  <2>2. CASE d # c
    <3>1. PlanOK(d) /\ Knows(d) /\ Fresh(d)
      BY DEF IInv
    <3>2. PlanOK(d)'
      BY <1>1, <2>2, <3>1 DEF PlanOK
    <3>3. Knows(d)'
      BY <1>1, <2>2, <3>1 DEF Knows, Accepted
    <3>4. Fresh(d)'
      BY <1>1, <1>3, <2>2, <3>1 DEF Fresh
    <3> QED BY <3>2, <3>3, <3>4
  <2> QED BY <2>1, <2>2
<1>6. \A i \in DOMAIN items : RowOK(i)'
  BY <1>1 DEF IInv, RowOK, Accepted
<1> QED BY <1>1, <1>4, <1>5, <1>6 DEF IInv

\* A new place leaves the rest of a card as it was.
LEMMA OrderedFact ==
    ASSUME NEW plan, NEW j, NEW row \in Item \cup {NoItem}, plan.order \in [DOMAIN plan.order -> Nat]
    PROVE  LET new == Ordered(plan, j, row) IN
           /\ row = NoItem => new = NoItem
           /\ row # NoItem => /\ new \in Item /\ new # NoItem /\ new.status = row.status
                              /\ new.closed = row.closed /\ new.portal = row.portal
<1>1. \A x \in Item, n \in Nat :
        /\ [x EXCEPT !.order = n] \in Item /\ [x EXCEPT !.order = n].status = x.status
        /\ [x EXCEPT !.order = n].closed = x.closed /\ [x EXCEPT !.order = n].portal = x.portal
  BY DEF Item
<1>2. CASE row # NoItem /\ j \in DOMAIN plan.order
  <2>1. plan.order[j] \in Nat /\ row \in Item
    BY <1>2
  <2>2. Ordered(plan, j, row) = [row EXCEPT !.order = plan.order[j]]
    BY <1>2 DEF Ordered
  <2> QED BY <1>1, <1>2, <2>1, <2>2, ItemFact
<1>3. CASE ~(row # NoItem /\ j \in DOMAIN plan.order)
  BY <1>3 DEF Ordered
<1> QED BY <1>2, <1>3

\* What an UPDATE leaves in the row of the item.
LEMMA UpdatedFact ==
    ASSUME NEW plan, GoodPlan(plan), plan.op \in {"move", "accept", "reject", "priority"},
           NEW old \in Item
    PROVE  LET new == Updated(plan, old) IN
           /\ new \in Item /\ new.portal = old.portal
           /\ new.status = IF plan.op = "priority" THEN old.status ELSE plan.to
           /\ new.closed = IF plan.op = "move" THEN Closed(old.closed, plan.from, plan.to) ELSE old.closed
<1>1. plan.to \in Statuses /\ plan.priority \in Priorities
  BY DEF GoodPlan
<1>2. Closed(old.closed, plan.from, plan.to) \in BOOLEAN
  BY DEF Closed, Item
<1> DEFINE b == Closed(old.closed, plan.from, plan.to)
<1> HIDE DEF b
<1>4. CASE plan.op = "move"
  <2>1. Updated(plan, old) = [old EXCEPT !.status = plan.to, !.closed = b]
    BY <1>4 DEF Updated, Item, b
  <2>2. b \in BOOLEAN
    BY <1>2 DEF b
  <2>3. [old EXCEPT !.status = plan.to, !.closed = b] \in Item
    BY <1>1, <2>2 DEF Item
  <2>4. LET new == [old EXCEPT !.status = plan.to, !.closed = b] IN
        new.portal = old.portal /\ new.status = plan.to /\ new.closed = b
    BY DEF Item
  <2> QED BY <1>4, <2>1, <2>3, <2>4 DEF b
<1>5. CASE plan.op = "accept"
  <2>1. Updated(plan, old) = [old EXCEPT !.status = plan.to, !.priority = plan.priority]
    BY <1>5 DEF Updated
  <2>2. [old EXCEPT !.status = plan.to, !.priority = plan.priority] \in Item
    BY <1>1 DEF Item
  <2>3. LET new == [old EXCEPT !.status = plan.to, !.priority = plan.priority] IN
        new.portal = old.portal /\ new.status = plan.to /\ new.closed = old.closed
    BY DEF Item
  <2> QED BY <1>5, <2>1, <2>2, <2>3
<1>6. CASE plan.op = "reject"
  <2>1. Updated(plan, old) = [old EXCEPT !.status = plan.to]
    BY <1>6 DEF Updated
  <2>2. [old EXCEPT !.status = plan.to] \in Item
    BY <1>1 DEF Item
  <2>3. LET new == [old EXCEPT !.status = plan.to] IN
        new.portal = old.portal /\ new.status = plan.to /\ new.closed = old.closed
    BY DEF Item
  <2> QED BY <1>6, <2>1, <2>2, <2>3
<1>7. CASE plan.op = "priority"
  <2>1. Updated(plan, old) = [old EXCEPT !.priority = plan.priority]
    BY <1>7 DEF Updated
  <2>2. [old EXCEPT !.priority = plan.priority] \in Item
    BY <1>1 DEF Item
  <2>3. LET new == [old EXCEPT !.priority = plan.priority] IN
        new.portal = old.portal /\ new.status = old.status /\ new.closed = old.closed
    BY DEF Item
  <2> QED BY <1>7, <2>1, <2>2, <2>3
<1> QED BY <1>4, <1>5, <1>6, <1>7

\* The rows after a write.
LEMMA AfterFact ==
    ASSUME IInv, NEW c \in Requests, pc[c] \in {"commit", "delete"}
    PROVE  LET plan == req[c]
               i == plan.item
               after == After(plan)
               old == items[i]
               new == after[i]
           IN
           /\ i \in DOMAIN items /\ DOMAIN after = DOMAIN items
           /\ \A j \in DOMAIN items : after[j] \in Item \cup {NoItem}
           /\ \A j \in DOMAIN items \ {i} :
                 /\ items[j] = NoItem <=> after[j] = NoItem
                 /\ items[j] # NoItem => /\ after[j].closed = items[j].closed
                                         /\ after[j].portal = items[j].portal
                 /\ after[j].status = items[j].status
           /\ plan.op \in {"create", "request"} =>
                 /\ new # NoItem /\ new.status = plan.to /\ ~new.closed
                 /\ new.portal <=> plan.op = "request"
           /\ plan.op = "remove" => new = NoItem
           /\ plan.op \in {"move", "accept", "reject", "priority"} =>
                 /\ old = NoItem <=> new = NoItem
                 /\ old # NoItem =>
                      /\ new.portal = old.portal
                      /\ new.status = IF plan.op = "priority" THEN old.status ELSE plan.to
                      /\ new.closed = IF plan.op = "move" THEN Closed(old.closed, plan.from, plan.to)
                                      ELSE old.closed
<1> DEFINE plan == req[c]
           i == plan.item
           after == After(plan)
           row(j) == IF j = i THEN Written(plan, items[j]) ELSE items[j]
<1>0. TypeOK
  BY DEF IInv
<1>1. GoodPlan(plan) /\ i # 0
  BY PlanFact
<1>2. i \in DOMAIN items /\ plan.order \in [DOMAIN plan.order -> Nat] /\ plan.op \in Ops
      /\ plan.to \in Statuses /\ plan.priority \in Priorities
  BY <1>0, <1>1, Ids DEF GoodPlan
<1>3. \A j \in DOMAIN items : items[j] \in Item \cup {NoItem}
  BY <1>0, Ids
<1>4. DOMAIN after = DOMAIN items /\ \A j \in DOMAIN items : after[j] = Ordered(plan, j, row(j))
  BY DEF After
<1> HIDE DEF plan, after
<1>5. Born(plan) \in Item /\ Born(plan) # NoItem
      /\ Born(plan).status = plan.to /\ ~Born(plan).closed
      /\ (Born(plan).portal <=> plan.op = "request")
  BY <1>2, ItemFact DEF Born, Item
<1>6. Written(plan, items[i]) \in Item \cup {NoItem}
  <2>1. CASE plan.op \in {"create", "request"}
    BY <1>5, <2>1 DEF Written
  <2>2. CASE plan.op \notin {"create", "request"} /\ (plan.op = "remove" \/ items[i] = NoItem)
    BY <2>2 DEF Written
  <2>3. CASE plan.op \notin {"create", "request", "remove"} /\ items[i] # NoItem
    <3>1. items[i] \in Item /\ plan.op \in {"move", "accept", "reject", "priority"}
      BY <1>2, <1>3, <2>3
    <3>2. Updated(plan, items[i]) \in Item
      BY <1>1, <3>1, UpdatedFact
    <3> QED BY <2>3, <3>2 DEF Written
  <2> QED BY <2>1, <2>2, <2>3
<1>7. \A j \in DOMAIN items : row(j) \in Item \cup {NoItem}
  BY <1>3, <1>6
<1>8. \A j \in DOMAIN items :
        /\ row(j) = NoItem => after[j] = NoItem
        /\ row(j) # NoItem => /\ after[j] \in Item /\ after[j] # NoItem /\ after[j].status = row(j).status
                              /\ after[j].closed = row(j).closed /\ after[j].portal = row(j).portal
  <2> HIDE DEF row
  <2> QED BY <1>2, <1>4, <1>7, OrderedFact
<1>9. \A j \in DOMAIN items : after[j] \in Item \cup {NoItem}
  BY <1>7, <1>8
<1>10. \A j \in DOMAIN items \ {i} : row(j) = items[j]
  OBVIOUS
<1>11. row(i) = Written(plan, items[i])
  OBVIOUS
<1> HIDE DEF row
<1>12. \A j \in DOMAIN items \ {i} :
                 /\ items[j] = NoItem <=> after[j] = NoItem
                 /\ items[j] # NoItem => /\ after[j].closed = items[j].closed
                                         /\ after[j].portal = items[j].portal
                 /\ after[j].status = items[j].status
  BY <1>8, <1>10
<1>13. plan.op \in {"create", "request"} =>
         /\ after[i] # NoItem /\ after[i].status = plan.to /\ ~after[i].closed
         /\ after[i].portal <=> plan.op = "request"
  BY <1>2, <1>5, <1>8, <1>11 DEF Written
<1>14. plan.op = "remove" => after[i] = NoItem
  BY <1>2, <1>8, <1>11 DEF Written
<1>15. ASSUME plan.op \in {"move", "accept", "reject", "priority"}
       PROVE  /\ items[i] = NoItem <=> after[i] = NoItem
              /\ items[i] # NoItem =>
                   /\ after[i].portal = items[i].portal
                   /\ after[i].status = IF plan.op = "priority" THEN items[i].status ELSE plan.to
                   /\ after[i].closed = IF plan.op = "move" THEN Closed(items[i].closed, plan.from, plan.to)
                                        ELSE items[i].closed
  <2>1. CASE items[i] = NoItem
    BY <1>2, <1>8, <1>11, <1>15, <2>1 DEF Written
  <2>2. CASE items[i] # NoItem
    <3>1. row(i) = Updated(plan, items[i]) /\ items[i] \in Item
      BY <1>2, <1>3, <1>11, <1>15, <2>2 DEF Written
    <3>2. Updated(plan, items[i]) \in Item /\ Updated(plan, items[i]) # NoItem
      BY <1>1, <1>15, <3>1, UpdatedFact, ItemFact
    <3> QED BY <1>1, <1>2, <1>8, <1>15, <2>2, <3>1, <3>2, UpdatedFact
  <2> QED BY <2>1, <2>2
<1> QED BY <1>2, <1>4, <1>9, <1>12, <1>13, <1>14, <1>15 DEF plan, after

\* What a write tells.
ToldBy(c) == /\ pc[c] = "commit" => told' = [told EXCEPT ![req[c].item] = @ \o req[c].event]
             /\ pc[c] = "delete" => told' = told

LEMMA ToldFact ==
    ASSUME IInv, NEW c \in Requests, pc[c] \in {"commit", "delete"}, ToldBy(c)
    PROVE  LET i == req[c].item IN
           /\ told' \in Seq(Seq(Event)) /\ Len(told') = Len(told) /\ DOMAIN told' = DOMAIN told
           /\ \A j \in DOMAIN told \ {i} : told'[j] = told[j]
           /\ \A j \in DOMAIN told : /\ DOMAIN told[j] \subseteq DOMAIN told'[j]
                                     /\ \A n \in DOMAIN told[j] : told'[j][n] = told[j][n]
           /\ pc[c] = "delete" \/ req[c].event = <<>> => told'[i] = told[i]
           /\ pc[c] = "commit" /\ req[c].event # <<>> =>
                 /\ told'[i] # <<>>
                 /\ told'[i][Len(told'[i])].to = req[c].to
                 /\ req[c].op = "accept" => \E n \in DOMAIN told'[i] : told'[i][n].type = "ACCEPTED"
<1> DEFINE i == req[c].item
           event == req[c].event
<1>0. TypeOK
  BY DEF IInv
<1>1. told \in Seq(Seq(Event)) /\ i \in DOMAIN told /\ Len(told) \in Nat
      /\ DOMAIN told = 1 .. Len(told) /\ told[i] \in Seq(Event)
  BY <1>0, AfterFact, Ids DEF TypeOK
<1>2. pc[c] = "commit" => /\ event \in Seq(Event)
                          /\ event # <<>> => /\ Len(event) = 1 /\ event[1].to = req[c].to
                                             /\ req[c].op = "accept" => event[1].type = "ACCEPTED"
  <2> SUFFICES ASSUME pc[c] = "commit"
               PROVE  /\ event \in Seq(Event)
                      /\ event # <<>> => /\ Len(event) = 1 /\ event[1].to = req[c].to
                                         /\ req[c].op = "accept" => event[1].type = "ACCEPTED"
    OBVIOUS
  <2>1. Says(req[c]) /\ req[c].op # "remove" /\ GoodPlan(req[c])
    BY PlanFact DEF IInv, PlanOK
  <2>2. req[c].to \in Statuses /\ req[c].op \in Ops
    BY <2>1 DEF GoodPlan
  <2>3. event = <<>> \/ \E type \in {"REQUESTED", "CREATED", "ACCEPTED", "REJECTED", "MOVED"} :
                           /\ event = <<[type |-> type, to |-> req[c].to]>>
                           /\ req[c].op = "accept" => type = "ACCEPTED"
    BY <2>1, <2>2 DEF Says
  <2>4. \A type \in {"REQUESTED", "CREATED", "ACCEPTED", "REJECTED", "MOVED"} :
          [type |-> type, to |-> req[c].to] \in Event
    BY <2>2 DEF Event
  <2> HIDE DEF event
  <2>5. CASE event = <<>>
    BY <2>5
  <2>6. CASE event # <<>>
    <3>1. PICK type \in {"REQUESTED", "CREATED", "ACCEPTED", "REJECTED", "MOVED"} :
            /\ event = <<[type |-> type, to |-> req[c].to]>>
            /\ req[c].op = "accept" => type = "ACCEPTED"
      BY <2>3, <2>6
    <3> DEFINE e == [type |-> type, to |-> req[c].to]
    <3>2. e \in Event /\ e.type = type /\ e.to = req[c].to
      BY <2>4
    <3>3. event = <<e>>
      BY <3>1
    <3> HIDE DEF e
    <3>4. event \in Seq(Event) /\ Len(event) = 1 /\ event[1] = e
      BY <3>2, <3>3
    <3> QED BY <3>1, <3>2, <3>4
  <2> QED BY <2>5, <2>6
<1> HIDE DEF event
<1>3. CASE pc[c] = "delete"
  BY <1>1, <1>3 DEF ToldBy
<1>4. CASE pc[c] = "commit"
  <2> DEFINE old == told[i]
             new == told[i] \o event
  <2>1. told' = [told EXCEPT ![i] = new]
    BY <1>4 DEF ToldBy, event
  <2>2. /\ new \in Seq(Event) /\ Len(new) = Len(old) + Len(event) /\ Len(old) \in Nat
        /\ DOMAIN old = 1 .. Len(old) /\ DOMAIN new = 1 .. Len(new) /\ Len(event) \in Nat
        /\ \A n \in 1 .. Len(old) : new[n] = old[n]
        /\ \A n \in 1 .. Len(event) : new[Len(old) + n] = event[n]
        /\ event = <<>> => new = old
    BY <1>1, <1>2, <1>4
  <2> HIDE DEF new, old
  <2>3. /\ told' \in Seq(Seq(Event)) /\ Len(told') = Len(told) /\ DOMAIN told' = DOMAIN told
        /\ told'[i] = new /\ \A j \in DOMAIN told \ {i} : told'[j] = told[j]
    BY <1>1, <2>1, <2>2
  <2>4. \A j \in DOMAIN told : /\ DOMAIN told[j] \subseteq DOMAIN told'[j]
                              /\ \A n \in DOMAIN told[j] : told'[j][n] = told[j][n]
    <3> TAKE j \in DOMAIN told
    <3>1. CASE j = i
      <4>1. told[j] = old /\ told'[j] = new
        BY <2>3, <3>1 DEF old
      <4>2. DOMAIN old \subseteq DOMAIN new /\ \A n \in DOMAIN old : new[n] = old[n]
        BY <2>2
      <4> QED BY <4>1, <4>2
    <3>2. CASE j # i
      BY <2>3, <3>2
    <3> QED BY <3>1, <3>2
  <2>5. event = <<>> => told'[i] = told[i]
    BY <2>2, <2>3 DEF old
  <2>6. ASSUME event # <<>>
        PROVE  /\ told'[i] # <<>> /\ told'[i][Len(told'[i])].to = req[c].to
               /\ req[c].op = "accept" => \E n \in DOMAIN told'[i] : told'[i][n].type = "ACCEPTED"
    <3>0. Len(event) = 1 /\ event[1].to = req[c].to /\ (req[c].op = "accept" => event[1].type = "ACCEPTED")
      BY <1>2, <1>4, <2>6
    <3>1. Len(new) = Len(old) + 1 /\ new[Len(new)] = event[1] /\ Len(new) \in DOMAIN new
      <4>1. Len(new) = Len(old) + 1 /\ 1 \in 1 .. Len(event)
        BY <2>2, <3>0
      <4>2. new[Len(old) + 1] = event[1]
        BY <2>2, <4>1
      <4> QED BY <2>2, <4>1, <4>2
    <3>2. new # <<>> /\ new[Len(new)].to = req[c].to
      <4>1. new # <<>>
        BY <2>2, <3>1
      <4> QED BY <3>0, <3>1, <4>1
    <3>3. req[c].op = "accept" => \E n \in DOMAIN new : new[n].type = "ACCEPTED"
      BY <3>0, <3>1
    <3>4. req[c].op = "accept" => \E n \in DOMAIN told'[i] : told'[i][n].type = "ACCEPTED"
      BY <2>3, <3>3
    <3> QED BY <2>3, <3>2, <3>4
  <2> QED BY <1>4, <2>3, <2>4, <2>5, <2>6 DEF event
<1> QED BY <1>3, <1>4

\* The columns a plan numbers are columns, and so are those a write touches.
LEMMA ColumnsFact ==
    /\ \A plan : plan.op \in Ops => Numbers(plan) \subseteq Columns
    /\ \A after : Touched(after) \subseteq Columns
<1>1. ASSUME NEW plan, plan.op \in Ops
      PROVE  Numbers(plan) \subseteq Columns
  <2>1. CASE plan.op = "move"
    BY <2>1 DEF Numbers
  <2>2. CASE plan.op \in {"create", "accept"}
    BY <2>2 DEF Numbers
  <2>3. CASE plan.op \in {"request", "reject", "priority", "remove"}
    BY <2>3 DEF Numbers
  <2> QED BY <1>1, <2>1, <2>2, <2>3
<1>2. \A after : Touched(after) \subseteq Columns
  BY DEF Touched
<1> QED BY <1>1, <1>2

\* A write of a request: all its rows and its event, or, deleting, the row alone.
LEMMA WriteInv ==
    ASSUME IInv, NEW c \in Requests, pc[c] \in {"commit", "delete"},
           items' = After(req[c]), ToldBy(c), Told(c, After(req[c])), Settled(c)
    PROVE  IInv'
<1> DEFINE plan == req[c]
           i == plan.item
<1>0. TypeOK
  BY DEF IInv
<1>1. /\ pc' \in [Requests -> {"idle", "move", "insert", "commit", "delete"}]
      /\ DOMAIN req' = Requests /\ pc'[c] = "idle"
      /\ \A d \in Requests \ {c} : pc'[d] = pc[d] /\ req'[d] = req[d]
  BY DEF IInv, TypeOK, Settled
<1>2. \A d \in Requests : pc'[d] # "idle" => d # c /\ pc'[d] = pc[d] /\ req'[d] = req[d]
  BY <1>1
<1>3. GoodPlan(plan) /\ PlanOK(c) /\ Knows(c) /\ Fresh(c) /\ i \in DOMAIN items
  BY PlanFact, AfterFact DEF IInv
<1>4. /\ DOMAIN items' = DOMAIN items
      /\ \A j \in DOMAIN items : items'[j] \in Item \cup {NoItem}
      /\ \A j \in DOMAIN items \ {i} :
            /\ items[j] = NoItem <=> items'[j] = NoItem
            /\ items[j] # NoItem => items'[j].closed = items[j].closed /\ items'[j].portal = items[j].portal
            /\ items'[j].status = items[j].status
  BY AfterFact
<1>5. /\ plan.op \in {"create", "request"} =>
            /\ items'[i] # NoItem /\ items'[i].status = plan.to /\ ~items'[i].closed
            /\ items'[i].portal <=> plan.op = "request"
      /\ plan.op = "remove" => items'[i] = NoItem
      /\ plan.op \in {"move", "accept", "reject", "priority"} =>
            /\ items[i] = NoItem <=> items'[i] = NoItem
            /\ items[i] # NoItem =>
                 /\ items'[i].portal = items[i].portal
                 /\ items'[i].status = IF plan.op = "priority" THEN items[i].status ELSE plan.to
                 /\ items'[i].closed = IF plan.op = "move" THEN Closed(items[i].closed, plan.from, plan.to)
                                       ELSE items[i].closed
  BY AfterFact
<1>6. /\ told' \in Seq(Seq(Event)) /\ Len(told') = Len(told) /\ DOMAIN told' = DOMAIN told
      /\ \A j \in DOMAIN told \ {i} : told'[j] = told[j]
      /\ \A j \in DOMAIN told : /\ DOMAIN told[j] \subseteq DOMAIN told'[j]
                                /\ \A n \in DOMAIN told[j] : told'[j][n] = told[j][n]
      /\ pc[c] = "delete" \/ plan.event = <<>> => told'[i] = told[i]
      /\ pc[c] = "commit" /\ plan.event # <<>> =>
            /\ told'[i] # <<>> /\ told'[i][Len(told'[i])].to = plan.to
            /\ plan.op = "accept" => \E n \in DOMAIN told'[i] : told'[i][n].type = "ACCEPTED"
  BY ToldFact
<1>7. plan.op \in Ops /\ plan.to \in Statuses /\ plan.from \in Statuses
      /\ (pc[c] = "commit" => Says(plan) /\ plan.op # "remove") /\ (pc[c] = "delete" => plan.op = "remove")
  BY <1>3 DEF GoodPlan, PlanOK
<1>8. DOMAIN told = DOMAIN items /\ DOMAIN items = 1 .. Len(items) /\ Len(items) \in Nat
      /\ Len(told) = Len(items) /\ Len(items) <= MaxItems
  BY <1>0, Ids DEF TypeOK
<1>9. /\ raced' = IF c \in passed /\ plan.op # "priority" THEN raced \cup {i} ELSE raced
      /\ passed' = (passed \ {c}) \cup
            {d \in Requests \ {c} : /\ InFlight(d) /\ req[d].item = i
                                    /\ items'[i].status # items[i].status}
  BY DEF Told
<1>10. TypeOK'
  <2>1. items' \in Seq(Item \cup {NoItem}) /\ Len(items') = Len(items)
    <3>1. items' = [j \in 1 .. Len(items) |-> items'[j]]
      BY <1>4, <1>8 DEF After
    <3>2. items' \in [1 .. Len(items) -> Item \cup {NoItem}]
      BY <1>4, <1>8, <3>1
    <3> QED BY <1>8, <3>2
  <2>2. \A d \in Requests : pc'[d] # "idle" =>
          /\ req'[d].op \in Ops /\ req'[d].item \in 0 .. Len(items')
          /\ (pc'[d] # "insert" => req'[d].item # 0)
          /\ {req'[d].from, req'[d].to} \subseteq Statuses /\ req'[d].priority \in Priorities
          /\ DOMAIN req'[d].order \subseteq 0 .. Len(items')
          /\ req'[d].order \in [DOMAIN req'[d].order -> Nat]
    BY <1>0, <1>2, <2>1 DEF TypeOK
  <2>3. late' \in [Requests -> SUBSET Statuses] /\ passed' \subseteq Requests
    <3>1. Touched(After(plan)) \subseteq Statuses
      BY ColumnsFact
    <3>2. \A d \in Requests : late[d] \subseteq Statuses
      BY <1>0 DEF TypeOK
    <3>3. late' = [d \in Requests |-> IF d = c THEN {} ELSE
                     late[d] \cup (Touched(After(plan)) \cap Watched(d))]
      BY DEF Told
    <3> HIDE DEF plan
    <3>4. passed \subseteq Requests
      BY <1>0 DEF TypeOK
    <3> QED BY <1>9, <3>1, <3>2, <3>3, <3>4
  <2>4. shaken' \subseteq Columns
    <3>1. /\ Touched(After(plan)) \subseteq Columns /\ Numbers(plan) \subseteq Columns
          /\ shaken \subseteq Columns
      BY <1>0, <1>7, ColumnsFact DEF TypeOK
    <3>2. shaken' = (shaken \cup Numbers(plan) \cup Touched(After(plan)))
                        \ (IF c \in passed THEN {} ELSE Numbers(plan) \ late[c])
      BY DEF Told
    <3> HIDE DEF plan
    <3> QED BY <3>1, <3>2
  <2>5. raced' \subseteq DOMAIN items'
    BY <1>0, <1>3, <1>4, <1>9 DEF TypeOK
  <2>6. /\ told' \in Seq(Seq(Event)) /\ Len(told') = Len(items') /\ Len(items') <= MaxItems
    BY <1>6, <1>8, <2>1
  <2> QED BY <1>1, <2>1, <2>2, <2>3, <2>4, <2>5, <2>6 DEF TypeOK
<1>11. \A j \in DOMAIN items : Accepted(j) => Accepted(j)'
  <2> TAKE j \in DOMAIN items
  <2> SUFFICES ASSUME Accepted(j)
               PROVE  \E n \in DOMAIN told'[j] : told'[j][n].type = "ACCEPTED"
    BY DEF Accepted
  <2>1. PICK n \in DOMAIN told[j] : told[j][n].type = "ACCEPTED"
    BY DEF Accepted
  <2> QED BY <1>6, <1>8, <2>1
<1>12. \A d \in Requests : PlanOK(d)'
  BY <1>1, <1>2 DEF IInv, PlanOK
<1>13. \A d \in Requests : Fresh(d)'
  <2> SUFFICES ASSUME NEW d \in Requests, pc'[d] = "commit", req'[d].op \in {"create", "request"}
               PROVE  /\ items'[req'[d].item] = NoItem /\ told'[req'[d].item] = <<>>
                      /\ \A e \in Requests \ {d} : pc'[e] # "idle" => req'[e].item # req'[d].item
    BY DEF Fresh
  <2>1. d # c /\ pc[d] = "commit" /\ req'[d] = req[d] /\ Fresh(d)
    BY <1>2 DEF IInv
  <2>2. req[d].item \in DOMAIN items \ {i}
    BY <1>0, <1>8, <2>1 DEF TypeOK, Fresh
  <2>3. /\ items[req[d].item] = NoItem /\ told[req[d].item] = <<>>
        /\ \A e \in Requests \ {d} : pc[e] # "idle" => req[e].item # req[d].item
    BY <2>1 DEF Fresh
  <2>4. items'[req[d].item] = NoItem /\ told'[req[d].item] = <<>>
    BY <1>4, <1>6, <1>8, <2>2, <2>3
  <2>5. \A e \in Requests \ {d} : pc'[e] # "idle" => req'[e].item # req[d].item
    BY <1>2, <2>3
  <2> QED BY <2>1, <2>4, <2>5
<1>14. \A d \in Requests : Knows(d)'
  <2> SUFFICES ASSUME NEW d \in Requests, pc'[d] = "commit"
               PROVE  Knows(d)'
    BY DEF Knows
  <2>1. d # c /\ pc[d] = "commit" /\ req'[d] = req[d] /\ Knows(d)
    BY <1>2 DEF IInv
  <2>2. req[d].item \in DOMAIN items
    BY <1>0, <1>8, <2>1 DEF TypeOK
  <2>3. CASE req[d].item # i
    BY <1>4, <1>9, <1>11, <2>1, <2>2, <2>3 DEF Knows
  <2>4. CASE req[d].item = i
    <3>1. ASSUME d \notin passed', req[d].op \in {"move", "accept", "reject"}
          PROVE  items'[i].status = req[d].from
      <4>1. d \notin passed /\ items'[i].status = items[i].status
        BY <1>9, <2>1, <2>4, <3>1 DEF InFlight
      <4> QED BY <2>1, <2>4, <3>1, <4>1 DEF Knows
    <3>2. ASSUME req[d].op = "move", items'[i] # NoItem, items'[i].portal
          PROVE  Accepted(req[d].item)'
      <4>1. plan.op \notin {"create", "request", "remove"}
        <5>1. plan.op \notin {"create", "request"}
          BY <1>3, <1>7, <2>1, <2>4 DEF Fresh
        <5> QED BY <1>5, <3>2, <5>1
      <4>2. items[i] # NoItem /\ items[i].portal
        BY <1>5, <1>7, <3>2, <4>1
      <4>3. Accepted(req[d].item)
        BY <2>1, <2>4, <3>2, <4>2 DEF Knows
      <4>4. \A j \in DOMAIN items : Accepted(j) => \E n \in DOMAIN told'[j] : told'[j][n].type = "ACCEPTED"
        BY <1>11 DEF Accepted
      <4> QED BY <2>1, <2>2, <4>3, <4>4 DEF Accepted
    <3> QED BY <2>1, <2>4, <3>1, <3>2 DEF Knows
  <2> QED BY <2>3, <2>4
<1>15. \A j \in DOMAIN items : RowOK(j)'
  <2> TAKE j \in DOMAIN items
  <2>1. RowOK(j)
    BY DEF IInv
  <2>2. CASE j # i
    <3>1. told'[j] = told[j] /\ (j \in raced' <=> j \in raced)
      BY <1>6, <1>8, <1>9, <2>2
    <3> QED BY <1>4, <1>11, <2>1, <2>2, <3>1 DEF RowOK
  <2>3. CASE j = i
    <3> SUFFICES ASSUME items'[j] # NoItem
                 PROVE  RowOK(j)'
      BY DEF RowOK
    <3>1. pc[c] = "commit" /\ Says(plan) /\ plan.op # "remove"
      BY <1>5, <1>7, <2>3
    <3>2. CASE plan.op \in {"create", "request"}
      <4>1. plan.event # <<>> /\ plan.to \in {"PENDIENTE", "SOLICITADO"}
            /\ (plan.op = "request" => plan.to = "SOLICITADO")
        BY <3>1, <3>2 DEF Says
      <4>2. /\ told'[j] # <<>> /\ told'[j][Len(told'[j])].to = items'[j].status
            /\ ~items'[j].closed /\ items'[j].status # "CERRADO"
            /\ items'[j].portal => items'[j].status \in PRE_BOARD_STATUSES
        BY <1>5, <1>6, <2>3, <3>1, <3>2, <4>1
      <4> QED BY <4>2 DEF RowOK
    <3>3. CASE plan.op \in {"move", "accept", "reject", "priority"}
      <4>1. items[j] # NoItem /\ items'[j].portal = items[j].portal
        BY <1>5, <2>3, <3>3
      <4>2. ASSUME items'[j].portal, items'[j].status \notin PRE_BOARD_STATUSES
            PROVE  Accepted(j)'
        <5>1. CASE plan.op = "move"
          BY <1>3, <1>11, <2>3, <3>1, <4>1, <4>2, <5>1 DEF Knows
        <5>2. CASE plan.op = "accept"
          <6>1. plan.event # <<>>
            <7>1. plan.event = <<[type |-> "ACCEPTED", to |-> plan.to]>>
              BY <3>1, <5>2 DEF Says
            <7>2. \A e : <<e>> # <<>>
              OBVIOUS
            <7> HIDE DEF plan
            <7> QED BY <7>1, <7>2
          <6>2. \E n \in DOMAIN told'[j] : told'[j][n].type = "ACCEPTED"
            BY <1>6, <2>3, <3>1, <5>2, <6>1
          <6> QED BY <6>2 DEF Accepted
        <5>3. CASE plan.op = "reject"
          BY <1>5, <2>3, <3>1, <4>1, <4>2, <5>3 DEF Says
        <5>4. CASE plan.op = "priority"
          BY <1>5, <1>11, <2>1, <2>3, <4>1, <4>2, <5>4 DEF RowOK
        <5> QED BY <3>3, <5>1, <5>2, <5>3, <5>4
      <4>3. ASSUME j \notin raced'
            PROVE  /\ told'[j] # <<>> /\ told'[j][Len(told'[j])].to = items'[j].status
                   /\ items'[j].closed <=> items'[j].status = "CERRADO"
        <5>1. j \notin raced /\ (c \notin passed \/ plan.op = "priority")
          BY <1>9, <2>3, <4>3
        <5>2. /\ told[j] # <<>> /\ told[j][Len(told[j])].to = items[j].status
              /\ items[j].closed <=> items[j].status = "CERRADO"
          BY <2>1, <4>1, <5>1 DEF RowOK
        <5>3. CASE plan.op = "priority"
          <6>1. told'[j] = told[j] /\ items'[j].status = items[j].status /\ items'[j].closed = items[j].closed
            BY <1>5, <1>6, <2>3, <3>1, <4>1, <5>3 DEF Says
          <6> QED BY <5>2, <6>1
        <5>4. CASE plan.op # "priority"
          <6>1. items[j].status = plan.from
            BY <1>3, <2>3, <3>1, <3>3, <5>1, <5>4 DEF Knows
          <6>2. items'[j].status = plan.to
            BY <1>5, <2>3, <3>3, <4>1, <5>4
          <6>3. plan.event = <<>> => plan.from = plan.to
            BY <3>1, <3>3, <5>4 DEF Says
          <6>4. told'[j] # <<>> /\ told'[j][Len(told'[j])].to = items'[j].status
            BY <1>6, <2>3, <3>1, <5>2, <6>1, <6>2, <6>3
          <6>5. CASE plan.op = "move"
            <7>1. items'[j].closed = Closed(items[j].closed, plan.from, plan.to)
              BY <1>5, <2>3, <4>1, <6>5
            <7>2. items'[j].closed <=> items'[j].status = "CERRADO"
              BY <5>2, <6>1, <6>2, <7>1 DEF Closed
            <7> QED BY <6>4, <7>2
          <6>6. CASE plan.op \in {"accept", "reject"}
            <7>1. items'[j].closed = items[j].closed /\ plan.from # "CERRADO" /\ plan.to # "CERRADO"
              BY <1>5, <2>3, <3>1, <4>1, <6>6 DEF Says
            <7> QED BY <5>2, <6>1, <6>2, <6>4, <7>1
          <6> QED BY <3>3, <5>4, <6>5, <6>6
        <5> QED BY <5>3, <5>4
      <4> QED BY <4>2, <4>3 DEF RowOK
    <3> QED BY <1>7, <3>1, <3>2, <3>3
  <2> QED BY <2>2, <2>3
<1> QED BY <1>1, <1>4, <1>10, <1>12, <1>13, <1>14, <1>15 DEF IInv

LEMMA WriteSteps ==
    ASSUME IInv, NEW c \in Requests, Commit(c) \/ Delete(c)
    PROVE  IInv'
<1>1. CASE Commit(c)
  <2>1. pc[c] = "commit" /\ items' = After(req[c]) /\ Told(c, After(req[c])) /\ Settled(c)
    BY <1>1 DEF Commit
  <2>2. ToldBy(c)
    BY <1>1 DEF Commit, ToldBy
  <2> QED BY <2>1, <2>2, WriteInv
<1>2. CASE Delete(c)
  <2>1. pc[c] = "delete" /\ items' = After(req[c]) /\ Told(c, After(req[c])) /\ Settled(c)
    BY <1>2 DEF Delete
  <2>2. ToldBy(c)
    BY <1>2 DEF Delete, ToldBy
  <2> QED BY <2>1, <2>2, WriteInv
<1> QED BY <1>1, <1>2

-----------------------------------------------------------------------------
(* The invariant, and the theorems.                                         *)

LEMMA InitInv == Init => IInv
<1> SUFFICES ASSUME Init
             PROVE  IInv
  OBVIOUS
<1>1. /\ items = <<>> /\ told = <<>> /\ pc = [c \in Requests |-> "idle"]
      /\ req = [c \in Requests |-> <<>>] /\ late = [c \in Requests |-> {}]
      /\ passed = {} /\ raced = {} /\ shaken = {}
  BY DEF Init
<1>2. items \in Seq(Item \cup {NoItem}) /\ told \in Seq(Seq(Event)) /\ Len(items) = 0 /\ Len(told) = 0
      /\ DOMAIN items = {}
  BY <1>1
<1>3. TypeOK
  BY <1>1, <1>2, BoardAssumption DEF TypeOK
<1> QED BY <1>1, <1>2, <1>3 DEF IInv, PlanOK, Knows, Fresh

LEMMA StutterInv ==
    ASSUME IInv, UNCHANGED vars
    PROVE  IInv'
<1>1. UNCHANGED <<items, told, pc, req, late, passed, raced, shaken>>
  BY DEF vars
<1>2. TypeOK' /\ DOMAIN req' = Requests
  BY <1>1 DEF IInv, TypeOK
<1>3. \A c \in Requests : PlanOK(c)' /\ Knows(c)' /\ Fresh(c)'
  BY <1>1 DEF IInv, PlanOK, Knows, Fresh, Accepted
<1>4. \A i \in DOMAIN items : RowOK(i)'
  BY <1>1 DEF IInv, RowOK, Accepted
<1> QED BY <1>1, <1>2, <1>3, <1>4 DEF IInv

LEMMA Invariance == Spec => []IInv
<1>1. IInv /\ [Next]_vars => IInv'
  <2> SUFFICES ASSUME IInv, [Next]_vars
               PROVE  IInv'
    OBVIOUS
  <2>1. CASE Next
    <3>1. PICK c \in Requests :
            \/ StartMove(c) \/ BeginMove(c)
            \/ BeginCreate(c) \/ Insert(c) \/ Ask(c)
            \/ BeginAccept(c) \/ BeginReject(c) \/ BeginPriority(c)
            \/ StartRemove(c) \/ Commit(c) \/ Delete(c) \/ Fail(c)
      BY <2>1 DEF Next
    <3> QED BY <3>1, MoveSteps, CreateStep, ReserveSteps, TakeSteps, WriteSteps, FailStep
  <2>2. CASE UNCHANGED vars
    BY <2>2, StutterInv
  <2> QED BY <2>1, <2>2
<1> QED BY <1>1, InitInv, PTL DEF Spec

\* Every variable keeps the shape of the tables and of the requests, whatever requests cross.
THEOREM BoardTypes == Spec => []TypeOK
<1>1. IInv => TypeOK
  BY DEF IInv
<1> QED BY <1>1, Invariance, PTL

\* What a client asked for is on a column only if the house accepted it (assertMovable and
\* assertEsperandoAceptacion decide on the status read inside the transaction), with any number of
\* requests crossing.
THEOREM AcceptedBeforeAnyColumn == Spec => []AcceptedFirst
<1>1. IInv => AcceptedFirst
  BY DEF IInv, RowOK, AcceptedFirst, Accepted, Exists
<1> QED BY <1>1, Invariance, PTL

\* The last event that names a status names the status of the item, unless a request that had been
\* passed wrote it (a move and its event are one transaction).
THEOREM EventsTellTheStatus == Spec => []StatusIsTold
<1>1. IInv => StatusIsTold
  BY DEF IInv, RowOK, StatusIsTold, Exists
<1> QED BY <1>1, Invariance, PTL

\* The closing date is there exactly while the item is closed, unless a request that had been passed
\* wrote it (closed_at is set on entering CERRADO and cleared on leaving it).
THEOREM ClosingDateIsTrue == Spec => []ClosedIsDated
<1>1. IInv => ClosedIsDated
  BY DEF IInv, RowOK, ClosedIsDated, Exists
<1> QED BY <1>1, Invariance, PTL

-----------------------------------------------------------------------------
(* A request is answered once each time it waits: what each card was told,  *)
(* counted.  A card that waits has been asked once more than answered.      *)

Answers == {e \in Event : e.type \in {"ACCEPTED", "REJECTED"}}
Waits == {e \in Event : e.to = "SOLICITADO"}
Count(s, kind) == Cardinality({n \in DOMAIN s : s[n] \in kind})

CountOK(i) == i \notin raced =>
    Count(told[i], Answers) + (IF items[i].status = "SOLICITADO" THEN 1 ELSE 0) <= Count(told[i], Waits)

\* How many events of a kind there are, after one more.
LEMMA CountFact ==
    ASSUME NEW s \in Seq(Event), NEW kind
    PROVE  /\ Count(s, kind) \in Nat
           /\ \A e \in Event : Count(s \o <<e>>, kind) = Count(s, kind) + (IF e \in kind THEN 1 ELSE 0)
<1> DEFINE those == {n \in DOMAIN s : s[n] \in kind}
<1>1. DOMAIN s = 1 .. Len(s) /\ Len(s) \in Nat /\ those \in SUBSET (1 .. Len(s))
  OBVIOUS
<1>2. IsFiniteSet(those) /\ Cardinality(those) \in Nat
  <2> HIDE DEF those
  <2>1. IsFiniteSet(1 .. Len(s))
    BY <1>1, FS_Interval
  <2>2. IsFiniteSet(those)
    BY <1>1, <2>1, FS_Subset
  <2> QED BY <2>2, FS_CardinalityType
<1>3. ASSUME NEW e \in Event
      PROVE  Count(s \o <<e>>, kind) = Count(s, kind) + (IF e \in kind THEN 1 ELSE 0)
  <2> DEFINE t == s \o <<e>>
  <2>1. /\ DOMAIN t = 1 .. Len(s) + 1 /\ t[Len(s) + 1] = e
        /\ \A n \in 1 .. Len(s) : t[n] = s[n]
    BY <1>1
  <2> HIDE DEF t
  <2>2. {n \in DOMAIN t : t[n] \in kind} = IF e \in kind THEN those \cup {Len(s) + 1} ELSE those
    BY <1>1, <2>1
  <2>3. Len(s) + 1 \notin those
    BY <1>1
  <2> HIDE DEF those
  <2>4. Cardinality(those \cup {Len(s) + 1}) = Cardinality(those) + 1
    BY <1>2, <2>3, FS_AddElement
  <2>5. Count(t, kind) = Cardinality({n \in DOMAIN t : t[n] \in kind}) /\ Count(s, kind) = Cardinality(those)
    BY DEF Count, those
  <2>6. Count(t, kind) = Count(s, kind) + (IF e \in kind THEN 1 ELSE 0)
    <3>1. CASE e \in kind
      BY <2>2, <2>4, <2>5, <3>1
    <3>2. CASE e \notin kind
      <4>1. Count(t, kind) = Cardinality(those) /\ Count(s, kind) = Cardinality(those)
        BY <2>2, <2>5, <3>2
      <4> QED BY <1>2, <3>2, <4>1
    <3> QED BY <3>1, <3>2
  <2> QED BY <2>6 DEF t
<1> QED BY <1>2, <1>3 DEF Count

LEMMA AnsweredFact ==
    ASSUME TypeOK, \A i \in DOMAIN items : CountOK(i)
    PROVE  AnsweredOnce
<1>1. ASSUME NEW i \in DOMAIN items \ raced
      PROVE  Cardinality({n \in DOMAIN told[i] : told[i][n].type \in {"ACCEPTED", "REJECTED"}})
                <= Cardinality({n \in DOMAIN told[i] : told[i][n].to = "SOLICITADO"})
  <2>1. told[i] \in Seq(Event) /\ \A n \in DOMAIN told[i] : told[i][n] \in Event
    BY Ids
  <2>2. /\ {n \in DOMAIN told[i] : told[i][n].type \in {"ACCEPTED", "REJECTED"}}
             = {n \in DOMAIN told[i] : told[i][n] \in Answers}
        /\ {n \in DOMAIN told[i] : told[i][n].to = "SOLICITADO"}
             = {n \in DOMAIN told[i] : told[i][n] \in Waits}
    BY <2>1 DEF Answers, Waits
  <2>3. Count(told[i], Answers) \in Nat /\ Count(told[i], Waits) \in Nat
    BY <2>1, CountFact
  <2>4. Count(told[i], Answers) <= Count(told[i], Waits)
    BY <2>3 DEF CountOK
  <2> QED BY <2>2, <2>4 DEF Count
<1> QED BY <1>1 DEF AnsweredOnce

\* A commit adds at most one event to its card, of a known kind.
LEMMA ToldSay ==
    ASSUME IInv, NEW c \in Requests, pc[c] = "commit", ToldBy(c)
    PROVE  LET i == req[c].item IN
           /\ req[c].event # <<>> =>
                 \E e \in Event : /\ req[c].event = <<e>> /\ told'[i] = told[i] \o <<e>>
                                  /\ e.to = req[c].to
                                  /\ e.type \in {"ACCEPTED", "REJECTED"} => req[c].op \in {"accept", "reject"}
<1> DEFINE i == req[c].item
<1>0. TypeOK
  BY DEF IInv
<1>1. Says(req[c]) /\ req[c].op # "remove" /\ req[c].to \in Statuses /\ req[c].op \in Ops
  BY PlanFact DEF IInv, PlanOK, GoodPlan
<1>2. i \in DOMAIN told
  BY <1>0, AfterFact, Ids
<1> SUFFICES ASSUME req[c].event # <<>>
             PROVE  \E e \in Event : /\ req[c].event = <<e>> /\ told'[i] = told[i] \o <<e>>
                                     /\ e.to = req[c].to
                                     /\ e.type \in {"ACCEPTED", "REJECTED"} => req[c].op \in {"accept", "reject"}
  OBVIOUS
<1>3. PICK type \in {"REQUESTED", "CREATED", "ACCEPTED", "REJECTED", "MOVED"} :
        /\ req[c].event = <<[type |-> type, to |-> req[c].to]>>
        /\ type \in {"ACCEPTED", "REJECTED"} => req[c].op \in {"accept", "reject"}
  BY <1>1 DEF Says
<1> DEFINE e == [type |-> type, to |-> req[c].to]
<1>4. e \in Event /\ e.to = req[c].to /\ e.type = type
  BY <1>1 DEF Event
<1>5. req[c].event = <<e>>
  BY <1>3
<1> HIDE DEF e
<1>6. told'[i] = told[i] \o <<e>>
  BY <1>2, <1>5 DEF ToldBy
<1> QED BY <1>3, <1>4, <1>5, <1>6

\* A commit keeps the count of each card.
LEMMA WriteCount ==
    ASSUME IInv, \A i \in DOMAIN items : CountOK(i),
           NEW c \in Requests, pc[c] \in {"commit", "delete"},
           items' = After(req[c]), ToldBy(c), Told(c, After(req[c]))
    PROVE  \A i \in DOMAIN items : CountOK(i)'
<1> DEFINE plan == req[c]
           i == plan.item
<1>0. TypeOK
  BY DEF IInv
<1>1. GoodPlan(plan) /\ PlanOK(c) /\ Knows(c) /\ Fresh(c) /\ i \in DOMAIN items
  BY PlanFact, AfterFact DEF IInv
<1>2. /\ \A j \in DOMAIN items \ {i} : items'[j].status = items[j].status
      /\ \A j \in DOMAIN items : items[j] \in Item \cup {NoItem} /\ told[j] \in Seq(Event)
      /\ \A j \in DOMAIN told \ {i} : told'[j] = told[j]
      /\ DOMAIN told = DOMAIN items
  BY <1>0, AfterFact, ToldFact, Ids
<1>3. /\ raced' = IF c \in passed /\ plan.op # "priority" THEN raced \cup {i} ELSE raced
  BY DEF Told
<1>4. ASSUME NEW j \in DOMAIN items, j # i
      PROVE  CountOK(j)'
  <2>1. told'[j] = told[j] /\ items'[j].status = items[j].status /\ (j \in raced' <=> j \in raced)
    BY <1>2, <1>3, <1>4
  <2> QED BY <2>1 DEF CountOK, Count
<1>5. ASSUME i \notin raced'
      PROVE  Count(told'[i], Answers) + (IF items'[i].status = "SOLICITADO" THEN 1 ELSE 0)
                <= Count(told'[i], Waits)
  <2> DEFINE held == Count(told[i], Answers)
             asked == Count(told[i], Waits)
             waits == IF items[i].status = "SOLICITADO" THEN 1 ELSE 0
  <2>1. held \in Nat /\ asked \in Nat /\ waits \in {0, 1}
    BY <1>1, <1>2, CountFact
  <2>2. i \notin raced /\ held + waits <= asked /\ (c \notin passed \/ plan.op = "priority")
    BY <1>1, <1>3, <1>5 DEF CountOK
  <2>3. /\ plan.op \in {"create", "request"} => items'[i].status = plan.to
        /\ plan.op = "remove" => items'[i] = NoItem
        /\ plan.op \in {"move", "accept", "reject", "priority"} =>
             /\ items[i] = NoItem <=> items'[i] = NoItem
             /\ items[i] # NoItem => items'[i].status = IF plan.op = "priority" THEN items[i].status ELSE plan.to
    BY AfterFact
  <2>4. plan.op \in Ops /\ plan.to \in Statuses /\ plan.from \in Statuses
        /\ (pc[c] = "commit" => Says(plan) /\ plan.op # "remove") /\ (pc[c] = "delete" => plan.op = "remove")
    BY <1>1 DEF GoodPlan, PlanOK
  <2>5. pc[c] = "delete" \/ plan.event = <<>> => told'[i] = told[i]
    BY ToldFact
  <2>6. CASE plan.op = "remove"
    <3>1. told'[i] = told[i] /\ items'[i].status = "none"
      BY <2>3, <2>4, <2>5, <2>6, ItemFact
    <3> QED BY <2>1, <2>2, <3>1
  <2>7. CASE plan.op = "priority"
    <3>1. told'[i] = told[i] /\ items'[i].status = items[i].status
      BY <2>3, <2>4, <2>5, <2>7, ItemFact DEF Says
    <3> QED BY <2>2, <3>1
  <2>8. CASE plan.op \notin {"remove", "priority"}
    <3>1. pc[c] = "commit" /\ c \notin passed
      BY <2>2, <2>4, <2>8
    <3>2. CASE plan.event = <<>>
      <4>1. plan.op = "move" /\ plan.from = plan.to /\ plan.from \in Columns
        BY <2>4, <2>8, <3>1, <3>2 DEF Says
      <4>2. told'[i] = told[i] /\ items'[i].status = items[i].status
        BY <1>1, <2>3, <2>5, <3>1, <3>2, <4>1, ItemFact DEF Knows
      <4> QED BY <2>2, <4>2
    <3>3. CASE plan.event # <<>>
      <4>1. PICK e \in Event : /\ told'[i] = told[i] \o <<e>> /\ e.to = plan.to
                               /\ e.type \in {"ACCEPTED", "REJECTED"} => plan.op \in {"accept", "reject"}
        BY <3>1, <3>3, ToldSay
      <4>2. /\ Count(told'[i], Answers) = held + (IF e \in Answers THEN 1 ELSE 0)
            /\ Count(told'[i], Waits) = asked + (IF e \in Waits THEN 1 ELSE 0)
        BY <1>1, <1>2, <4>1, CountFact
      <4>3. (e \in Waits <=> plan.to = "SOLICITADO") /\ (e \in Answers => plan.op \in {"accept", "reject"})
        BY <4>1 DEF Waits, Answers
      <4>4. items'[i].status = plan.to
        <5>1. CASE plan.op \in {"create", "request"}
          BY <2>3, <5>1
        <5>2. CASE plan.op \in {"move", "accept", "reject"}
          <6>1. items[i] # NoItem
            BY <1>1, <2>4, <3>1, <5>2, ItemFact DEF Knows
          <6> QED BY <2>3, <5>2, <6>1
        <5> QED BY <2>4, <2>8, <5>1, <5>2
      <4>5. plan.op \in {"accept", "reject"} => waits = 1 /\ plan.to # "SOLICITADO"
        BY <1>1, <2>4, <3>1 DEF Knows, Says
      <4> HIDE DEF held, asked, waits
      <4> QED BY <2>1, <2>2, <4>2, <4>3, <4>4, <4>5
    <3> QED BY <3>2, <3>3
  <2> QED BY <2>6, <2>7, <2>8
<1> QED BY <1>4, <1>5 DEF CountOK

\* The counts are kept by every step: only a write tells something.
LEMMA CountStep ==
    ASSUME IInv, \A i \in DOMAIN items : CountOK(i), [Next]_vars
    PROVE  \A i \in DOMAIN items' : CountOK(i)'
<1>0. TypeOK
  BY DEF IInv
<1>1. CASE UNCHANGED <<items, told, raced>>
  BY <1>1 DEF CountOK, Count
<1>2. ASSUME NEW c \in Requests, Commit(c) \/ Delete(c)
      PROVE  \A i \in DOMAIN items' : CountOK(i)'
  <2>1. /\ pc[c] \in {"commit", "delete"} /\ items' = After(req[c]) /\ ToldBy(c)
        /\ Told(c, After(req[c]))
    BY <1>2 DEF Commit, Delete, ToldBy
  <2>2. DOMAIN items' = DOMAIN items
    BY <2>1, AfterFact
  <2> QED BY <2>1, <2>2, WriteCount
<1>3. ASSUME Reserve, UNCHANGED raced
      PROVE  \A i \in DOMAIN items' : CountOK(i)'
  <2>1. items' = Append(items, NoItem) /\ told' = Append(told, <<>>) /\ raced' = raced
    BY <1>3 DEF Reserve
  <2>2. /\ DOMAIN items = 1 .. Len(items) /\ Len(items) \in Nat /\ Len(told) = Len(items)
        /\ items \in Seq(Item \cup {NoItem}) /\ told \in Seq(Seq(Event))
    BY <1>0, Ids DEF TypeOK
  <2>3. /\ DOMAIN items' = 1 .. Len(items) + 1
        /\ \A j \in 1 .. Len(items) : items'[j] = items[j] /\ told'[j] = told[j]
        /\ items'[Len(items) + 1] = NoItem /\ told'[Len(items) + 1] = <<>>
    BY <2>1, <2>2
  <2>4. ASSUME NEW j \in 1 .. Len(items)
        PROVE  CountOK(j)'
    BY <2>1, <2>2, <2>3 DEF CountOK, Count
  <2>5. ASSUME NEW j, j = Len(items) + 1
        PROVE  CountOK(j)'
    <3>1. \A kind : Count(<<>>, kind) = 0
      BY FS_EmptySet DEF Count
    <3>2. items'[j].status = "none" /\ told'[j] = <<>>
      BY <2>3, <2>5, ItemFact
    <3>3. Count(told'[j], Answers) = 0 /\ Count(told'[j], Waits) = 0
      BY <3>1, <3>2
    <3> QED BY <3>2, <3>3 DEF CountOK
  <2>6. DOMAIN items' = (1 .. Len(items)) \cup {Len(items) + 1}
    BY <2>2, <2>3
  <2> QED BY <2>4, <2>5, <2>6
<1>4. CASE Next
  <2>1. PICK c \in Requests :
            \/ StartMove(c) \/ BeginMove(c)
            \/ BeginCreate(c) \/ Insert(c) \/ Ask(c)
            \/ BeginAccept(c) \/ BeginReject(c) \/ BeginPriority(c)
            \/ StartRemove(c) \/ Commit(c) \/ Delete(c) \/ Fail(c)
    BY <1>4 DEF Next
  <2>2. CASE Insert(c) \/ Ask(c)
    BY <1>3, <2>2 DEF Insert, Ask, history
  <2>3. CASE ~(Insert(c) \/ Ask(c)) /\ ~(Commit(c) \/ Delete(c))
    <3>1. UNCHANGED <<items, told, raced>>
      BY <2>1, <2>3 DEF StartMove, BeginMove, BeginCreate, BeginAccept, BeginReject, BeginPriority,
                        StartRemove, Fail, history
    <3> QED BY <1>1, <3>1
  <2> QED BY <1>2, <2>2, <2>3
<1>5. CASE UNCHANGED vars
  BY <1>1, <1>5 DEF vars
<1> QED BY <1>4, <1>5

\* A request of a client is answered at most once each time it waits, unless two answers crossed.
THEOREM OneAnswerEachTime == Spec => []AnsweredOnce
<1> DEFINE Counts == \A i \in DOMAIN items : CountOK(i)
<1>1. Init => Counts
  <2>1. Init => DOMAIN items = {}
    BY DEF Init
  <2> QED BY <2>1
<1>2. IInv /\ Counts /\ [Next]_vars => Counts'
  BY CountStep
<1>3. IInv /\ Counts => AnsweredOnce
  BY AnsweredFact DEF IInv
<1> QED BY <1>1, <1>2, <1>3, Invariance, PTL DEF Spec

=============================================================================
