------------------------ MODULE WorkItemBoardOrderProofs ------------------------
(***************************************************************************)
(* The order of the cards of WorkItemBoard.  What reorder and               *)
(* insertionIndex give for any column: 0, 1, 2... with no gap and no tie,   *)
(* the others as they stood, the card that enters above those of a lower    *)
(* priority.  And what is left of it when requests cross: Numbered, from    *)
(* the invariant that a request in flight would still number exactly each   *)
(* column that nobody changed since it read it.                             *)
(***************************************************************************)
EXTENDS WorkItemBoardProofs

USE DEF Statuses, PRE_BOARD_STATUSES, Columns, Priorities, Ops

-----------------------------------------------------------------------------
(* Places.                                                                  *)

\* Rows that are there, each with an order of its own or a tie.
Rows == {j \in DOMAIN items : items[j] \in Item}

LEMMA ColumnRows ==
    ASSUME TypeOK, NEW s \in Columns
    PROVE  Column(s) \subseteq Rows /\ Column(s) \subseteq 1 .. Len(items) /\ IsFiniteSet(Column(s))
<1>1. Column(s) \subseteq Rows
  BY Ids, ItemFact DEF Column, Rows
<1> QED BY <1>1, ColumnFact, SomeIds

\* Two rows are never level: the id decides where the order ties.
LEMMA BeforeFact ==
    ASSUME TypeOK
    PROVE  /\ Rows \subseteq 1 .. Len(items) /\ Rows \subseteq Nat
           /\ \A j \in Rows : items[j].order \in Nat
           /\ \A j \in Rows : ~Before(j, j)
           /\ \A j, k \in Rows : j # k => Before(j, k) \/ Before(k, j)
           /\ \A i, j, k \in Rows : Before(i, j) /\ Before(j, k) => Before(i, k)
<1>1. Rows \subseteq 1 .. Len(items) /\ Len(items) \in Nat /\ \A j \in Rows : items[j].order \in Nat
  BY Ids DEF Rows, Item
<1>2. Rows \subseteq Nat
  BY <1>1
<1>3. \A j \in Rows : ~Before(j, j)
  BY <1>1, <1>2 DEF Before
<1>4. \A j, k \in Rows : j # k => Before(j, k) \/ Before(k, j)
  BY <1>1, <1>2 DEF Before
<1>5. \A i, j, k \in Rows : Before(i, j) /\ Before(j, k) => Before(i, k)
  BY <1>1, <1>2 DEF Before
<1> QED BY <1>1, <1>2, <1>3, <1>4, <1>5

\* A row above another has a smaller place among any rows that hold both.
LEMMA PlacesInOrder ==
    ASSUME TypeOK, NEW ids, ids \subseteq Rows, NEW j \in ids, NEW k \in ids, Before(j, k)
    PROVE  Place(ids, j) < Place(ids, k)
<1> DEFINE above(l) == {i \in ids : Before(i, l)}
<1>1. above(j) \subseteq above(k) /\ j \in above(k) /\ j \notin above(j) /\ above(k) \subseteq ids
  BY BeforeFact
<1>2. IsFiniteSet(ids)
  BY BeforeFact, SomeIds
<1>3. Place(ids, j) = Cardinality(above(j)) /\ Place(ids, k) = Cardinality(above(k))
  BY DEF Place
<1> HIDE DEF above
<1>4. /\ IsFiniteSet(above(k)) /\ IsFiniteSet(above(j))
      /\ Cardinality(above(k)) \in Nat /\ Cardinality(above(j)) \in Nat
  BY <1>1, <1>2, FS_Subset, FS_CardinalityType
<1>5. Cardinality(above(j)) <= Cardinality(above(k)) /\ Cardinality(above(j)) # Cardinality(above(k))
  BY <1>1, <1>4, FS_Subset
<1> QED BY <1>3, <1>4, <1>5

\* The places of the rows of a set are 0, 1, 2... with no gap and no tie.
LEMMA PlacesFact ==
    ASSUME TypeOK, NEW ids, ids \subseteq Rows
    PROVE  /\ IsFiniteSet(ids) /\ Cardinality(ids) \in Nat
           /\ \A j \in ids : Place(ids, j) \in 0 .. Cardinality(ids) - 1
           /\ {Place(ids, j) : j \in ids} = 0 .. Cardinality(ids) - 1
<1> DEFINE n == Cardinality(ids)
           above(j) == {i \in ids : Before(i, j)}
<1>1. IsFiniteSet(ids) /\ n \in Nat
  BY BeforeFact, SomeIds
<1>2. \A j : /\ Place(ids, j) = Cardinality(above(j)) /\ Place(ids, j) \in Nat
             /\ IsFiniteSet(above(j)) /\ above(j) \subseteq ids
  <2> TAKE j
  <2>1. above(j) \subseteq ids
    OBVIOUS
  <2> HIDE DEF above
  <2>2. IsFiniteSet(above(j)) /\ Cardinality(above(j)) \in Nat
    BY <1>1, <2>1, FS_Subset, FS_CardinalityType
  <2>3. Place(ids, j) = Cardinality(above(j))
    BY DEF Place, above
  <2> QED BY <2>1, <2>2, <2>3
<1>3. \A j \in ids : Place(ids, j) < n
  <2> TAKE j \in ids
  <2>1. j \notin above(j)
    BY BeforeFact
  <2> HIDE DEF above
  <2>2. Cardinality(above(j)) <= n /\ Cardinality(above(j)) # n
    BY <1>1, <1>2, <2>1, FS_Subset
  <2> QED BY <1>1, <1>2, <2>2
<1>4. \A j, k \in ids : Before(j, k) => Place(ids, j) < Place(ids, k)
  BY PlacesInOrder
<1>5. \A j, k \in ids : j # k => Place(ids, j) # Place(ids, k)
  <2> SUFFICES ASSUME NEW j \in ids, NEW k \in ids, j # k
               PROVE  Place(ids, j) # Place(ids, k)
    OBVIOUS
  <2>1. Before(j, k) \/ Before(k, j)
    BY BeforeFact
  <2>2. Place(ids, j) < Place(ids, k) \/ Place(ids, k) < Place(ids, j)
    BY <1>4, <2>1
  <2>3. Place(ids, j) \in Nat /\ Place(ids, k) \in Nat
    BY <1>2
  <2> HIDE DEF above
  <2> QED BY <2>2, <2>3
<1> DEFINE f == [j \in ids |-> Place(ids, j)]
<1>6. \A j \in ids : Place(ids, j) \in 0 .. n - 1
  <2> TAKE j \in ids
  <2>1. Place(ids, j) \in Nat /\ Place(ids, j) < n /\ n \in Nat
    BY <1>1, <1>2, <1>3
  <2> HIDE DEF above, n
  <2> QED BY <2>1
<1>7. f \in Injection(ids, 0 .. n - 1)
  BY <1>5, <1>6 DEF Injection, IsInjective
<1>8. IsFiniteSet(0 .. n - 1) /\ Cardinality(0 .. n - 1) = n
  BY <1>1, FS_Interval
<1>9. f \in Surjection(ids, 0 .. n - 1)
  <2> HIDE DEF f, n
  <2> QED BY <1>7, <1>8, FS_Injection DEF n
<1>10. \A v \in 0 .. n - 1 : \E j \in ids : Place(ids, j) = v
  BY <1>9 DEF Surjection
<1> QED BY <1>1, <1>6, <1>10

-----------------------------------------------------------------------------
(* What reorder and insertionIndex give.                                    *)

\* An order that numbers some cards 0, 1, 2... with no gap and no tie.
Exactly(order, ids) ==
    /\ ids \subseteq DOMAIN order
    /\ {order[j] : j \in ids} = 0 .. Cardinality(ids) - 1

\* reorder numbers the cards of a column, and the one that moves into it or inside it, 0, 1, 2...
\* with no gap and no tie, whatever gaps and ties they had and whatever index it is given.
THEOREM ReorderNumbersExactly ==
    ASSUME TypeOK, NEW ids, ids \subseteq Rows, NEW moved, NEW index \in Nat
    PROVE  Exactly(Reorder(ids, moved, index), ids \cup {moved})
<1> DEFINE all == ids \cup {moved}
           others == ids \ {moved}
           m == Cardinality(others)
           at == IF index < m THEN index ELSE m
           order == Reorder(ids, moved, index)
<1>1. others \subseteq Rows
  OBVIOUS
<1>2. /\ IsFiniteSet(others) /\ m \in Nat
      /\ \A j \in others : Place(others, j) \in 0 .. m - 1
      /\ {Place(others, j) : j \in others} = 0 .. m - 1
  BY <1>1, PlacesFact
<1>3. Cardinality(all) = m + 1
  <2>1. all = others \cup {moved} /\ moved \notin others
    OBVIOUS
  <2> HIDE DEF all, others
  <2> QED BY <1>2, <2>1, FS_AddElement
<1>4. at \in 0 .. m
  BY <1>2
<1> DEFINE place(j) == IF j = moved THEN at
                       ELSE Place(others, j) + (IF Place(others, j) < at THEN 0 ELSE 1)
<1>5. order = [j \in all |-> place(j)]
  BY DEF Reorder
<1> HIDE DEF at, m
<1>6. \A j \in all : place(j) \in 0 .. m
  <2> TAKE j \in all
  <2>1. CASE j = moved
    BY <1>4, <2>1
  <2>2. CASE j # moved
    <3>1. Place(others, j) \in 0 .. m - 1
      BY <1>2, <2>2
    <3> HIDE DEF others
    <3> QED BY <1>2, <1>4, <2>2, <3>1
  <2> QED BY <2>1, <2>2
<1>7. \A v \in 0 .. m : \E j \in all : place(j) = v
  <2> TAKE v \in 0 .. m
  <2>1. CASE v = at
    <3>1. moved \in all /\ place(moved) = v
      BY <2>1
    <3> QED BY <3>1
  <2>2. CASE v < at
    <3>1. v \in 0 .. m - 1
      BY <1>2, <1>4, <2>2
    <3>2. PICK j \in others : Place(others, j) = v
      BY <1>2, <3>1
    <3>3. j \in all /\ place(j) = v + 0
      BY <2>2, <3>2
    <3> HIDE DEF place
    <3> QED BY <3>3
  <2>3. CASE v > at
    <3>1. v - 1 \in 0 .. m - 1 /\ ~(v - 1 < at) /\ (v - 1) + 1 = v
      BY <1>2, <1>4, <2>3
    <3>2. PICK j \in others : Place(others, j) = v - 1
      BY <1>2, <3>1
    <3>3. j \in all /\ place(j) = (v - 1) + 1
      BY <3>1, <3>2
    <3> HIDE DEF place
    <3> QED BY <3>1, <3>3
  <2>4. v = at \/ v < at \/ v > at
    BY <1>2, <1>4
  <2> QED BY <2>1, <2>2, <2>3, <2>4
<1>8. {order[j] : j \in all} = 0 .. m
  <2> HIDE DEF place, all, others
  <2> QED BY <1>5, <1>6, <1>7
<1>9. (m + 1) - 1 = m
  BY <1>2
<1> HIDE DEF all, order
<1>10. DOMAIN order = all
  BY <1>5
<1>11. {order[j] : j \in all} = 0 .. Cardinality(all) - 1
  BY <1>3, <1>8, <1>9
<1>12. Exactly(order, all)
  BY <1>10, <1>11 DEF Exactly
<1> QED BY <1>12 DEF all, order

\* reorder puts the card where it was asked, or last, and leaves the others in the order they had.
THEOREM ReorderKeepsTheOthers ==
    ASSUME TypeOK, NEW ids, ids \subseteq Rows, NEW moved, NEW index \in Nat
    PROVE  LET others == ids \ {moved}
               order == Reorder(ids, moved, index)
           IN /\ index <= Cardinality(others) => order[moved] = index
              /\ index > Cardinality(others) => order[moved] = Cardinality(others)
              /\ \A j, k \in others : order[j] < order[k] <=> Before(j, k)
<1> DEFINE others == ids \ {moved}
           m == Cardinality(others)
           at == IF index < m THEN index ELSE m
           order == Reorder(ids, moved, index)
           place(j) == Place(others, j)
<1>1. others \subseteq Rows
  OBVIOUS
<1>2. m \in Nat /\ \A j \in others : place(j) \in Nat
  BY <1>1, PlacesFact
<1>3. \A j, k \in others : Before(j, k) => place(j) < place(k)
  BY <1>1, PlacesInOrder
<1>4. /\ order[moved] = at
      /\ \A j \in others : order[j] = place(j) + (IF place(j) < at THEN 0 ELSE 1)
  BY DEF Reorder
<1>5. \A j, k \in others : j = k \/ Before(j, k) \/ Before(k, j)
  BY <1>1, BeforeFact
<1>6. \A j \in others : ~Before(j, j)
  BY <1>1, BeforeFact
<1>7. at \in Nat
  BY <1>2
<1>8. /\ index <= m => order[moved] = index
      /\ index > m => order[moved] = m
  BY <1>2, <1>4
<1> HIDE DEF others, at, order, place, m
<1>9. \A j, k \in others : order[j] < order[k] <=> Before(j, k)
  <2> TAKE j, k \in others
  <2>1. /\ place(j) \in Nat /\ place(k) \in Nat
        /\ order[j] = place(j) + (IF place(j) < at THEN 0 ELSE 1)
        /\ order[k] = place(k) + (IF place(k) < at THEN 0 ELSE 1)
    BY <1>2, <1>4
  <2>2. CASE Before(j, k)
    <3>1. place(j) < place(k)
      BY <1>3, <2>2
    <3>2. order[j] < order[k]
      BY <1>7, <2>1, <3>1
    <3> QED BY <2>2, <3>2
  <2>3. CASE ~Before(j, k)
    <3>1. j = k \/ place(k) < place(j)
      BY <1>3, <1>5, <2>3
    <3>2. ~(order[j] < order[k])
      BY <1>7, <2>1, <3>1
    <3> QED BY <2>3, <3>2
  <2> QED BY <2>2, <2>3
<1> QED BY <1>8, <1>9 DEF others, order, m

\* insertionIndex puts a card that is born, or accepted, above every card of a lower priority, and
\* right above the first of them, or last if there is none.
THEOREM InsertedByPriority ==
    ASSUME TypeOK, NEW ids, ids \subseteq Rows, NEW moved, moved \notin ids, NEW priority
    PROVE  LET order == Reorder(ids, moved, InsertionIndex(ids, priority)) IN
           /\ \A j \in Lowers(ids, priority) : order[moved] < order[j]
           /\ Lowers(ids, priority) # {} => \E j \in Lowers(ids, priority) : order[j] = order[moved] + 1
           /\ Lowers(ids, priority) = {} => order[moved] = Cardinality(ids)
<1> DEFINE lowers == Lowers(ids, priority)
           n == Cardinality(ids)
           index == InsertionIndex(ids, priority)
           at == IF index < n THEN index ELSE n
           order == Reorder(ids, moved, index)
           place(j) == Place(ids, j)
<1>0. ids \ {moved} = ids
  OBVIOUS
<1>1. /\ n \in Nat /\ \A j \in ids : place(j) \in 0 .. n - 1
      /\ lowers \subseteq ids
  BY PlacesFact DEF Lowers
<1>2. /\ order[moved] = at
      /\ \A j \in ids : order[j] = place(j) + (IF place(j) < at THEN 0 ELSE 1)
  BY <1>0 DEF Reorder
<1>3. CASE lowers = {}
  <2>1. index = n
    BY <1>3 DEF InsertionIndex
  <2> HIDE DEF index, order, n
  <2>2. order[moved] = n
    BY <1>2, <2>1
  <2> QED BY <1>3, <2>2 DEF index, order, n
<1>4. CASE lowers # {}
  <2> DEFINE places == {place(j) : j \in lowers}
  <2>1. places \subseteq Nat /\ places # {}
    BY <1>1, <1>4
  <2>2. PICK least \in places : \A k \in places : least <= k
    <3> HIDE DEF places
    <3> QED BY <2>1, LeastFact
  <2>3. /\ least \in 0 .. n
        /\ \E j \in lowers : place(j) = least
        /\ \A j \in lowers : least <= place(j)
    BY <1>1, <2>1, <2>2
  <2>4. /\ index \in 0 .. n
        /\ \E j \in lowers : place(j) = index
        /\ \A j \in lowers : index <= place(j)
    <3>1. index = FirstLower(ids, priority)
      BY <1>4 DEF InsertionIndex
    <3> HIDE DEF index
    <3> QED BY <2>3, <3>1 DEF FirstLower
  <2> HIDE DEF index, order, n, place, lowers
  <2>5. index < n /\ at = index /\ index \in Nat
    BY <1>1, <2>4
  <2> HIDE DEF at
  <2>6. \A j \in lowers : order[j] = place(j) + 1 /\ place(j) \in Nat
    BY <1>1, <1>2, <2>4, <2>5
  <2>7. \A j \in lowers : order[moved] < order[j]
    BY <1>2, <2>4, <2>5, <2>6
  <2>8. \E j \in lowers : order[j] = order[moved] + 1
    BY <1>2, <2>4, <2>5, <2>6
  <2> QED BY <1>4, <2>7, <2>8 DEF order, index, lowers
<1> QED BY <1>3, <1>4

\* The column a card leaves is closed up the same way.
LEMMA ClosedUpExact ==
    ASSUME TypeOK, NEW s \in Columns, NEW moved
    PROVE  /\ DOMAIN ClosedUp(s, moved) = Column(s) \ {moved}
           /\ Exactly(ClosedUp(s, moved), Column(s) \ {moved})
<1> DEFINE left == Column(s) \ {moved}
<1>1. left \subseteq Rows
  BY ColumnRows
<1>2. {Place(left, j) : j \in left} = 0 .. Cardinality(left) - 1
  BY <1>1, PlacesFact
<1>3. ClosedUp(s, moved) = [j \in left |-> Place(left, j)]
  BY DEF ClosedUp
<1> HIDE DEF left
<1>4. DOMAIN ClosedUp(s, moved) = left /\ \A j \in left : ClosedUp(s, moved)[j] = Place(left, j)
  BY <1>3
<1>5. {ClosedUp(s, moved)[j] : j \in left} = {Place(left, j) : j \in left}
  BY <1>4
<1>6. Exactly(ClosedUp(s, moved), left)
  BY <1>2, <1>4, <1>5 DEF Exactly
<1> QED BY <1>4, <1>6 DEF left

-----------------------------------------------------------------------------
(* What a request in flight leaves of a column, if nobody crosses it.        *)

Final(c, s) == IF s = req[c].to THEN Column(s) \cup {req[c].item} ELSE Column(s) \ {req[c].item}

ExactIn(c, s) == Exactly(req[c].order, Final(c, s))

\* The columns a request numbers anew get an exact numbering from it, except those that somebody
\* changed since it read them.  A card that is not inserted is number 0.
Exact(c) ==
    /\ pc[c] = "insert" => req[c].item = 0
    /\ InFlight(c) /\ c \notin passed => \A s \in Numbers(req[c]) \ late[c] : ExactIn(c, s)

NumInv == Numbered /\ \A c \in Requests : Exact(c)

\* A step that leaves the columns it looks at as they are.
Same(s) == Column(s)' = Column(s) /\ \A j \in Column(s) : items'[j].order = items[j].order

LEMMA SameExact ==
    ASSUME NEW c, NEW s, req'[c] = req[c], Same(s), ExactIn(c, s)
    PROVE  ExactIn(c, s)'
<1>1. Final(c, s)' = Final(c, s)
  BY DEF Final, Same
<1> QED BY <1>1 DEF ExactIn, Exactly

LEMMA SameNumbered ==
    ASSUME NEW s, Same(s), {items[i].order : i \in Column(s)} = 0 .. Cardinality(Column(s)) - 1
    PROVE  {items'[i].order : i \in Column(s)'} = 0 .. Cardinality(Column(s)') - 1
<1> DEFINE ids == Column(s)
           new == Column(s)'
<1>1. new = ids /\ \A j \in ids : items'[j].order = items[j].order
  BY DEF Same
<1> HIDE DEF ids, new
<1>2. {items'[i].order : i \in new} = {items[i].order : i \in ids}
  BY <1>1
<1>3. {items[i].order : i \in ids} = 0 .. Cardinality(ids) - 1
  BY DEF ids
<1>4. {items'[i].order : i \in new} = 0 .. Cardinality(new) - 1
  BY <1>1, <1>2, <1>3
<1> QED BY <1>4 DEF new

\* A request that decides changes no column; the others know what they knew.
LEMMA QuietNum ==
    ASSUME IInv, NumInv, NEW c \in Requests,
           \A s \in Columns : Same(s),
           \A d \in Requests \ {c} : pc'[d] = pc[d] /\ req'[d] = req[d] /\ late'[d] = late[d],
           passed' \in {passed, passed \ {c}}, shaken' = shaken, Exact(c)'
    PROVE  NumInv'
<1>1. ASSUME NEW s \in Columns \ shaken'
      PROVE  {items'[i].order : i \in Column(s)'} = 0 .. Cardinality(Column(s)') - 1
  <2>1. {items[i].order : i \in Column(s)} = 0 .. Cardinality(Column(s)) - 1
    BY <1>1 DEF NumInv, Numbered
  <2> QED BY <2>1, SameNumbered
<1>2. ASSUME NEW d \in Requests, d # c, InFlight(d)', d \notin passed',
             NEW s \in Numbers(req'[d]) \ late'[d]
      PROVE  ExactIn(d, s)'
  <2>1. InFlight(d) /\ d \notin passed /\ s \in Numbers(req[d]) \ late[d]
    BY <1>2 DEF InFlight
  <2>2. ExactIn(d, s)
    BY <2>1 DEF NumInv, Exact
  <2>3. s \in Columns
    <3>1. GoodPlan(req[d])
      BY <2>1, PlanFact DEF InFlight
    <3> QED BY <2>1, <3>1, ColumnsFact DEF GoodPlan
  <2> QED BY <1>2, <2>2, <2>3, SameExact
<1>3. \A d \in Requests \ {c} : Exact(d)'
  BY <1>2 DEF NumInv, Exact
<1>4. Numbered'
  BY <1>1 DEF Numbered
<1> QED BY <1>3, <1>4 DEF NumInv

LEMMA DecideNum ==
    ASSUME IInv, NumInv, NEW c \in Requests, NEW next, NEW plan,
           Decide(c, next, plan), UNCHANGED <<items, told, history>>, Exact(c)'
    PROVE  NumInv'
<1>1. \A d \in Requests \ {c} : pc'[d] = pc[d] /\ req'[d] = req[d] /\ late'[d] = late[d]
  BY DEF IInv, TypeOK, Decide, history
<1>2. \A s \in Columns : Same(s)
  BY DEF Same, Column
<1>3. passed' = passed /\ shaken' = shaken
  BY DEF history
<1> QED BY <1>1, <1>2, <1>3, QuietNum

\* A row reserved is on no column.
LEMMA ReserveNum ==
    ASSUME IInv, NumInv, NEW c \in Requests, NEW next, NEW plan,
           Reserve, Decide(c, next, plan), UNCHANGED history, Exact(c)'
    PROVE  NumInv'
<1>0. TypeOK
  BY DEF IInv
<1>1. \A d \in Requests \ {c} : pc'[d] = pc[d] /\ req'[d] = req[d] /\ late'[d] = late[d]
  BY DEF IInv, TypeOK, Decide, history
<1>2. /\ DOMAIN items = 1 .. Len(items) /\ Len(items) \in Nat
      /\ DOMAIN items' = 1 .. Len(items) + 1
      /\ \A j \in 1 .. Len(items) : items'[j] = items[j]
      /\ items'[Len(items) + 1] = NoItem
  <2>1. items' = Append(items, NoItem) /\ items \in Seq(Item \cup {NoItem})
    BY <1>0 DEF Reserve, TypeOK
  <2> QED BY <2>1
<1>3. \A s \in Columns : Same(s)
  BY <1>2, ItemFact DEF Same, Column
<1>4. passed' = passed /\ shaken' = shaken
  BY DEF history
<1> QED BY <1>1, <1>3, <1>4, QuietNum

\* A move gives the column it enters and the one it leaves an exact numbering.
LEMMA MoveExact ==
    ASSUME TypeOK, NEW i \in 1 .. Len(items), items[i] \in Item, NEW to \in Statuses, NEW index \in Nat,
           items[i].status \in Columns, NEW s \in {items[i].status, to} \cap Columns
    PROVE  Exactly(MoveOrder(i, items[i].status, to, index),
                   IF s = to THEN Column(s) \cup {i} ELSE Column(s) \ {i})
<1> DEFINE from == items[i].status
           entered == Reorder(Column(to), i, index)
           left == ClosedUp(from, i)
           order == MoveOrder(i, from, to, index)
<1>1. order = IF from = to THEN entered
              ELSE [j \in DOMAIN entered \cup DOMAIN left |->
                      IF j \in DOMAIN entered THEN entered[j] ELSE left[j]]
  BY DEF MoveOrder
<1>2. DOMAIN entered = Column(to) \cup {i}
  BY DEF Reorder
<1>3. /\ DOMAIN left = Column(from) \ {i}
      /\ Exactly(left, Column(from) \ {i})
  BY ClosedUpExact
<1>4. CASE s = to
  <2> DEFINE final == Column(to) \cup {i}
  <2>1. Column(to) \subseteq Rows
    BY <1>4, ColumnRows
  <2>2. Exactly(entered, final)
    BY <2>1, ReorderNumbersExactly
  <2> HIDE DEF entered, left, final
  <2>3. final \subseteq DOMAIN order /\ \A j \in final : order[j] = entered[j]
    BY <1>1, <1>2 DEF final
  <2> HIDE DEF order
  <2>4. {order[j] : j \in final} = {entered[j] : j \in final}
    BY <2>3
  <2>5. Exactly(order, final)
    BY <2>2, <2>3, <2>4 DEF Exactly
  <2> QED BY <1>4, <2>5 DEF final, order
<1>5. CASE s # to
  <2> DEFINE final == Column(from) \ {i}
  <2>1. s = from /\ from # to
    BY <1>5
  <2>2. \A j \in final : j \in DOMAIN left /\ j \notin DOMAIN entered
    BY <1>2, <1>3, <2>1 DEF Column
  <2> HIDE DEF entered, left, final
  <2>3. final \subseteq DOMAIN order /\ \A j \in final : order[j] = left[j]
    BY <1>1, <2>1, <2>2
  <2> HIDE DEF order
  <2>4. {order[j] : j \in final} = {left[j] : j \in final}
    BY <2>3
  <2>5. Exactly(left, final)
    BY <1>3 DEF final
  <2>6. Exactly(order, final)
    BY <2>3, <2>4, <2>5 DEF Exactly
  <2> QED BY <2>1, <2>6 DEF final, order
<1> QED BY <1>4, <1>5

LEMMA MoveNum ==
    ASSUME IInv, NumInv, NEW c \in Requests, BeginMove(c)
    PROVE  NumInv'
<1>0. TypeOK
  BY DEF IInv
<1> DEFINE i == req[c].item
           from == items[req[c].item].status
<1>1. PICK to \in Targets, index \in 0 .. MaxItems :
          Decide(c, "commit", Plan("move", i, from, to, "MEDIA", MoveOrder(i, from, to, index),
                 IF from = to THEN <<>> ELSE <<[type |-> "MOVED", to |-> to]>>))
  BY DEF BeginMove, From
<1> DEFINE p == Plan("move", i, from, to, "MEDIA", MoveOrder(i, from, to, index),
                     IF from = to THEN <<>> ELSE <<[type |-> "MOVED", to |-> to]>>)
<1>2. pc[c] = "move" /\ Exists(i) /\ Movable(from) /\ UNCHANGED <<items, told, history>>
  BY DEF BeginMove, From
<1>3. i \in 1 .. Len(items) /\ items[i] \in Item /\ from \in Columns /\ to \in Statuses /\ index \in Nat
  BY <1>0, <1>2, Ids, ItemFact, BoardAssumption DEF Exists, Movable
<1>4. /\ p.op = "move" /\ p.item = i /\ p.from = from /\ p.to = to
      /\ p.order = MoveOrder(i, from, to, index)
  BY Fields
<1>5. req'[c] = p
  BY <1>0, <1>1 DEF IInv, TypeOK, Decide
<1>6. \A s \in {from, to} \cap Columns :
        Exactly(MoveOrder(i, from, to, index), IF s = to THEN Column(s) \cup {i} ELSE Column(s) \ {i})
  BY <1>0, <1>3, MoveExact
<1> HIDE DEF p, i
<1>7. Numbers(p) = {from, to} \cap Columns
  BY <1>4 DEF Numbers
<1>8. ASSUME NEW s \in Numbers(p)
      PROVE  ExactIn(c, s)'
  <2>1. Final(c, s)' = IF s = to THEN Column(s) \cup {i} ELSE Column(s) \ {i}
    BY <1>2, <1>4, <1>5 DEF Final, Column
  <2>2. req'[c].order = MoveOrder(i, from, to, index)
    BY <1>4, <1>5
  <2> QED BY <1>6, <1>7, <1>8, <2>1, <2>2 DEF ExactIn
<1>a. pc'[c] = "commit"
  BY <1>0, <1>1 DEF IInv, TypeOK, Decide
<1>9. Exact(c)'
  BY <1>5, <1>8, <1>a DEF Exact
<1> QED BY <1>1, <1>2, <1>9, DecideNum DEF p

\* A card born or accepted enters its column by an exact numbering (0 stands for one not inserted).
LEMMA EnterExact ==
    ASSUME TypeOK, NEW i, NEW priority
    PROVE  LET pending == Column("PENDIENTE") IN
           Exactly(Reorder(pending, i, InsertionIndex(pending, priority)), pending \cup {i})
<1>1. Column("PENDIENTE") \subseteq Rows /\ Column("PENDIENTE") \in SUBSET (0 .. Len(items))
  BY ColumnRows, ColumnFact
<1>2. InsertionIndex(Column("PENDIENTE"), priority) \in Nat
  BY <1>1, InsertionFact
<1> QED BY <1>1, <1>2, ReorderNumbersExactly

\* A request that numbers nothing has nothing to keep exact.
LEMMA NothingToNumber ==
    ASSUME NEW p, p.op \in {"request", "reject", "priority", "remove"}
    PROVE  Numbers(p) = {}
BY DEF Numbers

LEMMA EnterNum ==
    ASSUME IInv, NumInv, NEW c \in Requests, BeginCreate(c) \/ BeginAccept(c)
    PROVE  NumInv'
<1>0. TypeOK
  BY DEF IInv
<1>1. ASSUME NEW op \in {"create", "accept"}, NEW i, NEW next \in {"insert", "commit"}, NEW from,
             NEW priority, NEW event, next = "insert" => i = 0,
             Decide(c, next, Plan(op, i, from, "PENDIENTE", priority,
                 Reorder(Column("PENDIENTE"), i, InsertionIndex(Column("PENDIENTE"), priority)), event)),
             UNCHANGED <<items, told, history>>
      PROVE  NumInv'
  <2> DEFINE order == Reorder(Column("PENDIENTE"), i, InsertionIndex(Column("PENDIENTE"), priority))
             p == Plan(op, i, from, "PENDIENTE", priority, order, event)
  <2>1. p.op = op /\ p.item = i /\ p.to = "PENDIENTE" /\ p.order = order
    BY Fields
  <2>2. req'[c] = p /\ pc'[c] = next
    BY <1>0, <1>1 DEF IInv, TypeOK, Decide
  <2>3. Exactly(order, Column("PENDIENTE") \cup {i})
    BY <1>0, EnterExact
  <2> HIDE DEF p, order
  <2>4. Numbers(p) = {"PENDIENTE"}
    BY <2>1 DEF Numbers
  <2>5. Final(c, "PENDIENTE")' = Column("PENDIENTE") \cup {i}
    BY <1>1, <2>1, <2>2 DEF Final, Column
  <2>6. ExactIn(c, "PENDIENTE")'
    BY <2>1, <2>2, <2>3, <2>5 DEF ExactIn
  <2>7. Exact(c)'
    BY <1>1, <2>1, <2>2, <2>4, <2>6 DEF Exact
  <2> QED BY <1>1, <2>7, DecideNum DEF p, order
<1>2. CASE BeginCreate(c)
  BY <1>1, <1>2 DEF BeginCreate
<1>3. CASE BeginAccept(c)
  BY <1>1, <1>3 DEF BeginAccept
<1> QED BY <1>2, <1>3

\* Steps that number nothing.
LEMMA TakeNum ==
    ASSUME IInv, NumInv, NEW c \in Requests,
           StartMove(c) \/ BeginReject(c) \/ BeginPriority(c) \/ StartRemove(c)
    PROVE  NumInv'
<1>1. ASSUME NEW op \in {"move", "reject", "priority", "remove"}, NEW i, NEW from, NEW to, NEW priority,
             NEW order, NEW event, NEW next \in {"move", "commit", "delete"},
             op = "move" => next = "move",
             Decide(c, next, Plan(op, i, from, to, priority, order, event)),
             UNCHANGED <<items, told, history>>
      PROVE  NumInv'
  <2> DEFINE p == Plan(op, i, from, to, priority, order, event)
  <2>1. p.op = op
    BY Fields
  <2>2. req'[c] = p /\ pc'[c] = next
    BY <1>1 DEF IInv, TypeOK, Decide
  <2> HIDE DEF p
  <2>3. Exact(c)'
    <3>1. CASE op = "move"
      BY <1>1, <2>2, <3>1 DEF Exact, InFlight
    <3>2. CASE op # "move"
      BY <1>1, <2>1, <2>2, <3>2, NothingToNumber DEF Exact
    <3> QED BY <3>1, <3>2
  <2> QED BY <1>1, <2>3, DecideNum DEF p
<1>2. CASE StartMove(c)
  BY <1>1, <1>2 DEF StartMove
<1>3. CASE BeginReject(c)
  BY <1>1, <1>3 DEF BeginReject
<1>4. CASE BeginPriority(c)
  BY <1>1, <1>4 DEF BeginPriority
<1>5. CASE StartRemove(c)
  BY <1>1, <1>5 DEF StartRemove
<1> QED BY <1>2, <1>3, <1>4, <1>5

LEMMA AskNum ==
    ASSUME IInv, NumInv, NEW c \in Requests, Ask(c)
    PROVE  NumInv'
<1> DEFINE p == Plan("request", Len(items) + 1, "SOLICITADO", "SOLICITADO", "MEDIA", NoOrder,
                     <<[type |-> "REQUESTED", to |-> "SOLICITADO"]>>)
<1>1. Reserve /\ Decide(c, "commit", p) /\ UNCHANGED history
  BY DEF Ask
<1>2. p.op = "request"
  BY Fields
<1>3. req'[c] = p /\ pc'[c] = "commit"
  BY <1>1 DEF IInv, TypeOK, Decide
<1> HIDE DEF p
<1>4. Exact(c)'
  BY <1>2, <1>3, NothingToNumber DEF Exact
<1> QED BY <1>1, <1>4, ReserveNum

\* The card inserted takes, under its identifier, the place that 0 held for it.
LEMMA NamedExact ==
    ASSUME NEW order, NEW ids, IsFiniteSet(ids), NEW id, 0 \notin ids, id \notin ids,
           Exactly(order, ids \cup {0})
    PROVE  Exactly([j \in (DOMAIN order \ {0}) \cup {id} |-> IF j = id THEN order[0] ELSE order[j]],
                   ids \cup {id})
<1> DEFINE new == [j \in (DOMAIN order \ {0}) \cup {id} |-> IF j = id THEN order[0] ELSE order[j]]
<1>1. Cardinality(ids \cup {id}) = Cardinality(ids \cup {0})
  BY FS_AddElement
<1>2. DOMAIN new = (DOMAIN order \ {0}) \cup {id} /\ new[id] = order[0] /\ \A j \in ids : new[j] = order[j]
  BY DEF Exactly
<1> HIDE DEF new
<1>3. {new[j] : j \in ids \cup {id}} = {order[j] : j \in ids \cup {0}}
  BY <1>2
<1>4. ids \cup {id} \subseteq DOMAIN new
  BY <1>2 DEF Exactly
<1>5. {order[j] : j \in ids \cup {0}} = 0 .. Cardinality(ids \cup {0}) - 1
  BY DEF Exactly
<1>6. Exactly(new, ids \cup {id})
  BY <1>1, <1>3, <1>4, <1>5 DEF Exactly
<1> QED BY <1>6 DEF new

LEMMA InsertNum ==
    ASSUME IInv, NumInv, NEW c \in Requests, Insert(c)
    PROVE  NumInv'
<1> DEFINE id == Len(items) + 1
           order == req[c].order
           new == [j \in (DOMAIN order \ {0}) \cup {id} |-> IF j = id THEN order[0] ELSE order[j]]
           p == [req[c] EXCEPT !.item = id, !.order = new]
<1>0. TypeOK
  BY DEF IInv
<1>1. pc[c] = "insert" /\ Reserve /\ Decide(c, "commit", p) /\ UNCHANGED history
  BY DEF Insert
<1>2. req'[c] = p /\ pc'[c] = "commit"
  BY <1>1 DEF IInv, TypeOK, Decide
<1>3. req[c].op = "create" /\ IsPlan(req[c]) /\ Says(req[c]) /\ req[c].to = "PENDIENTE" /\ req[c].item = 0
  BY <1>1 DEF IInv, PlanOK, Says, NumInv, Exact
<1> HIDE DEF new
<1>4. p.op = "create" /\ p.item = id /\ p.to = "PENDIENTE" /\ p.order = new
  BY <1>3, Renamed
<1> HIDE DEF p
<1>5. Numbers(p) = {"PENDIENTE"} /\ Numbers(req[c]) = {"PENDIENTE"}
  BY <1>3, <1>4 DEF Numbers
<1>6. /\ Column("PENDIENTE")' = Column("PENDIENTE") /\ IsFiniteSet(Column("PENDIENTE"))
      /\ 0 \notin Column("PENDIENTE") /\ id \notin Column("PENDIENTE")
  <2>1. items' = Append(items, NoItem) /\ items \in Seq(Item \cup {NoItem})
    BY <1>0, <1>1 DEF Reserve, TypeOK
  <2>2. /\ DOMAIN items = 1 .. Len(items) /\ Len(items) \in Nat /\ DOMAIN items' = 1 .. Len(items) + 1
        /\ \A j \in 1 .. Len(items) : items'[j] = items[j]
        /\ items'[Len(items) + 1] = NoItem
    BY <2>1
  <2>3. Column("PENDIENTE")' = Column("PENDIENTE")
    BY <2>2, ItemFact DEF Column
  <2> QED BY <1>0, <2>2, <2>3, ColumnRows
<1>7. ASSUME c \notin passed', NEW s \in Numbers(p) \ late'[c]
      PROVE  ExactIn(c, s)'
  <2>1. s = "PENDIENTE" /\ InFlight(c) /\ c \notin passed /\ s \in Numbers(req[c]) \ late[c]
    BY <1>1, <1>5, <1>7 DEF InFlight, history
  <2>2. Exactly(order, Column(s) \cup {0})
    BY <1>3, <2>1 DEF NumInv, Exact, ExactIn, Final
  <2>3. Exactly(new, Column(s) \cup {id})
    <3> HIDE DEF id, order
    <3> QED BY <1>6, <2>1, <2>2, NamedExact DEF new
  <2>4. Final(c, s)' = Column(s) \cup {id}
    BY <1>2, <1>4, <1>6, <2>1 DEF Final
  <2> QED BY <1>2, <1>4, <2>3, <2>4 DEF ExactIn
<1>8. Exact(c)'
  BY <1>2, <1>7 DEF Exact
<1> QED BY <1>1, <1>8, ReserveNum

LEMMA FailNum ==
    ASSUME IInv, NumInv, NEW c \in Requests, Fail(c)
    PROVE  NumInv'
<1>1. /\ \A d \in Requests \ {c} : pc'[d] = pc[d] /\ req'[d] = req[d] /\ late'[d] = late[d]
      /\ pc'[c] = "idle" /\ passed' = passed \ {c} /\ shaken' = shaken /\ items' = items
  BY DEF IInv, TypeOK, Fail, Settled
<1>2. \A s \in Columns : Same(s)
  BY <1>1 DEF Same, Column
<1>3. Exact(c)'
  BY <1>1 DEF Exact, InFlight
<1> QED BY <1>1, <1>2, <1>3, QuietNum

-----------------------------------------------------------------------------
(* The writes.                                                              *)

\* A column that a write does not touch keeps its cards and their orders.
LEMMA UntouchedFact ==
    ASSUME TypeOK, NEW after, DOMAIN after = DOMAIN items, \A j \in DOMAIN items : after[j] \in Item \cup {NoItem},
           items' = after, NEW s \in Columns, s \notin Touched(after)
    PROVE  Same(s)
<1>1. \A j \in DOMAIN items : items[j].status # after[j].status => s \notin {items[j].status, after[j].status}
  BY DEF Touched
<1>2. \A j \in DOMAIN items : NoItem \notin {items[j], after[j]} /\ items[j].order # after[j].order =>
        s \notin {items[j].status, after[j].status}
  BY DEF Touched
<1>3. Column(s)' = Column(s)
  BY <1>1 DEF Column
<1>4. \A j \in Column(s) : items'[j].order = items[j].order
  <2> TAKE j \in Column(s)
  <2>1. j \in DOMAIN items /\ items[j].status = s /\ after[j].status = s
    BY <1>1 DEF Column
  <2>2. NoItem \notin {items[j], after[j]}
    BY <2>1, ItemFact
  <2> QED BY <1>2, <2>1, <2>2
<1> QED BY <1>3, <1>4 DEF Same

\* applyOrder: each card that is there takes the place the plan has for it.
LEMMA OrderAfter ==
    ASSUME IInv, NEW c \in Requests, pc[c] \in {"commit", "delete"},
           NEW j \in DOMAIN items \cap DOMAIN req[c].order, After(req[c])[j] # NoItem
    PROVE  After(req[c])[j].order = req[c].order[j]
<1> DEFINE plan == req[c]
           row == IF j = plan.item THEN Written(plan, items[j]) ELSE items[j]
           new == After(plan)[j]
<1>1. new \in Item
  BY AfterFact
<1>2. new = Ordered(plan, j, row)
  BY DEF After
<1> HIDE DEF row, new
<1>3. row # NoItem
  BY <1>2 DEF Ordered, new
<1>4. new = [row EXCEPT !.order = plan.order[j]]
  BY <1>2, <1>3 DEF Ordered
<1>5. "order" \in DOMAIN row
  BY <1>1, <1>4 DEF Item
<1> QED BY <1>4, <1>5 DEF new

\* What a request that nobody passed leaves of a column it numbers is what it had decided.
LEMMA WrittenColumn ==
    ASSUME IInv, NEW c \in Requests, pc[c] = "commit", c \notin passed, items' = After(req[c]),
           NEW s \in Numbers(req[c])
    PROVE  /\ Column(s)' = Final(c, s)
           /\ \A j \in Final(c, s) \cap DOMAIN req[c].order : items'[j].order = req[c].order[j]
<1> DEFINE plan == req[c]
           i == plan.item
<1>0. TypeOK
  BY DEF IInv
<1>1. GoodPlan(plan) /\ PlanOK(c) /\ Knows(c) /\ i \in DOMAIN items /\ Says(plan) /\ plan.op \in Ops
  BY PlanFact, AfterFact DEF IInv, PlanOK, GoodPlan
<1>2. plan.op \in {"move", "create", "accept"} /\ s \in Columns
  <2>1. plan.op \notin {"request", "reject", "priority", "remove"}
    BY NothingToNumber
  <2> QED BY <1>1, <2>1, ColumnsFact
<1>3. s \in {plan.from, plan.to} /\ (s # plan.to => plan.op = "move")
  <2>1. CASE plan.op = "move"
    BY <2>1 DEF Numbers
  <2>2. CASE plan.op \in {"create", "accept"}
    BY <1>1, <2>2 DEF Numbers, Says
  <2> QED BY <1>2, <2>1, <2>2
<1>4. /\ DOMAIN items' = DOMAIN items
      /\ \A j \in DOMAIN items \ {i} : items'[j].status = items[j].status
      /\ plan.op \in {"create", "request"} => items'[i].status = plan.to
      /\ plan.op \in {"move", "accept", "reject", "priority"} /\ items[i] # NoItem =>
           items'[i].status = IF plan.op = "priority" THEN items[i].status ELSE plan.to
  BY AfterFact
<1>5. items'[i].status = plan.to
  <2>1. CASE plan.op = "create"
    BY <1>4, <2>1
  <2>2. CASE plan.op \in {"move", "accept"}
    <3>1. items[i].status = plan.from /\ plan.from \in Statuses
      BY <1>1, <2>2 DEF Knows, GoodPlan
    <3>2. items[i] # NoItem
      BY <3>1, ItemFact
    <3> QED BY <1>4, <2>2, <3>2
  <2> QED BY <1>2, <2>1, <2>2
<1>6. Column(s)' = Final(c, s)
  BY <1>1, <1>4, <1>5 DEF Column, Final
<1>7. ASSUME NEW j \in Final(c, s) \cap DOMAIN plan.order
      PROVE  items'[j].order = plan.order[j]
  <2>1. j \in DOMAIN items /\ items'[j].status = s
    BY <1>4, <1>6 DEF Column
  <2>2. items'[j] # NoItem
    BY <1>2, <2>1, ItemFact
  <2> QED BY <2>1, <2>2, OrderAfter
<1> QED BY <1>6, <1>7

LEMMA WriteNum ==
    ASSUME IInv, NumInv, NEW c \in Requests, Commit(c) \/ Delete(c)
    PROVE  NumInv'
<1> DEFINE plan == req[c]
           after == After(plan)
<1>0. TypeOK
  BY DEF IInv
<1>1. pc[c] \in {"commit", "delete"} /\ items' = after /\ Told(c, after) /\ Settled(c)
  BY DEF Commit, Delete
<1>2. /\ pc'[c] = "idle" /\ \A d \in Requests \ {c} : pc'[d] = pc[d] /\ req'[d] = req[d]
  BY <1>0, <1>1 DEF IInv, TypeOK, Settled
<1>3. /\ DOMAIN after = DOMAIN items /\ \A j \in DOMAIN items : after[j] \in Item \cup {NoItem}
      /\ plan.item \in DOMAIN items
  BY <1>1, AfterFact
<1>4. \A s \in Columns : s \notin Touched(after) => Same(s)
  <2> HIDE DEF after
  <2> QED BY <1>0, <1>1, <1>3, UntouchedFact
<1>5. /\ \A d \in Requests \ {c} : late'[d] = late[d] \cup (Touched(after) \cap Watched(d))
      /\ passed \ {c} \subseteq passed'
      /\ shaken' = (shaken \cup Numbers(plan) \cup Touched(after))
                      \ (IF c \in passed THEN {} ELSE Numbers(plan) \ late[c])
  BY <1>1 DEF Told
<1> HIDE DEF after
<1>6. ASSUME NEW s \in Columns \ shaken'
      PROVE  {items'[i].order : i \in Column(s)'} = 0 .. Cardinality(Column(s)') - 1
  <2>1. CASE s \notin Numbers(plan)
    <3>1. s \notin shaken /\ s \notin Touched(after)
      BY <1>5, <1>6, <2>1
    <3>2. {items[i].order : i \in Column(s)} = 0 .. Cardinality(Column(s)) - 1
      BY <1>6, <3>1 DEF NumInv, Numbered
    <3> QED BY <1>4, <3>1, <3>2, SameNumbered
  <2>2. CASE s \in Numbers(plan)
    <3>1. c \notin passed /\ s \notin late[c]
      BY <1>5, <1>6, <2>2
    <3>2. pc[c] = "commit"
      BY <1>1, <2>2, NothingToNumber DEF IInv, PlanOK
    <3>3. Exactly(plan.order, Final(c, s))
      BY <2>2, <3>1, <3>2 DEF NumInv, Exact, InFlight, ExactIn
    <3>4. /\ Column(s)' = Final(c, s)
          /\ \A j \in Final(c, s) \cap DOMAIN plan.order : items'[j].order = plan.order[j]
      BY <1>1, <2>2, <3>1, <3>2, WrittenColumn DEF after
    <3> DEFINE ids == Final(c, s)
               order == plan.order
               new == Column(s)'
    <3>5. new = ids /\ ids \subseteq DOMAIN order /\ {order[j] : j \in ids} = 0 .. Cardinality(ids) - 1
      BY <3>3, <3>4 DEF Exactly
    <3>6. \A j \in ids : items'[j].order = order[j]
      BY <3>4, <3>5
    <3> HIDE DEF ids, order, new
    <3>7. {items'[j].order : j \in new} = {order[j] : j \in ids}
      BY <3>5, <3>6
    <3>8. {items'[j].order : j \in new} = 0 .. Cardinality(new) - 1
      BY <3>5, <3>7
    <3> QED BY <3>8 DEF new
  <2> QED BY <2>1, <2>2
<1>7. ASSUME NEW d \in Requests, d # c, InFlight(d)', d \notin passed', NEW s \in Numbers(req'[d]) \ late'[d]
      PROVE  ExactIn(d, s)'
  <2>1. InFlight(d) /\ d \notin passed /\ req'[d] = req[d] /\ s \in Numbers(req[d])
    BY <1>2, <1>5, <1>7 DEF InFlight
  <2>2. s \notin late[d] /\ s \notin Touched(after)
    BY <1>5, <1>7, <2>1 DEF Watched
  <2>3. ExactIn(d, s)
    BY <2>1, <2>2 DEF NumInv, Exact
  <2>4. s \in Columns
    <3>1. GoodPlan(req[d])
      BY <2>1, PlanFact DEF InFlight
    <3> QED BY <2>1, <3>1, ColumnsFact DEF GoodPlan
  <2> QED BY <1>4, <2>1, <2>2, <2>3, <2>4, SameExact
<1>8. \A d \in Requests : Exact(d)'
  <2> TAKE d \in Requests
  <2>1. CASE d = c
    BY <1>2, <2>1 DEF Exact, InFlight
  <2>2. CASE d # c
    BY <1>2, <1>7, <2>2 DEF NumInv, Exact
  <2> QED BY <2>1, <2>2
<1>9. Numbered'
  BY <1>6 DEF Numbered
<1> QED BY <1>8, <1>9 DEF NumInv

\* The cards of a column are numbered 0, 1, 2... with no gap and no tie, except from a change that
\* crossed another in that column, or a deletion, until somebody numbers it again (reorder, applyOrder).
THEOREM ColumnsAreNumbered == Spec => []Numbered
<1>1. Init => NumInv
  <2> SUFFICES ASSUME Init
               PROVE  NumInv
    OBVIOUS
  <2>1. DOMAIN items = {} /\ pc = [c \in Requests |-> "idle"]
    BY DEF Init
  <2>2. \A c \in Requests : Exact(c)
    BY <2>1 DEF Exact, InFlight
  <2>3. Numbered
    <3>1. \A s \in Columns : Column(s) = {}
      BY <2>1 DEF Column
    <3>2. {items[i].order : i \in {}} = {} /\ 0 .. Cardinality({}) - 1 = {}
      BY FS_EmptySet
    <3> QED BY <3>1, <3>2 DEF Numbered
  <2> QED BY <2>2, <2>3 DEF NumInv
<1>2. IInv /\ NumInv /\ [Next]_vars => NumInv'
  <2> SUFFICES ASSUME IInv, NumInv, [Next]_vars
               PROVE  NumInv'
    OBVIOUS
  <2>1. CASE Next
    <3>1. PICK c \in Requests :
            \/ StartMove(c) \/ BeginMove(c)
            \/ BeginCreate(c) \/ Insert(c) \/ Ask(c)
            \/ BeginAccept(c) \/ BeginReject(c) \/ BeginPriority(c)
            \/ StartRemove(c) \/ Commit(c) \/ Delete(c) \/ Fail(c)
      BY <2>1 DEF Next
    <3> QED BY <3>1, TakeNum, MoveNum, EnterNum, InsertNum, AskNum, WriteNum, FailNum
  <2>2. CASE UNCHANGED vars
    <3>1. UNCHANGED <<items, told, pc, req, late, passed, raced, shaken>>
      BY <2>2 DEF vars
    <3>2. Numbered'
      <4>1. \A s \in Columns : Same(s)
        BY <3>1 DEF Same, Column
      <4>2. \A s \in Columns \ shaken' :
              {items'[i].order : i \in Column(s)'} = 0 .. Cardinality(Column(s)') - 1
        BY <3>1, <4>1, SameNumbered DEF NumInv, Numbered
      <4> QED BY <4>2 DEF Numbered
    <3>3. ASSUME NEW c \in Requests
          PROVE  Exact(c)'
      <4>1. Exact(c)
        BY DEF NumInv
      <4>2. \A s \in Numbers(req[c]) : ExactIn(c, s) => ExactIn(c, s)'
        BY <3>1 DEF ExactIn, Final, Column
      <4> QED BY <3>1, <4>1, <4>2 DEF Exact, InFlight
    <3> QED BY <3>2, <3>3 DEF NumInv
  <2> QED BY <2>1, <2>2
<1>3. NumInv => Numbered
  BY DEF NumInv
<1> QED BY <1>1, <1>2, <1>3, Invariance, PTL DEF Spec

=============================================================================
