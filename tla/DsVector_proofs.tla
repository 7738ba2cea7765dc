-------------------------- MODULE DsVector_proofs --------------------------
(***************************************************************************)
(* The circular vector for any values, capacities and bounds: its indices  *)
(* stay inside the buffer, and (for elements of one cell that users expand *)
(* by two) it is a sequence.                                               *)
(***************************************************************************)
EXTENDS DsVector, DsLemmas_proofs

-----------------------------------------------------------------------------
(* Cells. *)

\* The cells of a vector of n elements.
Cells(d, n) ==
    /\ DOMAIN d = 0 .. CellCount(n) - 1
    /\ \A c \in 0 .. CellCount(n) - 1 : d[c] \in CellKinds

LEMMA CellCounts ==
    /\ ElementSize \in Nat \ {0}
    /\ \A a \in Int : CellCount(a) \in Int
    /\ \A a \in Nat : CellCount(a) \in Nat
    /\ CellCount(1) = ElementSize /\ CellCount(0) = 0
  BY VectorAssumption DEF CellCount

LEMMA CellsAdd ==
    ASSUME NEW a \in Int, NEW b \in Int, NEW c \in Int, a + b = c
    PROVE  CellCount(a) + CellCount(b) = CellCount(c)
<1>1. (a + b) * ElementSize = a * ElementSize + b * ElementSize
  BY CellCounts
<1> QED BY <1>1 DEF CellCount

LEMMA CellsOrdered ==
    ASSUME NEW a \in Int, NEW b \in Int, a <= b
    PROVE  CellCount(a) <= CellCount(b)
<1>1. a * ElementSize <= b * ElementSize
  BY CellCounts
<1> QED BY <1>1 DEF CellCount

LEMMA MovedCells ==
    ASSUME NEW d, NEW m \in Int, Cells(d, m), NEW to \in Int, NEW from \in Nat, NEW n \in Int,
           from + n <= CellCount(m)
    PROVE  Cells(Moved(d, to, from, n), m)
<1> DEFINE e == CellCount(m)
<1>1. e \in Int
  BY CellCounts
<1>2. \A c \in 0 .. e - 1 : c - to \in 0 .. n - 1 => from + (c - to) \in 0 .. e - 1
  BY <1>1
<1> QED BY <1>2 DEF Cells, Moved

LEMMA StoredCells ==
    ASSUME NEW d, NEW m, Cells(d, m), NEW slot, NEW v \in Values
    PROVE  Cells(Stored(d, slot, v), m)
<1>1. \A c : c - CellCount(slot) \in 0 .. ElementSize - 1 => <<v, c - CellCount(slot)>> \in CellKinds
  BY DEF CellKinds
<1> QED BY <1>1 DEF Cells, Stored

\* A type invariant with the cells named.
VectorInv ==
    /\ capacity \in Nat /\ expandable \in BOOLEAN
    /\ length \in 0 .. capacity
    /\ head \in 0 .. capacity /\ (capacity > 0 => head < capacity)
    /\ Cells(data, capacity)

LEMMA VectorInvIsTypeOK == VectorInv <=> TypeOK
<1>1. capacity = 0 => 0 .. CellCount(capacity) - 1 = {}
  BY CellCounts
<1> QED BY <1>1 DEF VectorInv, TypeOK, Cells

LEMMA SlotInside ==
    ASSUME VectorInv, capacity > 0, NEW i \in 0 .. capacity
    PROVE  /\ Slot(i) \in 0 .. capacity - 1
           /\ Slot(i) = IF head + i < capacity THEN head + i ELSE head + i - capacity
<1> DEFINE x == head + i
<1>1. capacity \in Nat \ {0} /\ x \in 0 .. 2 * capacity - 1 /\ head \in 0 .. capacity - 1
  BY DEF VectorInv
<1>2. Slot(i) = x % capacity
  BY DEF Slot
<1> HIDE DEF x
<1>3. Slot(i) = IF x < capacity THEN x ELSE x - capacity
  BY <1>1, <1>2, SmallRemainder
<1> QED BY <1>1, <1>3 DEF x

\* The first section of a wrapped vector.
LEMMA FirstSection ==
    ASSUME VectorInv, Wrapped
    PROVE  /\ capacity > 0 /\ head > 0 /\ length > 0
           /\ (head + length) % capacity = head + length - capacity
           /\ head + length - capacity \in 1 .. head
<1>1. /\ capacity > 0 /\ head > 0 /\ length > 0 /\ capacity \in Nat \ {0}
      /\ head + length \in 0 .. 2 * capacity - 1
      /\ head \in Nat /\ length \in 0 .. capacity /\ head + length > capacity
  BY DEF VectorInv, Wrapped
<1>2. PICK x \in Int : x = head + length
  BY <1>1
<1>3. x \in 0 .. 2 * capacity - 1 /\ ~(x < capacity)
  BY <1>1, <1>2
<1>4. x % capacity = IF x < capacity THEN x ELSE x - capacity
  BY <1>1, <1>3, SmallRemainder
<1>5. x % capacity = x - capacity
  BY <1>3, <1>4
<1>6. head + length - capacity \in 1 .. head
  <2>1. length <= capacity /\ length \in Int /\ head \in Int /\ capacity \in Int
    BY <1>1
  <2> QED BY <1>1, <2>1
<1> QED BY <1>1, <1>2, <1>5, <1>6

-----------------------------------------------------------------------------
(* Growth. *)

LEMMA GrownCells ==
    ASSUME VectorInv, capacity > 0, NEW size \in Nat, 2 * capacity <= size
    PROVE  /\ Cells(GrownData(size), size)
           /\ GrownHead \in 0 .. size - 1
<1> DEFINE d == Reallocated(size)
<1>1. capacity \in Nat /\ head \in 0 .. capacity - 1
  BY DEF VectorInv
<1>2. /\ CellCount(size) \in Int /\ CellCount(capacity) \in Int /\ CellCount(head) \in Nat
      /\ CellCount(capacity) <= CellCount(size)
      /\ CellCount(capacity + head) \in Int
      /\ CellCount(capacity - head) \in Int
      /\ CellCount(head) + CellCount(capacity - head) = CellCount(capacity)
  <2>1. capacity + head \in Int /\ capacity - head \in Int /\ capacity <= size
        /\ head + (capacity - head) = capacity /\ capacity \in Int /\ size \in Int /\ head \in Int
    BY <1>1
  <2>2. CellCount(capacity) <= CellCount(size)
    BY <2>1, CellsOrdered
  <2>3. CellCount(head) + CellCount(capacity - head) = CellCount(capacity)
    BY <2>1, CellsAdd
  <2>4. /\ CellCount(size) \in Int /\ CellCount(capacity) \in Int /\ CellCount(head) \in Nat
        /\ CellCount(capacity + head) \in Int /\ CellCount(capacity - head) \in Int
    BY <1>1, <2>1, CellCounts
  <2> QED BY <2>2, <2>3, <2>4
<1>3. Cells(d, size)
  <2>1. Garbage \in CellKinds
    BY DEF CellKinds
  <2> QED BY <2>1 DEF Reallocated, Cells, VectorInv
<1> HIDE DEF d
<1>4. CASE SecondMoves
  <2>1. GrownData(size) = Moved(d, CellCount(capacity + head), CellCount(head), CellCount(capacity - head))
    BY <1>4 DEF GrownData, d
  <2>2. Cells(GrownData(size), size)
    BY <1>2, <1>3, <2>1, MovedCells
  <2> QED BY <1>1, <1>4, <2>2 DEF GrownHead
<1>5. CASE Wrapped /\ ~SecondMoves
  <2> DEFINE n == CellCount((head + length) % capacity)
  <2>1. GrownData(size) = Moved(d, CellCount(capacity), 0, n)
    BY <1>5 DEF GrownData, d
  <2>2. n \in Int /\ 0 + n <= CellCount(size)
    <3>1. (head + length) % capacity \in Int /\ (head + length) % capacity <= size
      BY <1>1, <1>5, FirstSection
    <3> QED BY <3>1, CellCounts, CellsOrdered
  <2> HIDE DEF n
  <2>3. Cells(GrownData(size), size)
    BY <1>2, <1>3, <2>1, <2>2, MovedCells
  <2> QED BY <1>1, <1>5, <2>3 DEF GrownHead
<1>6. CASE ~Wrapped
  <2>1. ~SecondMoves
    BY <1>6 DEF SecondMoves
  <2>2. GrownData(size) = d
    BY <1>6, <2>1 DEF GrownData, d
  <2> QED BY <1>1, <1>3, <2>1, <2>2 DEF GrownHead
<1> QED BY <1>4, <1>5, <1>6

\* A user's factor makes the vector at least twice as large.
LEMMA FactorDoubles ==
    ASSUME VectorInv, NEW f \in Factors, f * capacity > capacity
    PROVE  f * capacity \in Nat /\ 2 * capacity <= f * capacity /\ f >= 2
<1>1. f \in Nat /\ capacity \in Nat
  BY VectorAssumption DEF VectorInv
<1>2. f >= 2
  <2>1. f = 0 => f * capacity = 0
    BY <1>1
  <2>2. f = 1 => f * capacity = capacity
    BY <1>1
  <2> QED BY <1>1, <2>1, <2>2
<1>3. 2 * capacity <= f * capacity
  BY <1>1, <1>2
<1> QED BY <1>1, <1>2, <1>3

-----------------------------------------------------------------------------
(* Removal. *)

LEMMA ClosedCells ==
    ASSUME VectorInv, NEW i \in 0 .. length - 1
    PROVE  Cells(Closed(i), capacity)
<1> DEFINE E == ElementSize
<1>1. /\ capacity \in Nat /\ head \in 0 .. capacity - 1 /\ length \in 1 .. capacity
      /\ Cells(data, capacity) /\ E \in Nat \ {0} /\ capacity > 0 /\ E = CellCount(1)
      /\ CellCount(capacity) \in Int
  BY CellCounts DEF VectorInv
\* n elements from place a on end inside.
<1>2. ASSUME NEW a \in Nat, NEW n \in Int, a + n + 1 <= capacity
      PROVE  /\ CellCount(a) \in Nat /\ CellCount(n) \in Int
             /\ CellCount(a) + E + CellCount(n) <= CellCount(capacity)
  <2>1. a + n \in Int /\ (a + n) + 1 = a + n + 1 /\ a + n + 1 \in Int
    OBVIOUS
  <2>2. /\ CellCount(a) \in Nat /\ CellCount(n) \in Int /\ CellCount(a + n) \in Int
        /\ CellCount(a + n + 1) \in Int
    BY <2>1, CellCounts
  <2>3. CellCount(a) + CellCount(n) = CellCount(a + n)
    BY <2>1, CellsAdd
  <2>4. CellCount(a + n) + CellCount(1) = CellCount(a + n + 1)
    BY <2>1, CellsAdd
  <2>5. CellCount(a + n + 1) <= CellCount(capacity)
    BY <1>1, <1>2, <2>1, CellsOrdered
  <2> QED BY <1>1, <2>2, <2>3, <2>4, <2>5
<1> HIDE DEF E
<1>3. CASE ~Wrapped
  <2> DEFINE a == head + i
             n == length - i - 1
             start == CellCount(a)
             m == CellCount(n)
  <2>1. a \in Nat /\ n \in Int /\ a + n + 1 <= capacity
    BY <1>1, <1>3 DEF Wrapped
  <2>2. Closed(i) = Moved(data, start, start + E, m)
    BY <1>3 DEF Closed, ClosedUnwrapped, E
  <2> HIDE DEF a, n
  <2>3. start \in Nat /\ m \in Int /\ start + E + m <= CellCount(capacity)
    BY <1>2, <2>1
  <2> HIDE DEF start, m
  <2>4. start + E \in Nat /\ start \in Int
    BY <1>1, <2>3
  <2> QED BY <1>1, <2>2, <2>3, <2>4, MovedCells
<1>4. ASSUME Wrapped
      PROVE  /\ InFirst = head + length - capacity /\ InFirst \in 1 .. head
             /\ InSecond = capacity - head
  BY <1>4, FirstSection DEF InFirst, InSecond
<1>5. CASE Wrapped /\ head + i >= capacity
  <2> DEFINE a == Slot(i)
             n == InFirst - a - 1
             start == CellCount(a)
             m == CellCount(n)
  <2>1. a \in Nat /\ n \in Int /\ a + n + 1 <= capacity
    BY <1>1, <1>4, <1>5, SlotInside
  <2>2. Closed(i) = Moved(data, start, start + 1, m)
    BY <1>5 DEF Closed, ClosedFirst
  <2> HIDE DEF a, n
  <2>3. start \in Nat /\ m \in Int /\ start + E + m <= CellCount(capacity)
    BY <1>2, <2>1
  <2> HIDE DEF start, m
  <2>4. start + 1 \in Nat /\ start \in Int /\ start + 1 + m <= CellCount(capacity)
    BY <1>1, <2>3
  <2> QED BY <1>1, <2>2, <2>3, <2>4, MovedCells
<1>6. CASE Wrapped /\ head + i < capacity
  <2> DEFINE a == head + i
             n == InSecond - i - 1
             l == InFirst - 1
             start == CellCount(a)
             m == CellCount(n)
             second == Moved(data, start, start + E, m)
             bridge == Moved(second, CellCount(capacity - 1), 0, E)
  <2>1. /\ a \in Nat /\ n \in Int /\ a + n + 1 <= capacity
        /\ l \in Int /\ 0 + l + 1 <= capacity
        /\ 0 + 0 + 1 <= capacity /\ capacity - 1 \in Int
    BY <1>1, <1>4, <1>6
  <2>2. Closed(i) = Moved(bridge, 0, E, CellCount(l))
    <3>1. ~(head + i >= capacity) /\ Wrapped
      BY <1>1, <1>6
    <3>2. Closed(i) = ClosedSecond(i)
      BY <3>1 DEF Closed
    <3>3. ClosedSecond(i) = Moved(bridge, 0, E, CellCount(l))
      BY ONLY TRUE DEF ClosedSecond, E
    <3> QED BY ONLY <3>2, <3>3
  <2> HIDE DEF a, n, l
  <2>3. start \in Nat /\ m \in Int /\ start + E + m <= CellCount(capacity)
    BY <1>2, <2>1
  <2>4. CellCount(l) \in Int /\ 0 + E + CellCount(l) <= CellCount(capacity)
    BY <1>2, <2>1, CellCounts
  <2>5. 0 + E <= CellCount(capacity) /\ CellCount(capacity - 1) \in Int
    <3>1. CellCount(0) + E + CellCount(0) <= CellCount(capacity)
      BY <1>2, <2>1
    <3> QED BY <1>1, <2>1, <3>1, CellCounts
  <2> HIDE DEF start, m, second, bridge
  <2>6. Cells(second, capacity)
    <3>1. start + E \in Nat /\ start \in Int
      BY <1>1, <2>3
    <3> QED BY <1>1, <2>3, <3>1, MovedCells DEF second
  <2>7. Cells(bridge, capacity)
    <3>1. 0 \in Nat /\ E \in Int
      BY <1>1
    <3> QED BY <1>1, <2>5, <2>6, <3>1, MovedCells DEF bridge
  <2>8. 0 \in Int /\ E \in Nat /\ E + CellCount(l) <= CellCount(capacity)
    BY <1>1, <2>4
  <2> QED BY <1>1, <2>2, <2>4, <2>7, <2>8, MovedCells
<1> QED BY <1>1, <1>3, <1>5, <1>6

-----------------------------------------------------------------------------
(* Every call keeps the vector's type. *)

LEMMA KeptVector ==
    ASSUME VectorInv, UNCHANGED <<data, head, length, capacity, expandable>>
    PROVE  VectorInv'
  BY DEF VectorInv, Cells

LEMMA CreateKeepsType ==
    ASSUME VectorInv, NEW n \in Capacities, Create(n)
    PROVE  VectorInv'
<1>1. n \in Nat \ {0} /\ Expandables \subseteq BOOLEAN
  BY VectorAssumption
<1>2. RoundUpPowOfTwo(n) \in Nat \ {0}
  BY <1>1, RoundedUp
<1>3. CASE UNCHANGED <<data, head, length, capacity, expandable>>
  BY <1>3, KeptVector
<1>4. CASE /\ capacity' = RoundUpPowOfTwo(n)
           /\ data' = [c \in 0 .. CellCount(capacity') - 1 |-> Zero]
           /\ head' = 0 /\ length' = 0
           /\ expandable' \in Expandables
  <2>1. Zero \in CellKinds
    BY DEF CellKinds
  <2>2. Cells(data', capacity')
    BY <1>4, <2>1 DEF Cells
  <2>3. capacity' \in Nat /\ capacity' > 0 /\ expandable' \in BOOLEAN
    BY <1>1, <1>2, <1>4
  <2> QED BY <1>4, <2>2, <2>3 DEF VectorInv
<1> QED BY <1>3, <1>4 DEF Create

LEMMA RefuseKeepsType ==
    ASSUME VectorInv, NEW status, Refuse(status)
    PROVE  VectorInv'
  BY KeptVector DEF Refuse

LEMMA ExpandKeepsType ==
    ASSUME VectorInv, NEW f \in Factors, Expand(f * capacity)
    PROVE  VectorInv'
<1>1. CASE \E s : Refuse(s)
  BY <1>1, RefuseKeepsType
<1>2. CASE /\ capacity > 0 /\ ~(capacity >= f * capacity)
           /\ data' = GrownData(f * capacity)
           /\ head' = GrownHead
           /\ capacity' = f * capacity
           /\ UNCHANGED <<length, expandable>>
  <2>1. f * capacity \in Nat /\ 2 * capacity <= f * capacity /\ capacity \in Nat /\ capacity > 0
    <3>1. f \in Nat /\ capacity \in Nat
      BY VectorAssumption DEF VectorInv
    <3>2. f * capacity > capacity
      BY <1>2, <3>1
    <3> QED BY <1>2, <3>1, <3>2, FactorDoubles
  <2>2. PICK size \in Nat : size = f * capacity
    BY <2>1
  <2>3. Cells(GrownData(size), size) /\ GrownHead \in 0 .. size - 1
    BY <2>1, <2>2, GrownCells
  <2>4. Cells(data', capacity') /\ head' \in 0 .. capacity' - 1 /\ capacity' = size
    BY <1>2, <2>2, <2>3
  <2>5. size >= capacity
    BY <2>1, <2>2
  <2> QED BY <1>2, <2>1, <2>4, <2>5 DEF VectorInv
<1> QED BY <1>1, <1>2 DEF Expand

LEMMA PushKeepsType ==
    ASSUME VectorInv, NEW v \in Values, Push(v)
    PROVE  VectorInv'
<1>1. CASE \E s : Refuse(s)
  BY <1>1, RefuseKeepsType
<1>2. CASE PushWithRoom(v)
  <2>1. Cells(data', capacity')
    BY <1>2, StoredCells DEF PushWithRoom, VectorInv
  <2> QED BY <1>2, <2>1 DEF PushWithRoom, VectorInv
<1>3. CASE /\ capacity > 0 /\ length = capacity
           /\ data' = Stored(GrownData(2 * capacity), (GrownHead + length) % (2 * capacity), v)
           /\ head' = GrownHead
           /\ capacity' = 2 * capacity
           /\ length' = length + 1
           /\ UNCHANGED expandable
  <2>1. PICK size \in Nat : size = 2 * capacity
    BY DEF VectorInv
  <2>2. Cells(GrownData(size), size) /\ GrownHead \in 0 .. size - 1
    BY <1>3, <2>1, GrownCells DEF VectorInv
  <2>3. Cells(data', size)
    BY <1>3, <2>1, <2>2, StoredCells
  <2> QED BY <1>3, <2>1, <2>2, <2>3 DEF VectorInv
<1> QED BY <1>1, <1>2, <1>3 DEF Push, PushAndGrow

LEMMA PopKeepsType ==
    ASSUME VectorInv, Pop
    PROVE  VectorInv'
<1>1. CASE \E s : Refuse(s)
  BY <1>1, RefuseKeepsType
<1>2. CASE /\ capacity > 0 /\ ~(length = 0)
           /\ head' = Slot(1)
           /\ length' = length - 1
           /\ UNCHANGED <<data, capacity, expandable>>
  <2>1. 1 \in 0 .. capacity
    BY <1>2 DEF VectorInv
  <2>2. head' \in 0 .. capacity - 1
    BY <1>2, <2>1, SlotInside
  <2> QED BY <1>2, <2>2 DEF VectorInv
<1> QED BY <1>1, <1>2 DEF Pop

LEMMA RemoveKeepsType ==
    ASSUME VectorInv, NEW i \in Nat, RemoveByIndex(i)
    PROVE  VectorInv'
<1>1. CASE \E s : Refuse(s)
  BY <1>1, RefuseKeepsType
<1>2. CASE /\ capacity > 0 /\ ~(i >= length)
           /\ data' = Closed(i)
           /\ length' = length - 1
           /\ UNCHANGED <<head, capacity, expandable>>
  <2>1. i \in 0 .. length - 1
    BY <1>2 DEF VectorInv
  <2>2. Cells(data', capacity')
    BY <1>2, <2>1, ClosedCells
  <2> QED BY <1>2, <2>1, <2>2 DEF VectorInv
<1> QED BY <1>1, <1>2 DEF RemoveByIndex

LEMMA ClearKeepsType ==
    ASSUME VectorInv, Clear
    PROVE  VectorInv'
<1>1. Zero \in CellKinds
  BY DEF CellKinds
<1>2. Cells(data', capacity')
  BY <1>1 DEF Clear, Cells, VectorInv
<1> QED BY <1>2 DEF Clear, VectorInv

LEMMA NoCells == Cells(<<>>, 0)
<1>1. CellCount(0) = 0
  BY CellCounts
<1>2. \A c : c \notin DOMAIN <<>>
  OBVIOUS
<1>3. 0 .. 0 - 1 = {}
  OBVIOUS
<1>4. DOMAIN <<>> = 0 .. 0 - 1
  BY <1>2, <1>3
<1> QED BY <1>1, <1>3, <1>4 DEF Cells

LEMMA DestroyKeepsType ==
    ASSUME VectorInv, Destroy
    PROVE  VectorInv'
<1>1. data' = <<>> /\ head' = 0 /\ length' = 0 /\ capacity' = 0 /\ expandable' = FALSE
  BY DEF Destroy
<1>2. Cells(data', capacity')
  BY <1>1, NoCells
<1>3. head' = 0 /\ length' = 0 /\ capacity' = 0 /\ expandable' \in BOOLEAN
  BY <1>1
<1> QED BY <1>2, <1>3 DEF VectorInv

LEMMA InitHasType == Init => VectorInv
<1> SUFFICES ASSUME Init PROVE VectorInv
  OBVIOUS
<1>1. data = <<>> /\ capacity = 0 /\ head = 0 /\ length = 0 /\ expandable = FALSE
  BY DEF Init
<1>2. Cells(data, capacity)
  BY <1>1, NoCells
<1>3. head = 0 /\ length = 0 /\ capacity = 0 /\ expandable \in BOOLEAN
  BY <1>1
<1> QED BY <1>2, <1>3 DEF VectorInv

LEMMA NextKeepsType ==
    ASSUME VectorInv, Next
    PROVE  VectorInv'
<1>1. CASE \E n \in Capacities : Create(n)
  BY <1>1, CreateKeepsType
<1>2. CASE \E f \in Factors : Expand(f * capacity)
  BY <1>2, ExpandKeepsType
<1>3. CASE \E v \in Values : Push(v)
  BY <1>3, PushKeepsType
<1>4. CASE Pop
  BY <1>4, PopKeepsType
<1>5. CASE \E i \in 0 .. MaxLength + 1 : At(i)
  BY <1>5, KeptVector DEF At
<1>6. CASE \E i \in 0 .. MaxLength : RemoveByIndex(i)
  BY <1>6, RemoveKeepsType
<1>7. CASE \E p \in Pointers : RemoveByPointer(p)
  <2>1. \A i \in 0 .. length - 1 : i \in Nat
    OBVIOUS
  <2> QED BY <1>7, <2>1, RemoveKeepsType, RefuseKeepsType DEF RemoveByPointer
<1>8. CASE Clear
  BY <1>8, ClearKeepsType
<1>9. CASE Destroy
  BY <1>9, DestroyKeepsType
<1> QED BY <1>1, <1>2, <1>3, <1>4, <1>5, <1>6, <1>7, <1>8, <1>9 DEF Next

\* The indices stay inside the buffer, whatever is created, expanded, pushed,
\* popped, removed and cleared, for any element size and any factors: no call
\* of ds_vector reads or writes a cell that is not the vector's.
THEOREM TypeCorrect == Spec => []TypeOK
<1>1. Init => VectorInv
  BY InitHasType
<1>2. VectorInv /\ [Next]_vars => VectorInv'
  BY NextKeepsType, KeptVector DEF vars
<1>3. VectorInv => TypeOK
  BY VectorInvIsTypeOK
<1> QED BY <1>1, <1>2, <1>3, PTL DEF Spec

-----------------------------------------------------------------------------
(***************************************************************************)
(* Elements of one cell.  What is found in a slot then depends on that one *)
(* cell, so the sequence that a vector stands for is told by the cells of  *)
(* its slots.                                                              *)
(***************************************************************************)

OneCell == ElementSize = 1

LEMMA OneCellEach ==
    ASSUME OneCell, NEW a \in Int
    PROVE  CellCount(a) = a
  BY DEF OneCell, CellCount

LEMMA FoundIn ==
    ASSUME OneCell, NEW d, NEW slot \in Int
    PROVE  /\ \A v \in Values \cup {NULL} : d[slot] = <<v, 0>> => Found(d, slot) = v
           /\ (\A v \in Values \cup {NULL} : d[slot] # <<v, 0>>) => Found(d, slot) = Torn
<1> DEFINE whole(v) == \A k \in 0 .. ElementSize - 1 :
                          d[CellCount(slot) + k] = IF v = NULL THEN Zero ELSE <<v, k>>
<1>1. \A v \in Values \cup {NULL} : whole(v) <=> d[slot] = <<v, 0>>
  <2>1. 0 .. ElementSize - 1 = {0} /\ CellCount(slot) + 0 = slot
    BY OneCellEach DEF OneCell
  <2>2. \A v : whole(v) <=> d[slot] = IF v = NULL THEN Zero ELSE <<v, 0>>
    BY <2>1
  <2> QED BY <2>2 DEF Zero
<1>2. Found(d, slot) = IF \E v \in Values \cup {NULL} : whole(v)
                       THEN CHOOSE v \in Values \cup {NULL} : whole(v)
                       ELSE Torn
  BY DEF Found
<1> HIDE DEF whole
<1>3. ASSUME NEW v \in Values \cup {NULL}, d[slot] = <<v, 0>>
      PROVE  Found(d, slot) = v
  <2>1. whole(v)
    BY <1>1, <1>3
  <2>2. PICK u : u = CHOOSE w \in Values \cup {NULL} : whole(w)
    OBVIOUS
  <2>3. u \in Values \cup {NULL} /\ whole(u)
    BY <2>1, <2>2
  <2>4. <<u, 0>> = <<v, 0>>
    BY <1>1, <1>3, <2>3
  <2> QED BY <1>2, <2>1, <2>2, <2>4
<1>4. ASSUME \A v \in Values \cup {NULL} : d[slot] # <<v, 0>>
      PROVE  Found(d, slot) = Torn
  BY <1>1, <1>2, <1>4
<1> QED BY <1>3, <1>4

LEMMA SameFound ==
    ASSUME OneCell, NEW d, NEW slot \in Int, NEW e, NEW place \in Int, d[slot] = e[place]
    PROVE  Found(d, slot) = Found(e, place)
<1>1. CASE \E v \in Values \cup {NULL} : d[slot] = <<v, 0>>
  BY <1>1, FoundIn
<1>2. CASE \A v \in Values \cup {NULL} : d[slot] # <<v, 0>>
  BY <1>2, FoundIn
<1> QED BY <1>1, <1>2

\* The elements of a vector with these cells, head, length and capacity.
ElementsOf(d, h, n, c) == [i \in 1 .. n |-> Found(d, (h + (i - 1)) % c)]

LEMMA ElementsAre ==
    /\ Elements = ElementsOf(data, head, length, capacity)
    /\ Elements' = ElementsOf(data', head', length', capacity')
  BY DEF Elements, ElementsOf, Slot

Contents == Values \cup {NULL, Torn}

LEMMA FoundType ==
    ASSUME NEW d, NEW slot
    PROVE  Found(d, slot) \in Contents
<1> DEFINE whole(v) == \A k \in 0 .. ElementSize - 1 :
                          d[CellCount(slot) + k] = IF v = NULL THEN Zero ELSE <<v, k>>
<1>1. Found(d, slot) = IF \E v \in Values \cup {NULL} : whole(v)
                       THEN CHOOSE v \in Values \cup {NULL} : whole(v)
                       ELSE Torn
  BY DEF Found
<1> HIDE DEF whole
<1>2. ASSUME NEW v \in Values \cup {NULL}, whole(v)
      PROVE  Found(d, slot) \in Values \cup {NULL}
  BY <1>1, <1>2
<1> QED BY <1>1, <1>2 DEF Contents

LEMMA ElementsType ==
    ASSUME NEW d, NEW h, NEW n \in Nat, NEW c
    PROVE  /\ ElementsOf(d, h, n, c) \in Seq(Contents)
           /\ Len(ElementsOf(d, h, n, c)) = n
           /\ \A i \in 1 .. n : ElementsOf(d, h, n, c)[i] = Found(d, (h + (i - 1)) % c)
<1> DEFINE s == ElementsOf(d, h, n, c)
<1>1. s = [i \in 1 .. n |-> Found(d, (h + (i - 1)) % c)]
  BY DEF ElementsOf
<1>2. \A i \in 1 .. n : Found(d, (h + (i - 1)) % c) \in Contents
  BY FoundType
<1> HIDE DEF s
<1>3. DOMAIN s = 1 .. n /\ \A i \in 1 .. n : s[i] = Found(d, (h + (i - 1)) % c)
  BY <1>1
<1>4. s \in [1 .. n -> Contents]
  BY <1>1, <1>2
<1>5. s \in Seq(Contents) /\ Len(s) = n
  BY <1>3, <1>4
<1> QED BY <1>3, <1>5 DEF s

LEMMA NoElements ==
    ASSUME NEW d, NEW h, NEW c
    PROVE  ElementsOf(d, h, 0, c) = <<>>
<1> DEFINE s == ElementsOf(d, h, 0, c)
<1>1. s \in Seq(Contents) /\ Len(s) = 0
  BY ElementsType
<1> HIDE DEF s
<1>2. s = <<>>
  BY <1>1
<1> QED BY <1>2 DEF s

\* Two vectors whose slots hold the same cells stand for the same sequence.
LEMMA SameElements ==
    ASSUME OneCell, NEW n \in Nat,
           NEW d, NEW h \in Int, NEW c \in Nat \ {0},
           NEW e, NEW g \in Int, NEW b \in Nat \ {0},
           \A j \in 0 .. n - 1 : d[(h + j) % c] = e[(g + j) % b]
    PROVE  ElementsOf(d, h, n, c) = ElementsOf(e, g, n, b)
<1>1. ASSUME NEW i \in 1 .. n
      PROVE  Found(d, (h + (i - 1)) % c) = Found(e, (g + (i - 1)) % b)
  <2>1. PICK j \in 0 .. n - 1 : j = i - 1
    OBVIOUS
  <2>2. (h + j) % c \in Int /\ (g + j) % b \in Int
    BY <2>1, RemainderOf
  <2>3. Found(d, (h + j) % c) = Found(e, (g + j) % b)
    BY <2>2, SameFound
  <2> QED BY <2>1, <2>3
<1> QED BY <1>1 DEF ElementsOf

-----------------------------------------------------------------------------
(***************************************************************************)
(* What the calls do to the sequence.                                      *)
(***************************************************************************)

LEMMA VectorTypes ==
    ASSUME VectorInv, capacity > 0
    PROVE  /\ capacity \in Nat \ {0} /\ head \in 0 .. capacity - 1 /\ length \in 0 .. capacity
           /\ DOMAIN data = 0 .. CellCount(capacity) - 1
  BY DEF VectorInv, Cells

\* Where slot i of the vector is in a vector twice as large.
LEMMA GrownSlots ==
    ASSUME VectorInv, OneCell, capacity > 0, NEW i \in 0 .. length - 1
    PROVE  GrownData(2 * capacity)[(GrownHead + i) % (2 * capacity)] = data[Slot(i)]
<1> DEFINE size == 2 * capacity
           d == Reallocated(size)
           new == GrownData(size)
<1>1. /\ capacity \in Nat \ {0} /\ head \in 0 .. capacity - 1 /\ length \in 1 .. capacity
      /\ size \in Nat \ {0} /\ size = 2 * capacity
  BY VectorTypes
<1>2. \A a \in Int : CellCount(a) = a
  BY OneCellEach
<1>3. /\ DOMAIN d = 0 .. size - 1
      /\ \A c \in 0 .. capacity - 1 : d[c] = data[c]
  <2>1. DOMAIN data = 0 .. capacity - 1 /\ CellCount(size) = size
    BY <1>1, <1>2, VectorTypes
  <2> QED BY <1>1, <2>1 DEF Reallocated
<1>4. Slot(i) = IF head + i < capacity THEN head + i ELSE head + i - capacity
  BY <1>1, SlotInside
<1> HIDE DEF d
<1>5. CASE SecondMoves
  <2> DEFINE x == capacity + head + i
  <2>1. /\ Wrapped /\ GrownHead = capacity + head
        /\ new = [c \in DOMAIN d |-> IF c - (capacity + head) \in 0 .. (capacity - head) - 1
                                     THEN d[head + (c - (capacity + head))] ELSE d[c]]
    <3>1. capacity + head \in Int /\ head \in Int /\ capacity - head \in Int
      BY <1>1
    <3>2. /\ CellCount(capacity + head) = capacity + head /\ CellCount(head) = head
          /\ CellCount(capacity - head) = capacity - head
      BY <1>2, <3>1
    <3> QED BY <1>5, <3>2 DEF SecondMoves, GrownHead, GrownData, Moved, d
  <2>2. x \in 0 .. 2 * size - 1
    BY <1>1
  <2> HIDE DEF new, size
  <2>3. x % size = IF x < size THEN x ELSE x - size
    BY <1>1, <2>2, SmallRemainder
  <2>4. CASE head + i < capacity
    <3>1. /\ x < size /\ x \in 0 .. size - 1 /\ x - (capacity + head) \in 0 .. (capacity - head) - 1
          /\ head + (x - (capacity + head)) = head + i /\ head + i \in 0 .. capacity - 1
      BY <1>1, <2>4
    <3>2. new[x] = d[head + i]
      BY <1>3, <2>1, <3>1
    <3> QED BY <1>3, <1>4, <2>1, <2>3, <2>4, <3>1, <3>2 DEF new, size
  <2>5. CASE ~(head + i < capacity)
    <3> DEFINE y == head + i - capacity
    <3>1. /\ ~(x < size) /\ x - size = y /\ y \in 0 .. capacity - 1 /\ y \in 0 .. size - 1
          /\ y - (capacity + head) \notin 0 .. (capacity - head) - 1
      BY <1>1, <2>5
    <3>2. new[y] = d[y]
      BY <1>3, <2>1, <3>1
    <3>3. d[y] = data[y]
      BY <1>3, <3>1
    <3>4. x % size = y
      BY <2>3, <3>1
    <3> QED BY <1>4, <2>1, <2>5, <3>2, <3>3, <3>4 DEF new, size
  <2> QED BY <2>4, <2>5
<1>6. CASE ~SecondMoves
  <2> DEFINE x == head + i
  <2>1. GrownHead = head /\ x \in 0 .. size - 1 /\ x \in 0 .. 2 * size - 1 /\ x < size
    BY <1>1, <1>6 DEF GrownHead
  <2>2. x % size = x
    <3> HIDE DEF x, size
    <3>1. x % size = IF x < size THEN x ELSE x - size
      BY <1>1, <2>1, SmallRemainder
    <3> QED BY <2>1, <3>1
  <2>3. CASE Wrapped
    <3>1. (head + length) % capacity = head + length - capacity
      BY <2>3, FirstSection
    <3>2. new = [c \in DOMAIN d |-> IF c - capacity \in 0 .. (head + length - capacity) - 1
                                    THEN d[0 + (c - capacity)] ELSE d[c]]
      <4>1. capacity \in Int /\ head + length - capacity \in Int
        BY <1>1
      <4>2. /\ CellCount(capacity) = capacity
            /\ CellCount((head + length) % capacity) = head + length - capacity
        BY <1>2, <3>1, <4>1
      <4> QED BY <1>6, <2>3, <4>2 DEF GrownData, Moved, d
    <3> HIDE DEF new, size
    <3>3. CASE x < capacity
      <4>1. x - capacity \notin 0 .. (head + length - capacity) - 1 /\ x \in 0 .. capacity - 1
        BY <1>1, <3>3
      <4>2. new[x] = d[x] /\ d[x] = data[x]
        BY <1>3, <2>1, <3>2, <4>1
      <4> QED BY <1>4, <2>1, <2>2, <3>3, <4>2 DEF new, size
    <3>4. CASE ~(x < capacity)
      <4> DEFINE y == x - capacity
      <4>1. y \in 0 .. (head + length - capacity) - 1 /\ y \in 0 .. capacity - 1 /\ 0 + y = y
        BY <1>1, <3>4
      <4>2. new[x] = d[y] /\ d[y] = data[y]
        BY <1>3, <2>1, <3>2, <4>1
      <4>3. Slot(i) = y
        BY <1>1, <1>4, <3>4
      <4> HIDE DEF y
      <4>4. (GrownHead + i) % size = x
        BY <2>1, <2>2
      <4> QED BY <4>2, <4>3, <4>4 DEF new, size
    <3> QED BY <3>3, <3>4
  <2>4. CASE ~Wrapped
    <3>1. new = d
      BY <1>6, <2>4 DEF GrownData, d
    <3>2. x \in 0 .. capacity - 1 /\ x < capacity
      BY <1>1, <2>4 DEF Wrapped
    <3>3. d[x] = data[x]
      BY <1>3, <3>2
    <3> HIDE DEF new, size
    <3> QED BY <1>4, <2>1, <2>2, <3>1, <3>2, <3>3 DEF new, size
  <2> QED BY <2>3, <2>4
<1> QED BY <1>5, <1>6

\* A vector that doubles stands for the same sequence.
LEMMA GrownElements ==
    ASSUME VectorInv, OneCell, capacity > 0
    PROVE  /\ ElementsOf(GrownData(2 * capacity), GrownHead, length, 2 * capacity) = Elements
           /\ Cells(GrownData(2 * capacity), 2 * capacity)
           /\ GrownHead \in 0 .. 2 * capacity - 1
<1>1. /\ capacity \in Nat \ {0} /\ head \in 0 .. capacity - 1 /\ length \in Nat
      /\ 2 * capacity \in Nat \ {0} /\ 2 * capacity <= 2 * capacity
  BY VectorTypes
<1>2. Cells(GrownData(2 * capacity), 2 * capacity) /\ GrownHead \in 0 .. 2 * capacity - 1
  BY <1>1, GrownCells
<1>3. PICK size \in Nat \ {0} : size = 2 * capacity
  BY <1>1
<1>4. \A i \in 0 .. length - 1 : GrownData(size)[(GrownHead + i) % size] = data[(head + i) % capacity]
  BY <1>3, GrownSlots DEF Slot
<1>5. GrownHead \in Int /\ head \in Int
  BY <1>1, <1>2
<1>6. ElementsOf(GrownData(size), GrownHead, length, size) = ElementsOf(data, head, length, capacity)
  <2> DEFINE new == GrownData(size)
             g == GrownHead
  <2>1. /\ g \in Int /\ head \in Int /\ length \in Nat /\ capacity \in Nat \ {0}
        /\ \A i \in 0 .. length - 1 : new[(g + i) % size] = data[(head + i) % capacity]
    BY <1>1, <1>4, <1>5
  <2> HIDE DEF new, g
  <2>2. ElementsOf(new, g, length, size) = ElementsOf(data, head, length, capacity)
    BY ONLY <2>1, OneCell, size \in Nat \ {0}, SameElements, SMTT(30)
  <2> QED BY <2>2 DEF new, g
<1> QED BY <1>2, <1>3, <1>6, ElementsAre

\* An element written behind the last one is appended.
LEMMA StoredElements ==
    ASSUME OneCell, NEW c \in Nat \ {0}, NEW d, Cells(d, c), NEW h \in 0 .. c - 1,
           NEW n \in 0 .. c - 1, NEW v \in Values
    PROVE  ElementsOf(Stored(d, (h + n) % c, v), h, n + 1, c)
             = Append(ElementsOf(d, h, n, c), v)
<1> DEFINE new == Stored(d, (h + n) % c, v)
           at(i) == (h + i) % c
           s == ElementsOf(d, h, n, c)
           t == ElementsOf(new, h, n + 1, c)
<1>1. \A i \in 0 .. n : /\ at(i) \in 0 .. c - 1
                        /\ at(i) = IF h + i < c THEN h + i ELSE h + i - c
  <2> SUFFICES ASSUME NEW i \in 0 .. n
               PROVE  /\ at(i) \in 0 .. c - 1
                      /\ at(i) = IF h + i < c THEN h + i ELSE h + i - c
    OBVIOUS
  <2>1. PICK x \in 0 .. 2 * c - 1 : x = h + i
    OBVIOUS
  <2>2. x % c = IF x < c THEN x ELSE x - c
    BY SmallRemainder
  <2> QED BY <2>1, <2>2
<1>2. /\ DOMAIN d = 0 .. c - 1
      /\ \A x \in 0 .. c - 1 : new[x] = IF x = at(n) THEN <<v, 0>> ELSE d[x]
  <2>1. CellCount(c) = c /\ CellCount(at(n)) = at(n) /\ 0 .. ElementSize - 1 = {0}
        /\ at(n) \in Int
    <3>1. at(n) \in Int
      BY <1>1
    <3> HIDE DEF at
    <3> QED BY <3>1, OneCellEach DEF OneCell
  <2>2. DOMAIN d = 0 .. c - 1
    BY <2>1 DEF Cells
  <2> HIDE DEF at
  <2>3. new = [x \in 0 .. c - 1 |-> IF x - at(n) \in {0} THEN <<v, x - at(n)>> ELSE d[x]]
    BY <2>1, <2>2 DEF Stored, at
  <2>4. \A x \in 0 .. c - 1 : x - at(n) \in {0} <=> x = at(n)
    BY <2>1
  <2> HIDE DEF new
  <2>5. \A x \in 0 .. c - 1 : x = at(n) => x - at(n) = 0
    BY <2>1
  <2> QED BY <2>2, <2>3, <2>4, <2>5
<1>3. /\ s \in Seq(Contents) /\ Len(s) = n
      /\ \A i \in 1 .. n : s[i] = Found(d, at(i - 1))
  <2>1. n \in Nat
    OBVIOUS
  <2>2. s \in Seq(Contents) /\ Len(s) = n
    BY <2>1, ElementsType
  <2>3. \A i \in 1 .. n : s[i] = Found(d, (h + (i - 1)) % c)
    BY DEF ElementsOf
  <2> QED BY <2>2, <2>3
<1>4. /\ t \in Seq(Contents) /\ Len(t) = n + 1
      /\ \A i \in 1 .. n + 1 : t[i] = Found(new, at(i - 1))
  <2>1. n + 1 \in Nat
    OBVIOUS
  <2> HIDE DEF new
  <2>2. t \in Seq(Contents) /\ Len(t) = n + 1
    BY <2>1, ElementsType
  <2>3. \A i \in 1 .. n + 1 : t[i] = Found(new, (h + (i - 1)) % c)
    BY DEF ElementsOf
  <2> QED BY <2>2, <2>3
<1>5. ASSUME NEW i \in 1 .. n PROVE t[i] = s[i]
  <2>1. i - 1 \in 0 .. n /\ n \in 0 .. n
    OBVIOUS
  <2>2. /\ at(i - 1) \in 0 .. c - 1 /\ at(n) \in 0 .. c - 1
        /\ at(i - 1) = (IF h + (i - 1) < c THEN h + (i - 1) ELSE h + (i - 1) - c)
        /\ at(n) = (IF h + n < c THEN h + n ELSE h + n - c)
    BY <1>1, <2>1
  <2> HIDE DEF at, new, s, t
  <2>3. at(i - 1) # at(n)
    BY <2>2
  <2>4. new[at(i - 1)] = d[at(i - 1)]
    BY <1>2, <2>2, <2>3
  <2>5. Found(new, at(i - 1)) = Found(d, at(i - 1))
    BY <2>2, <2>4, SameFound
  <2>6. i \in 1 .. n + 1
    OBVIOUS
  <2> QED BY <1>3, <1>4, <2>5, <2>6
<1>6. t[n + 1] = v
  <2>1. n \in 0 .. n /\ n + 1 \in 1 .. n + 1 /\ (n + 1) - 1 = n
    OBVIOUS
  <2>2. at(n) \in 0 .. c - 1
    BY <1>1, <2>1
  <2> HIDE DEF at, new, s, t
  <2>3. new[at(n)] = <<v, 0>>
    BY <1>2, <2>2
  <2>4. Found(new, at(n)) = v
    BY <2>2, <2>3, FoundIn
  <2> QED BY <1>4, <2>1, <2>4
<1> HIDE DEF at, new, s, t
<1>7. v \in Contents
  BY DEF Contents
<1>8. /\ Append(s, v) \in Seq(Contents) /\ Len(Append(s, v)) = n + 1
      /\ \A i \in 1 .. n : Append(s, v)[i] = s[i]
      /\ Append(s, v)[n + 1] = v
  BY <1>3, <1>7
<1>9. \A i \in 1 .. n + 1 : t[i] = Append(s, v)[i]
  <2>1. \A i \in 1 .. n + 1 : i \in 1 .. n \/ i = n + 1
    OBVIOUS
  <2> QED BY <1>5, <1>6, <1>8, <2>1
<1>10. t = Append(s, v)
  BY <1>4, <1>8, <1>9, SeqEqual
<1> QED BY <1>10 DEF s, t, new, at

\* What a pop leaves is the tail, and what it gives out the head.
LEMMA PoppedElements ==
    ASSUME VectorInv, capacity > 0, length > 0
    PROVE  /\ ElementsOf(data, Slot(1), length - 1, capacity) = Tail(Elements)
           /\ Found(data, head) = Head(Elements)
<1> DEFINE s == ElementsOf(data, head, length, capacity)
           t == ElementsOf(data, Slot(1), length - 1, capacity)
<1>1. /\ capacity \in Nat \ {0} /\ head \in 0 .. capacity - 1 /\ length \in 1 .. capacity
      /\ length \in Nat /\ length - 1 \in Nat
  BY VectorTypes
<1>2. s \in Seq(Contents) /\ Len(s) = length
  BY <1>1, ElementsType
<1>3. t \in Seq(Contents) /\ Len(t) = length - 1
  BY <1>1, ElementsType
<1>4. \A i \in 1 .. length : s[i] = Found(data, Slot(i - 1))
  BY DEF ElementsOf, Slot
<1>5. \A i \in 1 .. length - 1 : t[i] = Found(data, (Slot(1) + (i - 1)) % capacity)
  BY DEF ElementsOf
<1>6. ASSUME NEW i \in 1 .. length - 1
      PROVE  (Slot(1) + (i - 1)) % capacity = Slot(i)
  <2>1. /\ Slot(1) \in 0 .. capacity - 1
        /\ Slot(1) = IF head + 1 < capacity THEN head + 1 ELSE head + 1 - capacity
    <3>1. 1 \in 0 .. capacity
      BY <1>1
    <3> QED BY <3>1, SlotInside
  <2>2. Slot(i) = IF head + i < capacity THEN head + i ELSE head + i - capacity
    <3>1. i \in 0 .. capacity
      BY <1>1
    <3> QED BY <3>1, SlotInside
  <2>3. PICK x \in 0 .. 2 * capacity - 1 : x = Slot(1) + (i - 1)
    BY <1>1, <2>1
  <2>4. x % capacity = IF x < capacity THEN x ELSE x - capacity
    BY <1>1, SmallRemainder
  <2>5. (IF x < capacity THEN x ELSE x - capacity)
          = IF head + i < capacity THEN head + i ELSE head + i - capacity
    BY <1>1, <2>1, <2>3
  <2> QED BY <2>2, <2>3, <2>4, <2>5
<1> HIDE DEF s, t
<1>7. /\ s # <<>> /\ Head(s) = s[1] /\ Tail(s) \in Seq(Contents) /\ Len(Tail(s)) = length - 1
      /\ \A i \in 1 .. length - 1 : Tail(s)[i] = s[i + 1]
  BY <1>1, <1>2
<1>8. \A i \in 1 .. length - 1 : t[i] = Tail(s)[i]
  <2> SUFFICES ASSUME NEW i \in 1 .. length - 1 PROVE t[i] = Tail(s)[i]
    OBVIOUS
  <2>1. i + 1 \in 1 .. length /\ (i + 1) - 1 = i
    BY <1>1
  <2>2. t[i] = Found(data, Slot(i))
    BY <1>5, <1>6
  <2>3. s[i + 1] = Found(data, Slot(i))
    BY <1>4, <2>1
  <2> QED BY <1>7, <2>2, <2>3
<1>9. t = Tail(s)
  BY <1>3, <1>7, <1>8, SeqEqual
<1>10. s[1] = Found(data, head)
  <2>1. 1 \in 1 .. length /\ 1 - 1 = 0 /\ 0 \in 0 .. capacity /\ head + 0 = head /\ head < capacity
    BY <1>1
  <2>2. Slot(0) = head
    BY <2>1, SlotInside
  <2> QED BY <1>4, <2>1, <2>2
<1> QED BY <1>7, <1>9, <1>10, ElementsAre DEF s, t

LEMMA MovedAt ==
    ASSUME NEW d, NEW to \in Int, NEW from \in Int, NEW n \in Int
    PROVE  /\ DOMAIN Moved(d, to, from, n) = DOMAIN d
           /\ \A c \in DOMAIN d : c \in Int =>
                /\ to <= c /\ c < to + n => Moved(d, to, from, n)[c] = d[from + (c - to)]
                /\ c < to \/ to + n <= c => Moved(d, to, from, n)[c] = d[c]
<1>1. \A c \in Int : c - to \in 0 .. n - 1 <=> (to <= c /\ c < to + n)
  OBVIOUS
<1> QED BY <1>1 DEF Moved

\* Whichever sections move, each slot gets the cell of its place or the next.
LEMMA ClosedSlots ==
    ASSUME VectorInv, OneCell, capacity > 0, NEW i \in 0 .. length - 1,
           NEW j \in 0 .. length - 2
    PROVE  Closed(i)[Slot(j)] = data[IF j < i THEN Slot(j) ELSE Slot(j + 1)]
<1>1. /\ capacity \in Nat \ {0} /\ head \in 0 .. capacity - 1 /\ length \in 1 .. capacity
      /\ capacity \in Int /\ head \in Int /\ length \in Int
  BY VectorTypes
<1>2. \A a \in Int : CellCount(a) = a
  BY OneCellEach
<1>3. DOMAIN data = 0 .. capacity - 1
  BY <1>1, <1>2, VectorTypes
<1>4. /\ Slot(i) \in 0 .. capacity - 1
      /\ Slot(j) \in 0 .. capacity - 1
      /\ Slot(j + 1) \in 0 .. capacity - 1
      /\ Slot(i) = (IF head + i < capacity THEN head + i ELSE head + i - capacity)
      /\ Slot(j) = (IF head + j < capacity THEN head + j ELSE head + j - capacity)
      /\ Slot(j + 1) = (IF head + j + 1 < capacity THEN head + j + 1 ELSE head + j + 1 - capacity)
  <2>1. i \in 0 .. capacity /\ j \in 0 .. capacity /\ j + 1 \in 0 .. capacity
        /\ head + (j + 1) = head + j + 1
    BY <1>1
  <2>2. /\ Slot(i) \in 0 .. capacity - 1
        /\ Slot(i) = (IF head + i < capacity THEN head + i ELSE head + i - capacity)
    BY <2>1, SlotInside
  <2>3. /\ Slot(j) \in 0 .. capacity - 1
        /\ Slot(j) = (IF head + j < capacity THEN head + j ELSE head + j - capacity)
    BY <2>1, SlotInside
  <2>4. PICK k \in 0 .. capacity : k = j + 1
    BY <2>1
  <2>5. /\ Slot(k) \in 0 .. capacity - 1
        /\ Slot(k) = (IF head + k < capacity THEN head + k ELSE head + k - capacity)
    BY SlotInside
  <2>6. head + k = head + j + 1
    BY <1>1, <2>4
  <2>7. Slot(j + 1) = Slot(k)
    BY <2>4, Zenon
  <2>8. Slot(j + 1) \in 0 .. capacity - 1
    BY <2>5, <2>7
  <2>9. Slot(j + 1) = (IF head + j + 1 < capacity THEN head + j + 1 ELSE head + j + 1 - capacity)
    <3>1. Slot(j + 1) = (IF head + k < capacity THEN head + k ELSE head + k - capacity)
      BY <2>5, <2>7
    <3>2. head + k < capacity <=> head + j + 1 < capacity
      BY <2>6
    <3>3. head + k - capacity = head + j + 1 - capacity
      BY <1>1, <2>4
    <3>4. CASE head + k < capacity
      <4>1. Slot(j + 1) = head + j + 1
        BY <2>6, <3>1, <3>4
      <4> QED BY <3>2, <3>4, <4>1
    <3>5. CASE ~(head + k < capacity)
      <4>1. Slot(j + 1) = head + j + 1 - capacity
        BY <3>1, <3>3, <3>5
      <4> QED BY <3>2, <3>5, <4>1
    <3> QED BY <3>4, <3>5
  <2> QED BY <2>2, <2>3, <2>8, <2>9
<1>5. PICK x \in 0 .. capacity - 1 : x = Slot(j)
  BY <1>4
<1>6. PICK y \in 0 .. capacity - 1 : y = Slot(j + 1)
  BY <1>4
<1>7. PICK z \in 0 .. capacity - 1 : z = Slot(i)
  BY <1>4
<1>8. /\ x = (IF head + j < capacity THEN head + j ELSE head + j - capacity)
      /\ y = (IF head + j + 1 < capacity THEN head + j + 1 ELSE head + j + 1 - capacity)
      /\ z = (IF head + i < capacity THEN head + i ELSE head + i - capacity)
  BY <1>4, <1>5, <1>6, <1>7
<1>9. SUFFICES Closed(i)[x] = data[IF j < i THEN x ELSE y]
  BY <1>5, <1>6
<1>10. CASE ~Wrapped
  <2>1. head + length <= capacity
    BY <1>1, <1>10 DEF Wrapped
  <2>2. Closed(i) = Moved(data, head + i, head + i + 1, length - i - 1)
    <3>1. CellCount(head + i) = head + i /\ CellCount(length - i - 1) = length - i - 1
      BY <1>1, <1>2
    <3> QED BY <1>10, <3>1 DEF Closed, ClosedUnwrapped, OneCell
  <2>3. /\ DOMAIN data = 0 .. capacity - 1
        /\ head + i \in Int /\ head + i + 1 \in Int /\ length - i - 1 \in Int
    BY <1>1, <1>3
  <2>6. /\ head + i <= x /\ x < (head + i) + (length - i - 1)
             => Closed(i)[x] = data[(head + i + 1) + (x - (head + i))]
        /\ x < head + i => Closed(i)[x] = data[x]
    <3>1. PICK p \in Int, q \in Int : p = head + i /\ q = length - i - 1
      BY <2>3
    <3>2. Closed(i) = Moved(data, p, p + 1, q) /\ p + 1 \in Int
      BY <2>2, <3>1
    <3>3. \A c \in DOMAIN data : c \in Int =>
            /\ p <= c /\ c < p + q => Closed(i)[c] = data[(p + 1) + (c - p)]
            /\ c < p \/ p + q <= c => Closed(i)[c] = data[c]
      BY <3>2, MovedAt
    <3>4. x \in DOMAIN data /\ x \in Int
      BY <1>3
    <3>5. /\ p <= x /\ x < p + q => Closed(i)[x] = data[(p + 1) + (x - p)]
          /\ x < p \/ p + q <= x => Closed(i)[x] = data[x]
      BY <3>3, <3>4
    <3> QED BY <3>1, <3>5
  <2>4. CASE j < i
    <3>1. x < head + i
      BY <1>1, <1>8, <2>1, <2>4
    <3> QED BY <2>4, <2>6, <3>1
  <2>5. CASE ~(j < i)
    <3>1. /\ head + i <= x /\ x < (head + i) + (length - i - 1)
          /\ (head + i + 1) + (x - (head + i)) = y
      BY <1>1, <1>8, <2>1, <2>5
    <3> QED BY <2>5, <2>6, <3>1
  <2> QED BY <2>4, <2>5
<1>11. ASSUME Wrapped
       PROVE  /\ head + length > capacity /\ head + length - capacity \in 1 .. head
              /\ InFirst = head + length - capacity /\ InSecond = capacity - head
  BY <1>1, <1>11, FirstSection DEF InFirst, InSecond, Wrapped
<1>12. CASE Wrapped /\ head + i >= capacity
  <2>1. /\ head + length > capacity /\ InFirst = head + length - capacity
    BY <1>11, <1>12
  <2>2. Closed(i) = Moved(data, z, z + 1, InFirst - z - 1)
    <3>1. CellCount(z) = z /\ CellCount(InFirst - z - 1) = InFirst - z - 1
      BY <1>1, <1>2, <2>1
    <3> QED BY <1>7, <1>12, <3>1 DEF Closed, ClosedFirst
  <2>3. z = head + i - capacity /\ InFirst - z - 1 \in Int
    BY <1>1, <1>8, <1>12, <2>1
  <2>6. /\ z <= x /\ x < z + (InFirst - z - 1) => Closed(i)[x] = data[(z + 1) + (x - z)]
        /\ x < z \/ z + (InFirst - z - 1) <= x => Closed(i)[x] = data[x]
    <3>1. z \in Int /\ z + 1 \in Int
      OBVIOUS
    <3>2. \A c \in DOMAIN data : c \in Int =>
            /\ z <= c /\ c < z + (InFirst - z - 1) => Closed(i)[c] = data[(z + 1) + (c - z)]
            /\ c < z \/ z + (InFirst - z - 1) <= c => Closed(i)[c] = data[c]
      BY <2>2, <2>3, <3>1, MovedAt
    <3>3. x \in DOMAIN data /\ x \in Int
      BY <1>3
    <3> QED BY <3>2, <3>3
  <2>4. CASE j < i
    <3>1. x < z \/ z + (InFirst - z - 1) <= x
      BY <1>1, <1>8, <2>1, <2>3, <2>4
    <3> QED BY <2>4, <2>6, <3>1
  <2>5. CASE ~(j < i)
    <3>1. /\ z <= x /\ x < z + (InFirst - z - 1)
          /\ (z + 1) + (x - z) = y
      BY <1>1, <1>8, <1>12, <2>1, <2>3, <2>5
    <3> QED BY <2>5, <2>6, <3>1
  <2> QED BY <2>4, <2>5
<1>13. CASE Wrapped /\ head + i < capacity
  <2> DEFINE second == Moved(data, head + i, head + i + 1, capacity - head - i - 1)
             bridge == Moved(second, capacity - 1, 0, 1)
  <2>1. /\ head + length > capacity /\ InFirst = head + length - capacity
        /\ InSecond = capacity - head
    BY <1>11, <1>13
  <2>2. Closed(i) = Moved(bridge, 0, 1, InFirst - 1)
    <3>1. /\ CellCount(head + i) = head + i
          /\ CellCount(InSecond - i - 1) = capacity - head - i - 1
          /\ CellCount(capacity - 1) = capacity - 1
          /\ CellCount(InFirst - 1) = InFirst - 1
      <4>1. /\ head + i \in Int /\ InSecond - i - 1 \in Int /\ capacity - 1 \in Int
            /\ InFirst - 1 \in Int /\ InSecond - i - 1 = capacity - head - i - 1
        BY <1>1, <2>1
      <4> QED BY <1>2, <4>1
    <3>2. ~(head + i >= capacity) /\ Wrapped
      BY <1>1, <1>13
    <3>3. Closed(i) = ClosedSecond(i)
      BY <3>2 DEF Closed
    <3> QED BY <3>1, <3>3 DEF ClosedSecond, OneCell
  <2> HIDE DEF second, bridge
  <2>3. /\ DOMAIN second = 0 .. capacity - 1
        /\ \A c \in 0 .. capacity - 1 :
             /\ c < head + i \/ c = capacity - 1 => second[c] = data[c]
             /\ head + i <= c /\ c < capacity - 1 => second[c] = data[c + 1]
    <3>1. /\ head + i \in Int /\ head + i + 1 \in Int /\ capacity - head - i - 1 \in Int
          /\ (head + i) + (capacity - head - i - 1) = capacity - 1
          /\ \A c \in 0 .. capacity - 1 : c \in Int /\ (head + i + 1) + (c - (head + i)) = c + 1
      BY <1>1
    <3>2. \A c \in 0 .. capacity - 1 : capacity - 1 <= c \/ c < capacity - 1
      BY <1>1
    <3>3. /\ DOMAIN second = DOMAIN data
          /\ \A c \in DOMAIN data : c \in Int =>
               /\ head + i <= c /\ c < capacity - 1 => second[c] = data[(head + i + 1) + (c - (head + i))]
               /\ c < head + i \/ capacity - 1 <= c => second[c] = data[c]
      BY <3>1, MovedAt DEF second
    <3> QED BY <1>1, <1>3, <3>1, <3>3
  <2>4. /\ DOMAIN bridge = 0 .. capacity - 1
        /\ \A c \in 0 .. capacity - 1 :
             /\ c < capacity - 1 => bridge[c] = second[c]
             /\ c = capacity - 1 => bridge[c] = second[0]
    <3>1. /\ capacity - 1 \in Int /\ 0 \in Int /\ 1 \in Int
          /\ \A c \in 0 .. capacity - 1 : c \in Int /\ c < (capacity - 1) + 1
          /\ 0 + ((capacity - 1) - (capacity - 1)) = 0
      BY <1>1
    <3>2. /\ DOMAIN bridge = DOMAIN second
          /\ \A c \in DOMAIN second : c \in Int =>
               /\ capacity - 1 <= c /\ c < (capacity - 1) + 1
                    => bridge[c] = second[0 + (c - (capacity - 1))]
               /\ c < capacity - 1 => bridge[c] = second[c]
      BY <3>1, MovedAt DEF bridge
    <3> QED BY <1>1, <2>3, <3>1, <3>2
  <2>5. \A c \in 0 .. capacity - 1 :
          /\ c < InFirst - 1 => Closed(i)[c] = bridge[c + 1]
          /\ InFirst - 1 <= c => Closed(i)[c] = bridge[c]
    <3>1. /\ InFirst - 1 \in Int /\ 0 \in Int /\ 1 \in Int /\ 0 + (InFirst - 1) = InFirst - 1
          /\ \A c \in 0 .. capacity - 1 : c \in Int /\ 0 <= c /\ 1 + (c - 0) = c + 1
      BY <1>1, <2>1
    <3>2. \A c \in DOMAIN bridge : c \in Int =>
            /\ 0 <= c /\ c < 0 + (InFirst - 1) => Closed(i)[c] = bridge[1 + (c - 0)]
            /\ c < 0 \/ 0 + (InFirst - 1) <= c => Closed(i)[c] = bridge[c]
      BY <2>2, <3>1, MovedAt
    <3> QED BY <2>4, <3>1, <3>2
  <2>6. head + length - capacity <= head /\ head < capacity /\ 0 <= head /\ i >= 0
    BY <1>1
  \* The slot is in the first section, behind the removed element.
  <2>7. CASE head + j >= capacity
    <3>1. /\ ~(j < i) /\ x = head + j - capacity /\ y = x + 1 /\ x < InFirst - 1
          /\ x + 1 < capacity - 1 \/ x + 1 = capacity - 1
          /\ x + 1 < head + i /\ x + 1 \in 0 .. capacity - 1
      BY <1>1, <1>8, <1>13, <2>1, <2>7
    <3>2. x + 1 < capacity - 1
      BY <1>1, <1>13, <3>1
    <3>3. Closed(i)[x] = bridge[x + 1]
      BY <2>5, <3>1
    <3>4. bridge[x + 1] = second[x + 1]
      BY <2>4, <3>1, <3>2
    <3>5. second[x + 1] = data[x + 1]
      BY <2>3, <3>1
    <3> QED BY <3>1, <3>3, <3>4, <3>5
  \* The last slot of the second section gets the first cell of the first.
  <2>8. CASE head + j = capacity - 1
    <3>1. ~(j < i) /\ x = capacity - 1 /\ y = 0 /\ InFirst - 1 <= x
          /\ 0 \in 0 .. capacity - 1
      BY <1>1, <1>8, <1>13, <2>1, <2>8
    <3>2. Closed(i)[x] = bridge[x] /\ bridge[x] = second[0]
      BY <2>4, <2>5, <3>1
    <3>3. 0 < head + i
      BY <1>1, <1>11, <1>13
    <3>4. second[0] = data[0]
      BY <2>3, <3>1, <3>3
    <3> QED BY <3>1, <3>2, <3>4
  <2>9. CASE head + j < capacity - 1
    <3>1. x = head + j /\ y = x + 1 /\ InFirst - 1 <= x /\ x < capacity - 1
      BY <1>1, <1>8, <1>13, <2>1, <2>6, <2>9
    <3>2. Closed(i)[x] = second[x]
      BY <2>4, <2>5, <3>1
    <3>3. CASE j < i
      <4>1. x < head + i
        BY <1>1, <3>1, <3>3
      <4> QED BY <2>3, <3>2, <3>3, <4>1
    <3>4. CASE ~(j < i)
      <4>1. head + i <= x
        BY <1>1, <3>1, <3>4
      <4> QED BY <2>3, <3>1, <3>2, <3>4, <4>1
    <3> QED BY <3>3, <3>4
  <2> QED BY <1>1, <2>7, <2>8, <2>9
<1> QED BY <1>1, <1>10, <1>12, <1>13

\* What a removal leaves is the sequence without the element.
LEMMA ClosedElements ==
    ASSUME VectorInv, OneCell, capacity > 0, NEW i \in 0 .. length - 1
    PROVE  ElementsOf(Closed(i), head, length - 1, capacity) = RemoveAt(Elements, i + 1)
<1> DEFINE s == ElementsOf(data, head, length, capacity)
           t == ElementsOf(Closed(i), head, length - 1, capacity)
<1>1. /\ capacity \in Nat \ {0} /\ head \in 0 .. capacity - 1 /\ length \in 1 .. capacity
      /\ length \in Nat /\ length - 1 \in Nat /\ i + 1 \in 1 .. length
  BY VectorTypes
<1>2. s \in Seq(Contents) /\ Len(s) = length
  BY <1>1, ElementsType
<1>3. t \in Seq(Contents) /\ Len(t) = length - 1
  BY <1>1, ElementsType
<1>4. \A k \in 1 .. length : s[k] = Found(data, Slot(k - 1))
  BY DEF ElementsOf, Slot
<1>5. \A k \in 1 .. length - 1 : t[k] = Found(Closed(i), Slot(k - 1))
  BY DEF ElementsOf, Slot
<1> HIDE DEF s, t
<1>6. /\ RemoveAt(s, i + 1) \in Seq(Contents) /\ Len(RemoveAt(s, i + 1)) = length - 1
      /\ \A k \in 1 .. length - 1 :
           RemoveAt(s, i + 1)[k] = IF k < i + 1 THEN s[k] ELSE s[k + 1]
  BY <1>1, <1>2, RemoveAtElements
<1>7. ASSUME NEW k \in 1 .. length - 1
      PROVE  t[k] = IF k < i + 1 THEN s[k] ELSE s[k + 1]
  <2>1. PICK j \in 0 .. length - 2 : j = k - 1
    BY <1>1
  <2>2. /\ j \in 0 .. capacity /\ k \in 0 .. capacity /\ k \in 1 .. length /\ k + 1 \in 1 .. length
        /\ (k + 1) - 1 = k /\ j + 1 = k /\ (k < i + 1 <=> j < i)
    BY <1>1, <2>1
  <2>3. Slot(j) \in Int /\ Slot(k) \in Int
    BY <1>1, <2>2, SlotInside
  <2>4. Closed(i)[Slot(j)] = data[IF j < i THEN Slot(j) ELSE Slot(k)]
    BY <2>2, ClosedSlots
  <2>5. t[k] = Found(Closed(i), Slot(j))
    BY <1>5, <2>1
  <2>6. CASE j < i
    <3>1. Found(Closed(i), Slot(j)) = Found(data, Slot(j))
      BY <2>3, <2>4, <2>6, SameFound
    <3> QED BY <1>4, <2>1, <2>2, <2>5, <2>6, <3>1
  <2>7. CASE ~(j < i)
    <3>1. Found(Closed(i), Slot(j)) = Found(data, Slot(k))
      BY <2>3, <2>4, <2>7, SameFound
    <3> QED BY <1>4, <2>2, <2>5, <2>7, <3>1
  <2> QED BY <2>6, <2>7
<1>8. \A k \in 1 .. length - 1 : t[k] = RemoveAt(s, i + 1)[k]
  BY <1>6, <1>7
<1>9. t = RemoveAt(s, i + 1)
  BY <1>3, <1>6, <1>8, SeqEqual
<1> QED BY <1>9, ElementsAre DEF s, t

-----------------------------------------------------------------------------
(***************************************************************************)
(* Every call is one of the sequence's.                                    *)
(***************************************************************************)

LEMMA SameRemoval ==
    ASSUME NEW s, NEW f
    PROVE  Abstract!RemoveAt(s, f) = RemoveAt(s, f)
  BY DEF Abstract!RemoveAt, RemoveAt

LEMMA RefusedToo ==
    ASSUME NEW status, Refuse(status)
    PROVE  Abstract!Refuse(status)
<1>1. Elements' = Elements
  BY ElementsAre DEF Refuse
<1> QED BY <1>1 DEF Refuse, Answer, Reply, Abstract!Refuse, Abstract!Answer, Abstract!Reply

LEMMA CreateRefines ==
    ASSUME VectorInv, NEW n \in Capacities, Create(n)
    PROVE  Abstract!SeqCreate
<1>1. n \in Nat \ {0} /\ Expandables \subseteq BOOLEAN
  BY VectorAssumption
<1>2. RoundUpPowOfTwo(n) \in Nat \ {0}
  BY <1>1, RoundedUp
<1>3. capacity = 0
  BY DEF Create
<1>4. CASE /\ capacity' = RoundUpPowOfTwo(n) /\ length' = 0
           /\ expandable' \in Expandables /\ Answer("SUCCESS", <<>>)
  <2>1. length = 0
    BY <1>3 DEF VectorInv
  <2>2. Elements = <<>> /\ Elements' = <<>>
    BY <1>4, <2>1, ElementsAre, NoElements
  <2>3. capacity' > 0 /\ expandable' \in BOOLEAN
    BY <1>1, <1>2, <1>4
  <2> QED BY <1>3, <1>4, <2>2, <2>3
          DEF Answer, Reply, Abstract!SeqCreate, Abstract!Answer, Abstract!Reply
<1>5. CASE Answer("NO_MEM", <<>>) /\ UNCHANGED <<data, head, length, capacity, expandable>>
  <2>1. Elements' = Elements
    BY <1>5, ElementsAre
  <2> QED BY <1>3, <1>5, <2>1 DEF Answer, Reply, Abstract!SeqCreate,
                                  Abstract!Refuse, Abstract!Answer, Abstract!Reply
<1> QED BY <1>4, <1>5 DEF Create

LEMMA ExpandRefines ==
    ASSUME VectorInv, OneCell, NEW f \in 0 .. 2, Expand(f * capacity)
    PROVE  Abstract!SeqExpand
<1>1. capacity > 0 /\ capacity \in Nat
  BY DEF Expand, VectorInv
<1>2. CASE Refuse("PARAM") \/ Refuse("NO_MEM")
  BY <1>1, <1>2, RefusedToo DEF Abstract!SeqExpand
<1>3. CASE /\ ~(capacity >= f * capacity)
           /\ data' = GrownData(f * capacity)
           /\ head' = GrownHead
           /\ capacity' = f * capacity
           /\ Answer("SUCCESS", <<>>)
           /\ UNCHANGED <<length, expandable>>
  <2>1. f = 2
    <3>1. f = 0 \/ f = 1 \/ f = 2
      OBVIOUS
    <3>2. 0 * capacity <= capacity /\ 1 * capacity <= capacity
      BY <1>1
    <3> QED BY <1>1, <1>3, <3>1, <3>2
  <2>2. /\ data' = GrownData(2 * capacity) /\ head' = GrownHead /\ length' = length
        /\ capacity' = 2 * capacity
    BY <1>3, <2>1
  <2>3. Elements' = Elements
    BY <1>1, <2>2, GrownElements, ElementsAre
  <2>4. capacity' > capacity
    BY <1>1, <2>2
  <2> QED BY <1>1, <1>3, <2>3, <2>4
          DEF Answer, Reply, Abstract!SeqExpand, Abstract!Answer, Abstract!Reply
<1> QED BY <1>2, <1>3 DEF Expand

LEMMA ElementsLength ==
    ASSUME VectorInv
    PROVE  Elements \in Seq(Contents) /\ Len(Elements) = length /\ length \in Nat
  BY ElementsType, ElementsAre DEF VectorInv

LEMMA PushRefines ==
    ASSUME VectorInv, OneCell, NEW v \in Values, Push(v)
    PROVE  Abstract!SeqPush(v)
<1>1. capacity > 0 /\ capacity \in Nat \ {0} /\ head \in 0 .. capacity - 1
      /\ length \in 0 .. capacity
  BY VectorTypes DEF Push
<1>2. Elements \in Seq(Contents) /\ Len(Elements) = length
  BY ElementsLength
<1>3. CASE /\ length = capacity
           /\ \/ expandable /\ Refuse("NO_MEM")
              \/ ~expandable /\ Refuse("NO_RSRC")
  BY <1>1, <1>2, <1>3, RefusedToo DEF Abstract!SeqPush
<1>4. CASE PushWithRoom(v)
  <2>1. /\ length \in 0 .. capacity - 1 /\ length' = length + 1 /\ length < capacity
        /\ data' = Stored(data, (head + length) % capacity, v)
        /\ UNCHANGED <<head, capacity, expandable>> /\ Answer("SUCCESS", <<>>)
    BY <1>1, <1>4 DEF PushWithRoom, Slot
  <2>2. Cells(data, capacity)
    BY DEF VectorInv
  <2>3. ElementsOf(Stored(data, (head + length) % capacity, v), head, length + 1, capacity)
          = Append(ElementsOf(data, head, length, capacity), v)
    BY <1>1, <2>1, <2>2, StoredElements
  <2>4. Elements' = Append(Elements, v)
    BY <2>1, <2>3, ElementsAre
  <2> QED BY <1>1, <1>2, <2>1, <2>4
          DEF Answer, Reply, Abstract!SeqPush, Abstract!Answer, Abstract!Reply
<1>5. CASE /\ length = capacity /\ expandable
           /\ data' = Stored(GrownData(2 * capacity), (GrownHead + length) % (2 * capacity), v)
           /\ head' = GrownHead
           /\ capacity' = 2 * capacity
           /\ length' = length + 1
           /\ Answer("SUCCESS", <<>>)
           /\ UNCHANGED expandable
  <2>1. PICK size \in Nat \ {0} : size = 2 * capacity
    BY <1>1
  <2>2. /\ ElementsOf(GrownData(size), GrownHead, length, size) = Elements
        /\ Cells(GrownData(size), size) /\ GrownHead \in 0 .. size - 1
    BY <1>1, <2>1, GrownElements
  <2>3. length \in 0 .. size - 1
    BY <1>1, <1>5, <2>1
  <2>4. ElementsOf(Stored(GrownData(size), (GrownHead + length) % size, v), GrownHead, length + 1, size)
          = Append(ElementsOf(GrownData(size), GrownHead, length, size), v)
    BY <2>2, <2>3, StoredElements
  <2>5. Elements' = Append(Elements, v)
    BY <1>5, <2>1, <2>2, <2>4, ElementsAre
  <2>6. capacity' > capacity /\ ~(length < capacity)
    BY <1>1, <1>5
  <2> QED BY <1>1, <1>2, <1>5, <2>5, <2>6
          DEF Answer, Reply, Abstract!SeqPush, Abstract!Answer, Abstract!Reply
<1>6. CASE PushAndGrow(v)
  <2>1. length = capacity /\ expandable
    BY <1>6 DEF PushAndGrow
  <2>2. CASE Refuse("NO_MEM")
    BY <1>3, <2>1, <2>2
  <2>3. CASE ~Refuse("NO_MEM")
    BY <1>5, <1>6, <2>3 DEF PushAndGrow
  <2> QED BY <2>2, <2>3
<1> QED BY <1>3, <1>4, <1>6 DEF Push

LEMMA PopRefines ==
    ASSUME VectorInv, Pop
    PROVE  Abstract!SeqPop
<1>1. capacity > 0 /\ length \in Nat
  BY DEF Pop, VectorInv
<1>2. Elements \in Seq(Contents) /\ Len(Elements) = length
  BY ElementsLength
<1>3. CASE length = 0 /\ Refuse("NO_RSRC")
  <2>1. Elements = <<>>
    BY <1>2, <1>3
  <2> QED BY <1>1, <1>3, <2>1, RefusedToo DEF Abstract!SeqPop
<1>4. CASE /\ ~(length = 0)
           /\ head' = Slot(1)
           /\ length' = length - 1
           /\ Answer("SUCCESS", <<Found(data, head)>>)
           /\ UNCHANGED <<data, capacity, expandable>>
  <2>1. Elements # <<>>
    BY <1>2, <1>4
  <2>2. length > 0
    BY <1>1, <1>4
  <2>3. Elements' = Tail(Elements) /\ Found(data, head) = Head(Elements)
    BY <1>1, <1>4, <2>2, PoppedElements, ElementsAre
  <2> QED BY <1>1, <1>4, <2>1, <2>3
          DEF Answer, Reply, Abstract!SeqPop, Abstract!Answer, Abstract!Reply
<1> QED BY <1>3, <1>4 DEF Pop

LEMMA AtRefines ==
    ASSUME VectorInv, NEW i \in Nat, At(i)
    PROVE  \E k \in 0 .. Len(Elements) + 1 : Abstract!SeqAt(k)
<1>1. /\ capacity > 0 /\ UNCHANGED <<data, head, length, capacity, expandable>>
      /\ Answer("SUCCESS", IF i > length THEN <<NULL>> ELSE <<Found(data, Slot(i))>>)
  BY DEF At
<1>2. Elements \in Seq(Contents) /\ Len(Elements) = length /\ length \in Nat
  BY ElementsLength
<1>3. Elements' = Elements
  BY <1>1, ElementsAre
<1>4. CASE i > length
  <2>1. length + 1 \in 0 .. length + 1 /\ length + 1 > length /\ ~(length + 1 < length)
    BY <1>2
  <2>2. Answer("SUCCESS", <<NULL>>)
    BY <1>1, <1>4
  <2>3. Abstract!SeqAt(length + 1)
    BY <1>1, <1>2, <1>3, <2>1, <2>2 DEF Answer, Reply, Abstract!SeqAt, Abstract!Answer, Abstract!Reply
  <2> QED BY <1>2, <2>1, <2>3
<1>5. CASE i = length
  <2>1. i \in 0 .. length + 1 /\ ~(i > length) /\ ~(i < length)
    BY <1>2, <1>5
  <2>2. Abstract!SeqAt(i)
    BY <1>1, <1>2, <1>3, <2>1 DEF Answer, Reply, Abstract!SeqAt
  <2> QED BY <1>2, <2>1, <2>2
<1>6. CASE i < length
  <2>1. i \in 0 .. length + 1 /\ ~(i > length) /\ i + 1 \in 1 .. length /\ (i + 1) - 1 = i
    BY <1>2, <1>6
  <2>2. Elements[i + 1] = Found(data, Slot(i))
    BY <2>1 DEF Elements
  <2>3. Answer("SUCCESS", <<Elements[i + 1]>>)
    BY <1>1, <2>1, <2>2
  <2>4. Abstract!SeqAt(i)
    BY <1>1, <1>2, <1>3, <1>6, <2>3 DEF Answer, Reply, Abstract!SeqAt, Abstract!Answer, Abstract!Reply
  <2> QED BY <1>2, <2>1, <2>4
<1> QED BY <1>2, <1>4, <1>5, <1>6

LEMMA RemoveRefines ==
    ASSUME VectorInv, OneCell, NEW i \in Nat, RemoveByIndex(i)
    PROVE  \E k \in 0 .. Len(Elements) : Abstract!SeqRemove(k)
<1>1. capacity > 0
  BY DEF RemoveByIndex
<1>2. Elements \in Seq(Contents) /\ Len(Elements) = length /\ length \in Nat
  BY ElementsLength
<1>3. CASE i >= length /\ Refuse("NO_RSRC")
  <2>1. length \in 0 .. length /\ length >= length
    BY <1>2
  <2>2. Abstract!SeqRemove(length)
    BY <1>1, <1>2, <1>3, <2>1, RefusedToo DEF Abstract!SeqRemove
  <2> QED BY <1>2, <2>1, <2>2
<1>4. CASE /\ ~(i >= length)
           /\ data' = Closed(i)
           /\ length' = length - 1
           /\ Answer("SUCCESS", IF FreeCb /\ ~DeepCopy THEN <<Found(data, Slot(i))>> ELSE <<>>)
           /\ UNCHANGED <<head, capacity, expandable>>
  <2>1. i \in 0 .. length - 1 /\ i \in 0 .. length /\ i + 1 \in 1 .. length /\ (i + 1) - 1 = i
    BY <1>2, <1>4
  <2>2. Elements[i + 1] = Found(data, Slot(i))
    BY <2>1 DEF Elements
  <2>3. ElementsOf(Closed(i), head, length - 1, capacity) = RemoveAt(Elements, i + 1)
    BY <1>1, <2>1, ClosedElements
  <2>4. Elements' = Abstract!RemoveAt(Elements, i + 1)
    BY <1>4, <2>3, ElementsAre, SameRemoval
  <2>5. Answer("SUCCESS", IF FreeCb /\ ~DeepCopy THEN <<Elements[i + 1]>> ELSE <<>>)
    BY <1>4, <2>2
  <2>6. Abstract!SeqRemove(i)
    BY <1>1, <1>2, <1>4, <2>4, <2>5
       DEF Answer, Reply, Abstract!SeqRemove, Abstract!Answer, Abstract!Reply
  <2> QED BY <1>2, <2>1, <2>6
<1> QED BY <1>3, <1>4 DEF RemoveByIndex

LEMMA RemoveByPointerRefines ==
    ASSUME VectorInv, OneCell, NEW p, RemoveByPointer(p)
    PROVE  \E k \in 0 .. Len(Elements) : Abstract!SeqRemove(k)
<1>1. CASE \E i \in 0 .. length - 1 : RemoveByIndex(i)
  <2>1. \A i \in 0 .. length - 1 : i \in Nat
    OBVIOUS
  <2> QED BY <1>1, <2>1, RemoveRefines
<1>2. CASE capacity > 0 /\ Refuse("NO_RSRC")
  <2>1. Elements \in Seq(Contents) /\ Len(Elements) = length /\ length \in Nat
    BY ElementsLength
  <2>2. length \in 0 .. length /\ length >= length
    BY <2>1
  <2>3. Abstract!SeqRemove(length)
    BY <1>2, <2>1, <2>2, RefusedToo DEF Abstract!SeqRemove
  <2> QED BY <2>1, <2>2, <2>3
<1> QED BY <1>1, <1>2 DEF RemoveByPointer

LEMMA ClearRefines ==
    ASSUME VectorInv, Clear
    PROVE  Abstract!SeqClear
<1>1. Elements' = <<>>
  BY ElementsAre, NoElements DEF Clear
<1> QED BY <1>1 DEF Clear, Answer, Reply, Abstract!SeqClear, Abstract!Answer, Abstract!Reply

LEMMA DestroyRefines ==
    ASSUME VectorInv, Destroy
    PROVE  Abstract!SeqDestroy
<1>1. Elements' = <<>>
  BY ElementsAre, NoElements DEF Destroy
<1> QED BY <1>1 DEF Destroy, Answer, Reply, Abstract!SeqDestroy, Abstract!Answer, Abstract!Reply

LEMMA InitRefines == Init => Abstract!SeqInit
<1> SUFFICES ASSUME Init PROVE Abstract!SeqInit
  OBVIOUS
<1>1. Elements = <<>>
  BY ElementsAre, NoElements DEF Init
<1> QED BY <1>1 DEF Init, Reply, Abstract!SeqInit, Abstract!Reply

LEMMA NextRefines ==
    ASSUME VectorInv, OneCell, Factors \subseteq 0 .. 2, Next
    PROVE  Abstract!SeqNext
<1>1. CASE \E n \in Capacities : Create(n)
  BY <1>1, CreateRefines DEF Abstract!SeqNext
<1>2. CASE \E f \in Factors : Expand(f * capacity)
  BY <1>2, ExpandRefines DEF Abstract!SeqNext
<1>3. CASE \E v \in Values : Push(v)
  BY <1>3, PushRefines DEF Abstract!SeqNext
<1>4. CASE Pop
  BY <1>4, PopRefines DEF Abstract!SeqNext
<1>5. CASE \E i \in 0 .. MaxLength + 1 : At(i)
  BY <1>5, AtRefines DEF Abstract!SeqNext
<1>6. CASE \E i \in 0 .. MaxLength : RemoveByIndex(i)
  BY <1>6, RemoveRefines DEF Abstract!SeqNext
<1>7. CASE \E p \in Pointers : RemoveByPointer(p)
  BY <1>7, RemoveByPointerRefines DEF Abstract!SeqNext
<1>8. CASE Clear
  BY <1>8, ClearRefines DEF Abstract!SeqNext
<1>9. CASE Destroy
  BY <1>9, DestroyRefines DEF Abstract!SeqNext
<1> QED BY <1>1, <1>2, <1>3, <1>4, <1>5, <1>6, <1>7, <1>8, <1>9 DEF Next

\* The vector is a sequence: whatever the head, the wrap, the growth and the
\* sections a removal moves, for any values, capacities and bounds, every call
\* of ds_vector answers as a sequence would.  It is so for elements of one
\* cell that users expand to no more than twice the room: both are needed, for
\* in ds_vector_expand a moved section goes behind the old end even when the
\* new one is further, and ds_vector_remove_by_index moves a section by one
\* cell whatever the size of an element.
THEOREM Refinement ==
    ASSUME ElementSize = 1, Factors \subseteq 0 .. 2
    PROVE  Spec => IsASequence
<1>1. OneCell
  BY DEF OneCell
<1>2. Init => VectorInv /\ Abstract!SeqInit
  BY InitHasType, InitRefines
<1>3. VectorInv /\ [Next]_vars => VectorInv'
  BY NextKeepsType, KeptVector DEF vars
<1>4. VectorInv /\ [Next]_vars => [Abstract!SeqNext]_(Abstract!seqVars)
  <2>1. ASSUME VectorInv, Next PROVE Abstract!SeqNext
    BY <1>1, <2>1, NextRefines
  <2>2. ASSUME UNCHANGED vars PROVE UNCHANGED (Abstract!seqVars)
    BY <2>2, ElementsAre DEF vars, Abstract!seqVars
  <2> QED BY <2>1, <2>2
<1> QED BY <1>2, <1>3, <1>4, PTL DEF Spec, IsASequence, Abstract!SeqSpec
=============================================================================
