------------------------------ MODULE DsVector ------------------------------
(***************************************************************************)
(* ds_vector (rte/src/data_structure/ds_vector.c): a circular buffer of    *)
(* elements that can grow.  Each call holds the vector's mutex from its    *)
(* first to its last access, so each is one action.                        *)
(*                                                                         *)
(* The memory is a row of cells, the unit in which the code moves a        *)
(* pointer: a pointer, or a byte when the vector holds deep copies.  An    *)
(* element is ElementSize cells long.                                      *)
(***************************************************************************)
EXTENDS Integers, Sequences, FiniteSets, PowersOfTwo

CONSTANTS
    Values,         \* what can be pushed
    NULL,           \* the null pointer; a cell of zeros; "no element"
    DeepCopy,       \* if_deep_copy
    Expandables,    \* what if_expand may be
    FreeCb,         \* is there a free_cb?
    ElementSize,    \* the cells of an element
    Capacities,     \* the capacities that users ask for
    Factors,        \* by which users expand a vector: powers of two, or 0
    MaxCapacity,    \* bound: memory is found for this many elements
    MaxLength       \* bound: users push no more than this

ASSUME VectorAssumption ==
    /\ DeepCopy => NULL \notin Values
    /\ DeepCopy \in BOOLEAN /\ Expandables \subseteq BOOLEAN /\ FreeCb \in BOOLEAN
    /\ ElementSize \in Nat \ {0}
    /\ ~DeepCopy => ElementSize = 1
    /\ Capacities \subseteq 1 .. MaxCapacity
    /\ \A f \in Factors : f \in Nat /\ (f = 0 \/ \E k \in 0 .. f : f = 2 ^ k)
    /\ MaxCapacity \in Nat \ {0}
    /\ MaxLength \in Nat

VARIABLES
    data,       \* vector->data, cell by cell
    head,       \* vector->head
    length,     \* vector->length
    capacity,   \* vector->capacity; 0: there is no vector
    expandable, \* vector->if_expand
    reply       \* what the last call returned, and the elements it gave out

vars == <<data, head, length, capacity, expandable, reply>>

Reply(status, given) == [status |-> status, given |-> given]
Answer(status, given) == reply' = Reply(status, given)
Refuse(status) ==
    /\ capacity > 0
    /\ Answer(status, <<>>)
    /\ UNCHANGED <<data, head, length, capacity, expandable>>

Garbage == <<"garbage", 0>>     \* what realloc finds in new memory
Zero    == <<NULL, 0>>          \* a cell that calloc or clear left
Torn    == "torn"               \* cells that are no element together
CellKinds == (Values \X (0 .. ElementSize - 1)) \cup {Zero, Garbage}

CellCount(elements) == elements * ElementSize

\* memmove: n cells from cell `from' on, to cell `to' on.
Moved(d, to, from, n) ==
    [c \in DOMAIN d |-> IF c - to \in 0 .. n - 1 THEN d[from + (c - to)] ELSE d[c]]

\* The element v written to a slot, and the element found in a slot.
Stored(d, slot, v) ==
    [c \in DOMAIN d |-> IF c - CellCount(slot) \in 0 .. ElementSize - 1
                        THEN <<v, c - CellCount(slot)>> ELSE d[c]]
Found(d, slot) ==
    LET whole(v) == \A k \in 0 .. ElementSize - 1 :
                        d[CellCount(slot) + k] = IF v = NULL THEN Zero ELSE <<v, k>>
    IN IF \E v \in Values \cup {NULL} : whole(v)
       THEN CHOOSE v \in Values \cup {NULL} : whole(v)
       ELSE Torn

\* `& (capacity - 1)': capacities are powers of two, as the factors are.
Slot(i)  == (head + i) % capacity
Wrapped  == head + length > capacity
Elements == [i \in 1 .. length |-> Found(data, Slot(i - 1))]

Init ==
    /\ data = <<>>
    /\ head = 0 /\ length = 0 /\ capacity = 0 /\ expandable = FALSE
    /\ reply = Reply("none", <<>>)

\* Both allocations succeed, or what was allocated is given back.
Create(wanted) ==
    /\ capacity = 0
    /\ \/ /\ capacity' = RoundUpPowOfTwo(wanted)
          /\ data' = [c \in 0 .. CellCount(capacity') - 1 |-> Zero]
          /\ head' = 0 /\ length' = 0
          /\ expandable' \in Expandables
          /\ Answer("SUCCESS", <<>>)
       \/ /\ Answer("NO_MEM", <<>>)
          /\ UNCHANGED <<data, head, length, capacity, expandable>>

-----------------------------------------------------------------------------
(***************************************************************************)
(* Growth.  Of a wrapped vector one section moves: the first, behind the   *)
(* old end, when the head is in the lower half; otherwise the second, by   *)
(* the old capacity.                                                       *)
(***************************************************************************)
Reallocated(size) ==
    [c \in 0 .. CellCount(size) - 1 |-> IF c \in DOMAIN data THEN data[c] ELSE Garbage]

SecondMoves == Wrapped /\ head >= capacity \div 2

\* A bug the checks look for: the head is forgotten when its section moves.
GrownHeadForgotten == head

GrownHead == IF SecondMoves THEN capacity + head ELSE head

GrownData(size) ==
    LET d == Reallocated(size) IN
    CASE SecondMoves -> Moved(d, CellCount(capacity + head), CellCount(head),
                              CellCount(capacity - head))
      [] Wrapped /\ ~SecondMoves -> Moved(d, CellCount(capacity), 0,
                                          CellCount((head + length) % capacity))
      [] OTHER -> d

\* ds_vector_expand called by a user.
Expand(size) ==
    /\ capacity > 0
    /\ IF capacity >= size
       THEN Refuse("PARAM")
       ELSE \/ /\ size <= MaxCapacity
               /\ data' = GrownData(size)
               /\ head' = GrownHead
               /\ capacity' = size
               /\ Answer("SUCCESS", <<>>)
               /\ UNCHANGED <<length, expandable>>
            \/ Refuse("NO_MEM")

-----------------------------------------------------------------------------
(***************************************************************************)
(* Push and pop.                                                           *)
(***************************************************************************)
\* A bug the checks look for: room for one too many.
PushOneTooMany(v) ==
    /\ length <= capacity
    /\ data' = Stored(data, Slot(length), v)
    /\ length' = length + 1
    /\ Answer("SUCCESS", <<>>)
    /\ UNCHANGED <<head, capacity, expandable>>

PushWithRoom(v) ==
    /\ length < capacity
    /\ data' = Stored(data, Slot(length), v)
    /\ length' = length + 1
    /\ Answer("SUCCESS", <<>>)
    /\ UNCHANGED <<head, capacity, expandable>>

\* A full vector that may grow doubles, and then there is room.
PushAndGrow(v) ==
    /\ length = capacity /\ expandable
    /\ \/ LET size == 2 * capacity IN
          /\ size <= MaxCapacity
          /\ data' = Stored(GrownData(size), (GrownHead + length) % size, v)
          /\ head' = GrownHead
          /\ capacity' = size
          /\ length' = length + 1
          /\ Answer("SUCCESS", <<>>)
          /\ UNCHANGED expandable
       \/ Refuse("NO_MEM")

Push(v) ==
    /\ capacity > 0 /\ length < MaxLength
    /\ \/ PushWithRoom(v)
       \/ PushAndGrow(v)
       \/ length = capacity /\ ~expandable /\ Refuse("NO_RSRC")

Pop ==
    /\ capacity > 0
    /\ IF length = 0
       THEN Refuse("NO_RSRC")
       ELSE /\ head' = Slot(1)
            /\ length' = length - 1
            /\ Answer("SUCCESS", <<Found(data, head)>>)
            /\ UNCHANGED <<data, capacity, expandable>>

\* The test lets i = length pass, the place behind the last element.
At(i) ==
    /\ capacity > 0
    /\ Answer("SUCCESS", IF i > length THEN <<NULL>> ELSE <<Found(data, Slot(i))>>)
    /\ UNCHANGED <<data, head, length, capacity, expandable>>

-----------------------------------------------------------------------------
(***************************************************************************)
(* Removal.  The elements behind the removed one move up by one place: in  *)
(* an unwrapped vector, in the first section, or in the second and then in *)
(* the first.                                                              *)
(***************************************************************************)
InFirst  == (head + length) % capacity  \* first_section_size
InSecond == capacity - head             \* second_section_size

ClosedUnwrapped(i) ==
    LET start == CellCount(head + i) IN
    Moved(data, start, start + ElementSize, CellCount(length - i - 1))

\* start_ptr + 1 is one cell further, whatever the size of an element.
ClosedFirst(i) ==
    LET start == CellCount(Slot(i)) IN
    Moved(data, start, start + 1, CellCount(InFirst - Slot(i) - 1))

ClosedSecond(i) ==
    LET start  == CellCount(head + i)
        second == Moved(data, start, start + ElementSize, CellCount(InSecond - i - 1))
        bridge == Moved(second, CellCount(capacity - 1), 0, ElementSize)
    IN Moved(bridge, 0, ElementSize, CellCount(InFirst - 1))

Closed(i) ==
    CASE ~Wrapped                            -> ClosedUnwrapped(i)
      [] Wrapped /\ head + i >= capacity     -> ClosedFirst(i)
      [] OTHER                               -> ClosedSecond(i)

\* free_cb gets the element, unless it is a deep copy.
RemoveByIndex(i) ==
    /\ capacity > 0
    /\ IF i >= length
       THEN Refuse("NO_RSRC")
       ELSE /\ data' = Closed(i)
            /\ length' = length - 1
            /\ Answer("SUCCESS", IF FreeCb /\ ~DeepCopy THEN <<Found(data, Slot(i))>> ELSE <<>>)
            /\ UNCHANGED <<head, capacity, expandable>>

\* What ds_vector_at returns for i: the pointer stored, or one to the slot.
PointerAt(i) == IF DeepCopy THEN Slot(i) ELSE Found(data, Slot(i))

RemoveByPointer(pointer) ==
    /\ capacity > 0
    /\ \/ \E i \in 0 .. length - 1 :
            /\ PointerAt(i) = pointer
            /\ \A j \in 0 .. i - 1 : PointerAt(j) # pointer
            /\ RemoveByIndex(i)
       \/ /\ \A i \in 0 .. length - 1 : PointerAt(i) # pointer
          /\ Refuse("NO_RSRC")

\* Clear writes zeros over the elements; free_cb is not called.
Clear ==
    /\ capacity > 0
    /\ data' = [c \in DOMAIN data |->
                    IF \E i \in 0 .. length - 1 : c \div ElementSize = Slot(i)
                    THEN Zero ELSE data[c]]
    /\ head' = 0 /\ length' = 0
    /\ Answer("SUCCESS", <<>>)
    /\ UNCHANGED <<capacity, expandable>>

Destroy ==
    /\ capacity > 0
    /\ Answer("SUCCESS", IF FreeCb THEN Elements ELSE <<>>)
    /\ data' = <<>>
    /\ head' = 0 /\ length' = 0 /\ capacity' = 0 /\ expandable' = FALSE

Pointers == IF DeepCopy THEN 0 .. MaxCapacity - 1 ELSE Values

Next ==
    \/ \E n \in Capacities : Create(n)
    \/ \E f \in Factors : Expand(f * capacity)
    \/ \E v \in Values : Push(v)
    \/ Pop
    \/ \E i \in 0 .. MaxLength + 1 : At(i)
    \/ \E i \in 0 .. MaxLength : RemoveByIndex(i)
    \/ \E p \in Pointers : RemoveByPointer(p)
    \/ Clear
    \/ Destroy

Spec == Init /\ [][Next]_vars

-----------------------------------------------------------------------------
(***************************************************************************)
(* Properties.                                                             *)
(***************************************************************************)

\* The indices stay inside the buffer, which has a cell for every element.
TypeOK ==
    /\ capacity \in Nat /\ expandable \in BOOLEAN
    /\ length \in 0 .. capacity
    /\ head \in 0 .. capacity /\ (capacity > 0 => head < capacity)
    /\ DOMAIN data = IF capacity = 0 THEN {} ELSE 0 .. CellCount(capacity) - 1
    /\ \A c \in DOMAIN data : data[c] \in CellKinds

\* The vector is a sequence: whatever the head, the wrap, the growth and the
\* cells moved by a removal, every call answers as a sequence would.
Abstract == INSTANCE BoundedSequence WITH
           seq <- Elements, grows <- expandable, room <- capacity,
           FreesRemoved <- FreeCb /\ ~DeepCopy, FreesDestroyed <- FreeCb
IsASequence == Abstract!SeqSpec
=============================================================================
