-------------------------- MODULE SugarPriorQueue --------------------------
(***************************************************************************)
(* The priority queue of TCBs that the Sugar kernel uses twice: as the     *)
(* ready queue (sugar_prior_vector.c) and as a semaphore's list of waiting *)
(* threads (sugar_prior_llist.c).  Both keep a red-black tree of FIFOs,    *)
(* one per priority, and a cached highest_priority that says which FIFO    *)
(* the next pop takes.  A smaller number is a higher priority.             *)
(*                                                                         *)
(* A queue is a record: `fifo' is the tree, from priorities to FIFOs, and  *)
(* `highest' the cached priority.  A priority that has no node in the tree *)
(* is an empty FIFO: every operation treats the two alike, and nodes are   *)
(* never taken out of the tree.                                            *)
(***************************************************************************)
EXTENDS Naturals, Sequences, FiniteSets, SequencesExt

CONSTANTS
    Threads,            \* the TCBs
    Prio,               \* the priority of each TCB: tcb->priority
    FifoCap,            \* SUGAR_TCB_FIFO_CAPABILITY: the capacity of a ready FIFO
    NULL                \* the null pointer

\* SUGAR_IDLE_THREAD_PRIORITY, the lowest one.
IdlePriority == 255

ASSUME QueueAssumption ==
    /\ IsFiniteSet(Threads)
    /\ Prio \in [Threads -> 0 .. IdlePriority]
    /\ FifoCap \in Nat \ {0}
    /\ NULL \notin Threads

Priorities == {Prio[t] : t \in Threads} \cup {IdlePriority}

PriorQueue == [fifo : [Priorities -> Seq(Threads)], highest : Priorities]

EmptyQueue == [fifo |-> [p \in Priorities |-> <<>>], highest |-> IdlePriority]

Queued(q, t) == \E p \in Priorities : Contains(q.fifo[p], t)
IsEmpty(q)   == \A p \in Priorities : q.fifo[p] = <<>>

-----------------------------------------------------------------------------

\* The walk over the tree: the highest priority that has a TCB, else idle's.
HighestOf(fifo) == Min({p \in Priorities : fifo[p] # <<>>} \cup {IdlePriority})

\* Mutant: the cache is not refreshed.
RefreshedNever(fifo, highest) == highest

\* The cache after a FIFO lost a TCB: kept, unless the FIFO it names ran empty.
Refreshed(fifo, highest) ==
    IF fifo[highest] = <<>> /\ highest # IdlePriority
    THEN HighestOf(fifo) ELSE highest

\* A FIFO of the ready queue is a vector that does not expand.
HasRoom(q, t) == Len(q.fifo[Prio[t]]) < FifoCap

\* The TCB goes to the tail of its priority's FIFO; only the first one of a
\* FIFO may change the cached priority.
Push(q, t) ==
    LET p == Prio[t] IN
    [fifo    |-> [q.fifo EXCEPT ![p] = Append(@, t)],
     highest |-> IF q.fifo[p] = <<>> /\ p <= q.highest THEN p ELSE q.highest]

\* A push whose error code the caller ignores.
PushIfRoom(q, t) == IF HasRoom(q, t) THEN Push(q, t) ELSE q

\* What pop_highest returns: it looks only where the cached priority points.
Foremost(q) ==
    IF q.fifo[q.highest] = <<>> THEN NULL ELSE Head(q.fifo[q.highest])

\* What pop_highest leaves.
Pop(q) ==
    IF q.fifo[q.highest] = <<>> THEN q
    ELSE LET rest == [q.fifo EXCEPT ![q.highest] = Tail(@)] IN
         [fifo |-> rest, highest |-> Refreshed(rest, q.highest)]

\* Mutant: remove leaves the cache alone.
TakeStale(q, t) ==
    [q EXCEPT !.fifo[Prio[t]] = RemoveFirst(@, t)]

\* remove: the first occurrence of the TCB leaves its FIFO.
Take(q, t) ==
    LET p    == Prio[t]
        rest == [q.fifo EXCEPT ![p] = RemoveFirst(@, t)] IN
    [fifo    |-> rest,
     highest |-> IF p = q.highest THEN Refreshed(rest, p) ELSE q.highest]

-----------------------------------------------------------------------------

\* The cache is right: it names the highest priority that has a TCB.
HighestIsRight(q) == q.highest = HighestOf(q.fifo)

\* A TCB is only ever in its own priority's FIFO, and at most once.
WellFiled(q) ==
    \A p \in Priorities : \A i, j \in DOMAIN q.fifo[p] :
        /\ Prio[q.fifo[p][i]] = p
        /\ q.fifo[p][i] = q.fifo[p][j] => i = j
=============================================================================
