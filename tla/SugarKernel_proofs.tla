------------------------- MODULE SugarKernel_proofs -------------------------
(***************************************************************************)
(* Theorems about the Sugar kernel, for every set of threads, priorities,  *)
(* semaphores and capacities: every variable keeps its type, the cached    *)
(* priorities are right, the scheduler always finds a thread to run, and   *)
(* who runs is never less urgent than a thread that is ready.              *)
(*                                                                         *)
(* They have one inductive invariant, CoreInv.  The scheduler's step is    *)
(* typed only if the queue it pops is not empty, which rests on the idle   *)
(* thread being there, on the cached priority leading pop to it, and on no *)
(* kernel service ever suspending it or finding it on a wait list or       *)
(* behind a timer.                                                         *)
(*                                                                         *)
(* First come the priority queues: what each of their operations returns   *)
(* and preserves, for every queue.  It returns a queue, keeps the cached   *)
(* priority right, and moves no TCB but the one it is about.               *)
(***************************************************************************)
EXTENDS SugarKernel, SequenceTheorems, WellFoundedInduction, TLAPS

-----------------------------------------------------------------------------
(* Priority queues. *)

\* Every TCB is in the FIFO of its own priority.
Filed(q) == \A p \in Priorities : \A i \in DOMAIN q.fifo[p] :
                Prio[q.fifo[p][i]] = p

\* The TCB is in no FIFO.
Absent(q, t) == \A p \in Priorities : \A i \in DOMAIN q.fifo[p] :
                    q.fifo[p][i] # t

\* Only idle's FIFO may be empty while the cached priority names it, and no
\* FIFO of a higher priority has a TCB: what HighestIsRight comes to.
NamesTheHighest(fifo, h) ==
    /\ fifo[h] # <<>> \/ h = IdlePriority
    /\ \A p \in Priorities : fifo[p] # <<>> => h <= p

-----------------------------------------------------------------------------
(* Minima and the cached priority. *)

\* A set of naturals that is not empty has a least element.
LEMMA LeastNatural ==
    ASSUME NEW S, S \subseteq Nat, S # {}
    PROVE  \E m \in S : \A n \in S : m <= n
<1> DEFINE R == OpToRel(<, Nat)
<1>1. IsWellFoundedOn(R, Nat)
  BY NatLessThanWellFounded
<1>2. PICK m \in S : \A n \in S : <<n, m>> \notin R
  BY <1>1, WFMin
<1> HIDE DEF R
<1>3. ASSUME NEW n \in S
      PROVE  m <= n
  <2>1. m \in Nat /\ n \in Nat
    OBVIOUS
  <2>2. ~(n < m)
    BY <1>2, <2>1 DEF R, OpToRel
  <2> QED BY <2>1, <2>2
<1> QED BY <1>3

\* Min of the community modules is that element.
LEMMA MinOfNaturals ==
    ASSUME NEW S, S \subseteq Nat, S # {}
    PROVE  Min(S) \in S /\ \A n \in S : Min(S) <= n
  BY LeastNatural DEF Min

LEMMA PrioritiesAreSmall ==
    /\ Priorities \subseteq 0 .. IdlePriority
    /\ IdlePriority \in Priorities
    /\ \A t \in Threads : Prio[t] \in Priorities
  BY QueueAssumption DEF Priorities, IdlePriority

LEMMA PrioritiesAreNumbers == Priorities \subseteq Nat /\ Priorities \subseteq Int
<1>1. 0 .. IdlePriority \subseteq Nat /\ 0 .. IdlePriority \subseteq Int
  BY DEF IdlePriority
<1> QED BY <1>1, PrioritiesAreSmall

\* HighestOf finds the only priority that the cache may name.
LEMMA HighestOfNames ==
    ASSUME NEW fifo
    PROVE  /\ HighestOf(fifo) \in Priorities
           /\ NamesTheHighest(fifo, HighestOf(fifo))
<1> DEFINE S == {p \in Priorities : fifo[p] # <<>>} \cup {IdlePriority}
<1>1. S \subseteq Priorities /\ S # {}
  BY PrioritiesAreSmall
<1>2. S \subseteq Nat
  BY <1>1, PrioritiesAreNumbers
<1>3. Min(S) \in S /\ \A n \in S : Min(S) <= n
  BY <1>1, <1>2, MinOfNaturals
<1> QED BY <1>1, <1>3 DEF HighestOf, NamesTheHighest

LEMMA HighestIsUnique ==
    ASSUME NEW fifo, NEW h \in Priorities, NEW k \in Priorities,
           NamesTheHighest(fifo, h), NamesTheHighest(fifo, k)
    PROVE  h = k
<1>1. h \in 0 .. 255 /\ k \in 0 .. 255
  BY PrioritiesAreSmall DEF IdlePriority
<1>2. h <= k
  BY <1>1 DEF NamesTheHighest, IdlePriority
<1>3. k <= h
  BY <1>1 DEF NamesTheHighest, IdlePriority
<1> QED BY <1>1, <1>2, <1>3

LEMMA CacheIsRight ==
    ASSUME NEW q, q.highest \in Priorities
    PROVE  HighestIsRight(q) <=> NamesTheHighest(q.fifo, q.highest)
  BY HighestOfNames, HighestIsUnique DEF HighestIsRight

-----------------------------------------------------------------------------
(* Taking one element out of a sequence. *)

LEMMA RemoveAtElements ==
    ASSUME NEW S, NEW s \in Seq(S), NEW k \in 1 .. Len(s)
    PROVE  /\ RemoveAt(s, k) \in Seq(S)
           /\ Len(RemoveAt(s, k)) = Len(s) - 1
           /\ \A i \in 1 .. Len(RemoveAt(s, k)) :
                 RemoveAt(s, k)[i] = IF i < k THEN s[i] ELSE s[i + 1]
<1> DEFINE a == SubSeq(s, 1, k - 1)
           b == SubSeq(s, k + 1, Len(s))
<1>1. Len(s) \in Nat
  BY LenProperties
<1>2. /\ a \in Seq(S) /\ Len(a) = k - 1
      /\ \A i \in 1 .. k - 1 : a[i] = s[i]
  BY <1>1, SubSeqProperties
<1>3. /\ b \in Seq(S) /\ Len(b) = Len(s) - k
      /\ \A i \in 1 .. Len(s) - k : b[i] = s[k + i]
  BY <1>1, SubSeqProperties
<1> HIDE DEF a, b
<1>4. /\ a \o b \in Seq(S)
      /\ Len(a \o b) = Len(s) - 1
      /\ \A i \in 1 .. Len(a \o b) : (a \o b)[i] = IF i < k THEN s[i] ELSE s[i + 1]
  <2>1. a \o b \in Seq(S) /\ Len(a \o b) = Len(a) + Len(b)
    BY <1>2, <1>3, ConcatProperties
  <2>2. \A i \in 1 .. Len(a) + Len(b) :
           (a \o b)[i] = IF i <= Len(a) THEN a[i] ELSE b[i - Len(a)]
    BY <1>2, <1>3, ConcatProperties
  <2>3. ASSUME NEW i \in 1 .. Len(a) + Len(b)
        PROVE  (a \o b)[i] = IF i < k THEN s[i] ELSE s[i + 1]
    <3>1. CASE i < k
      BY <1>1, <1>2, <1>3, <2>2, <3>1
    <3>2. CASE ~(i < k)
      <4>1. i - Len(a) \in 1 .. Len(s) - k /\ k + (i - Len(a)) = i + 1
        BY <1>1, <1>2, <1>3, <3>2
      <4>2. (a \o b)[i] = b[i - Len(a)]
        <5>1. Len(a) = k - 1 /\ k \in Int /\ i \in Int
          BY <1>1, <1>2
        <5>2. ~(i <= Len(a))
          BY ONLY <3>2, <5>1
        <5> QED BY ONLY <2>2, <5>2, i \in 1 .. Len(a) + Len(b)
      <4> QED BY <1>3, <3>2, <4>1, <4>2
    <3> QED BY <3>1, <3>2
  <2> QED BY <1>1, <1>2, <1>3, <2>1, <2>3
<1> QED BY <1>4 DEF RemoveAt, a, b

\* What is left was there before.
LEMMA RemoveFirstElements ==
    ASSUME NEW S, NEW s \in Seq(S), NEW e
    PROVE  /\ RemoveFirst(s, e) \in Seq(S)
           /\ s = <<>> => RemoveFirst(s, e) = <<>>
           /\ \A i \in DOMAIN RemoveFirst(s, e) :
                 \E j \in DOMAIN s : RemoveFirst(s, e)[i] = s[j]
<1>1. CASE \E i \in 1 .. Len(s) : s[i] = e
  <2> DEFINE I == {i \in 1 .. Len(s) : s[i] = e}
             k == Min(I)
  <2>0. I \subseteq Nat /\ I # {}
    BY <1>1
  <2>1. k \in 1 .. Len(s)
    <3> HIDE DEF I
    <3>1. k \in I
      BY <2>0, MinOfNaturals
    <3> QED BY <3>1 DEF I
  <2>2. RemoveFirst(s, e) = RemoveAt(s, k)
    BY <1>1 DEF RemoveFirst, SelectInSeq
  <2> HIDE DEF k
  <2>3. /\ RemoveAt(s, k) \in Seq(S)
        /\ Len(RemoveAt(s, k)) = Len(s) - 1
        /\ \A i \in 1 .. Len(RemoveAt(s, k)) :
              RemoveAt(s, k)[i] = IF i < k THEN s[i] ELSE s[i + 1]
    BY <2>1, RemoveAtElements
  <2>4. Len(s) \in Nat /\ DOMAIN s = 1 .. Len(s)
    BY LenProperties
  <2>5. DOMAIN RemoveAt(s, k) = 1 .. Len(s) - 1
    BY <2>3, LenProperties
  <2>6. ASSUME NEW i \in DOMAIN RemoveAt(s, k)
        PROVE  \E j \in DOMAIN s : RemoveAt(s, k)[i] = s[j]
    <3>1. i \in DOMAIN s /\ i + 1 \in DOMAIN s
      BY <2>4, <2>5
    <3> QED BY <2>3, <2>4, <2>5, <3>1
  <2>7. s # <<>>
    BY <1>1
  <2> QED BY <2>2, <2>3, <2>6, <2>7
<1>2. CASE ~ \E i \in 1 .. Len(s) : s[i] = e
  BY <1>2 DEF RemoveFirst
<1> QED BY <1>1, <1>2

-----------------------------------------------------------------------------
(* The operations. *)

LEMMA AppendElements ==
    ASSUME NEW S, NEW s \in Seq(S), NEW e \in S
    PROVE  /\ Append(s, e) \in Seq(S)
           /\ Append(s, e) # <<>>
           /\ \A i \in DOMAIN Append(s, e) :
                 \/ Append(s, e)[i] = e
                 \/ \E j \in DOMAIN s : Append(s, e)[i] = s[j]
<1>1. Len(s) \in Nat /\ DOMAIN s = 1 .. Len(s)
  BY LenProperties
<1>2. /\ Append(s, e) \in Seq(S)
      /\ Append(s, e) # <<>>
      /\ Len(Append(s, e)) = Len(s) + 1
      /\ \A i \in 1 .. Len(s) : Append(s, e)[i] = s[i]
      /\ Append(s, e)[Len(s) + 1] = e
  BY AppendProperties
<1>3. DOMAIN Append(s, e) = 1 .. Len(s) + 1
  BY <1>2, LenProperties
<1>4. ASSUME NEW i \in DOMAIN Append(s, e), Append(s, e)[i] # e
      PROVE  \E j \in DOMAIN s : Append(s, e)[i] = s[j]
  <2>1. i \in 1 .. Len(s)
    BY <1>1, <1>2, <1>3, <1>4
  <2> QED BY <1>1, <1>2, <2>1
<1> QED BY <1>2, <1>4

LEMMA TailElements ==
    ASSUME NEW S, NEW s \in Seq(S), s # <<>>
    PROVE  /\ Tail(s) \in Seq(S)
           /\ \A i \in DOMAIN Tail(s) : \E j \in DOMAIN s : Tail(s)[i] = s[j]
<1>1. /\ Tail(s) \in Seq(S)
      /\ Len(Tail(s)) = Len(s) - 1
      /\ \A i \in 1 .. Len(Tail(s)) : Tail(s)[i] = s[i + 1]
  BY HeadTailProperties
<1>2. /\ Len(s) \in Nat /\ DOMAIN s = 1 .. Len(s)
      /\ DOMAIN Tail(s) = 1 .. Len(Tail(s))
  BY <1>1, LenProperties
<1>3. ASSUME NEW i \in DOMAIN Tail(s)
      PROVE  \E j \in DOMAIN s : Tail(s)[i] = s[j]
  <2>1. i + 1 \in DOMAIN s
    BY <1>1, <1>2
  <2> QED BY <1>1, <1>2, <2>1
<1> QED BY <1>1, <1>3

LEMMA EmptyQueueIsRight ==
    /\ EmptyQueue \in PriorQueue
    /\ HighestIsRight(EmptyQueue)
    /\ Filed(EmptyQueue)
    /\ \A t : Absent(EmptyQueue, t)
<1>1. \A p \in Priorities : EmptyQueue.fifo[p] = <<>>
  BY DEF EmptyQueue
<1>2. EmptyQueue \in PriorQueue /\ EmptyQueue.highest = IdlePriority
  BY PrioritiesAreSmall DEF EmptyQueue, PriorQueue
<1>3. NamesTheHighest(EmptyQueue.fifo, EmptyQueue.highest)
  BY <1>1, <1>2 DEF NamesTheHighest
<1>4. HighestIsRight(EmptyQueue)
  BY <1>2, <1>3, CacheIsRight, PrioritiesAreSmall
<1> QED BY <1>1, <1>2, <1>4 DEF Filed, Absent

\* Push appends to one FIFO and keeps the cache right.
LEMMA PushProperties ==
    ASSUME NEW q \in PriorQueue, NEW t \in Threads
    PROVE  /\ Push(q, t) \in PriorQueue
           /\ Push(q, t).fifo[Prio[t]] = Append(q.fifo[Prio[t]], t)
           /\ \A p \in Priorities \ {Prio[t]} : Push(q, t).fifo[p] = q.fifo[p]
           /\ HighestIsRight(q) => HighestIsRight(Push(q, t))
           /\ Filed(q) => Filed(Push(q, t))
           /\ \A u \in Threads \ {t} : Absent(q, u) => Absent(Push(q, t), u)
<1> DEFINE p  == Prio[t]
           r  == Push(q, t)
<1>1. /\ p \in Priorities /\ q.fifo \in [Priorities -> Seq(Threads)]
      /\ q.highest \in Priorities
  BY PrioritiesAreSmall DEF PriorQueue
<1>2. /\ r.fifo = [q.fifo EXCEPT ![p] = Append(@, t)]
      /\ r.highest = IF q.fifo[p] = <<>> /\ p <= q.highest THEN p ELSE q.highest
      /\ r = [fifo |-> r.fifo, highest |-> r.highest]
  BY DEF Push
<1> HIDE DEF p, r
<1>3. /\ Append(q.fifo[p], t) \in Seq(Threads)
      /\ Append(q.fifo[p], t) # <<>>
      /\ \A i \in DOMAIN Append(q.fifo[p], t) :
            \/ Append(q.fifo[p], t)[i] = t
            \/ \E j \in DOMAIN q.fifo[p] : Append(q.fifo[p], t)[i] = q.fifo[p][j]
  BY <1>1, AppendElements
<1>4. r.fifo \in [Priorities -> Seq(Threads)] /\ r.highest \in Priorities
  BY <1>1, <1>2, <1>3
<1>5. r \in PriorQueue
  BY <1>2, <1>4 DEF PriorQueue
<1>6. /\ r.fifo[p] = Append(q.fifo[p], t)
      /\ \A x \in Priorities \ {p} : r.fifo[x] = q.fifo[x]
  BY <1>1, <1>2
<1>7. ASSUME HighestIsRight(q) PROVE HighestIsRight(r)
  <2>1. NamesTheHighest(q.fifo, q.highest)
    BY <1>1, <1>7, CacheIsRight
  <2>2. /\ p \in Int /\ q.highest \in Int
        /\ \A x \in Priorities : x \in Int
    BY <1>1, PrioritiesAreNumbers
  <2>3. NamesTheHighest(r.fifo, r.highest)
    <3>1. CASE q.fifo[p] = <<>> /\ p <= q.highest
      <4>1. r.highest = p
        BY <1>2, <3>1
      <4>2. ASSUME NEW x \in Priorities, r.fifo[x] # <<>> PROVE p <= x
        <5>1. CASE x = p
          BY <2>2, <5>1
        <5>2. CASE x # p
          <6>1. q.highest <= x
            BY <1>6, <2>1, <4>2, <5>2 DEF NamesTheHighest
          <6>2. x \in Int
            BY <2>2
          <6> QED BY <2>2, <3>1, <6>1, <6>2
        <5> QED BY <5>1, <5>2
      <4> QED BY <1>3, <1>6, <4>1, <4>2 DEF NamesTheHighest
    <3>2. CASE q.fifo[p] = <<>> /\ ~(p <= q.highest)
      <4>1. r.highest = q.highest /\ q.highest # p
        BY <1>2, <2>2, <3>2
      <4>2. r.fifo[q.highest] = q.fifo[q.highest]
        BY <1>1, <1>6, <4>1
      <4>3. ASSUME NEW x \in Priorities, r.fifo[x] # <<>> PROVE q.highest <= x
        <5>1. CASE x = p
          BY <2>2, <3>2, <5>1
        <5>2. CASE x # p
          BY <1>6, <2>1, <4>3, <5>2 DEF NamesTheHighest
        <5> QED BY <5>1, <5>2
      <4> QED BY <2>1, <4>1, <4>2, <4>3 DEF NamesTheHighest
    <3>3. CASE q.fifo[p] # <<>>
      <4>1. r.highest = q.highest
        BY <1>2, <3>3
      <4>2. \A x \in Priorities : r.fifo[x] # <<>> <=> q.fifo[x] # <<>>
        BY <1>3, <1>6, <3>3
      <4> QED BY <1>1, <2>1, <4>1, <4>2 DEF NamesTheHighest
    <3> QED BY <3>1, <3>2, <3>3
  <2> QED BY <1>4, <2>3, CacheIsRight
<1>8. ASSUME Filed(q) PROVE Filed(r)
  <2>1. ASSUME NEW x \in Priorities, NEW i \in DOMAIN r.fifo[x]
        PROVE  Prio[r.fifo[x][i]] = x
    <3>1. CASE x = p
      <4>1. CASE r.fifo[x][i] = t
        BY <3>1, <4>1 DEF p
      <4>2. CASE r.fifo[x][i] # t
        <5>1. PICK j \in DOMAIN q.fifo[p] : r.fifo[x][i] = q.fifo[p][j]
          BY <1>3, <1>6, <3>1, <4>2
        <5> QED BY <1>1, <1>8, <3>1, <5>1 DEF Filed
      <4> QED BY <4>1, <4>2
    <3>2. CASE x # p
      BY <1>6, <1>8, <3>2 DEF Filed
    <3> QED BY <3>1, <3>2
  <2> QED BY <2>1 DEF Filed
<1>9. ASSUME NEW u \in Threads \ {t}, Absent(q, u) PROVE Absent(r, u)
  <2>1. ASSUME NEW x \in Priorities, NEW i \in DOMAIN r.fifo[x]
        PROVE  r.fifo[x][i] # u
    <3>1. CASE x = p
      BY <1>1, <1>3, <1>6, <1>9, <3>1 DEF Absent
    <3>2. CASE x # p
      BY <1>6, <1>9, <3>2 DEF Absent
    <3> QED BY <3>1, <3>2
  <2> QED BY <2>1 DEF Absent
<1> QED BY <1>5, <1>6, <1>7, <1>8, <1>9 DEF p, r

\* When FIFOs have only lost TCBs, refreshing the cache makes it right again.
LEMMA RefreshedProperties ==
    ASSUME NEW fifo, NEW rest, NEW h \in Priorities,
           \A p \in Priorities : rest[p] # <<>> => fifo[p] # <<>>
    PROVE  /\ Refreshed(rest, h) \in Priorities
           /\ NamesTheHighest(fifo, h) => NamesTheHighest(rest, Refreshed(rest, h))
<1>1. CASE rest[h] = <<>> /\ h # IdlePriority
  BY <1>1, HighestOfNames DEF Refreshed
<1>2. CASE ~(rest[h] = <<>> /\ h # IdlePriority)
  BY <1>2 DEF Refreshed, NamesTheHighest
<1> QED BY <1>1, <1>2

\* A queue whose FIFOs hold nothing new.
LEMMA NothingNew ==
    ASSUME NEW q, NEW r,
           \A p \in Priorities : \A i \in DOMAIN r.fifo[p] :
              \E j \in DOMAIN q.fifo[p] : r.fifo[p][i] = q.fifo[p][j]
    PROVE  /\ Filed(q) => Filed(r)
           /\ \A t : Absent(q, t) => Absent(r, t)
  BY DEF Filed, Absent

\* pop_highest returns the head of the FIFO of the highest priority, if any
\* FIFO has a TCB, and takes away just that.
LEMMA PopProperties ==
    ASSUME NEW q \in PriorQueue
    PROVE  /\ Pop(q) \in PriorQueue
           /\ Foremost(q) \in Threads \cup {NULL}
           /\ Foremost(q) = NULL => Pop(q) = q
           /\ HighestIsRight(q) => HighestIsRight(Pop(q))
           /\ HighestIsRight(q) =>
                \A p \in Priorities : q.fifo[p] # <<>> => Foremost(q) # NULL
           /\ Filed(q) => Filed(Pop(q))
           /\ \A t : Absent(q, t) => Absent(Pop(q), t)
           /\ \A t \in Threads : Absent(q, t) => Foremost(q) # t
           /\ Filed(q) /\ Foremost(q) # NULL =>
                LET h == Prio[Foremost(q)] IN
                /\ q.fifo[h] # <<>> /\ Head(q.fifo[h]) = Foremost(q)
                /\ Pop(q).fifo[h] = Tail(q.fifo[h])
                /\ \A p \in Priorities \ {h} : Pop(q).fifo[p] = q.fifo[p]
<1> DEFINE h == q.highest
           f == q.fifo[h]
<1>1. /\ q.fifo \in [Priorities -> Seq(Threads)]
      /\ h \in Priorities /\ f \in Seq(Threads)
  BY DEF PriorQueue
<1>2. CASE f = <<>>
  <2>1. Foremost(q) = NULL /\ Pop(q) = q
    BY <1>2 DEF Foremost, Pop
  <2>2. ASSUME HighestIsRight(q), NEW p \in Priorities, q.fifo[p] # <<>>
        PROVE  FALSE
    <3>1. NamesTheHighest(q.fifo, h)
      BY <1>1, <2>2, CacheIsRight
    <3>2. h = IdlePriority /\ h <= p
      BY <1>2, <2>2, <3>1 DEF NamesTheHighest
    <3>3. p \in 0 .. 255
      BY PrioritiesAreSmall DEF IdlePriority
    <3>4. p = h
      BY <3>2, <3>3 DEF IdlePriority
    <3> QED BY <1>2, <2>2, <3>4
  <2> QED BY <2>1, <2>2, QueueAssumption
<1>3. CASE f # <<>>
  <2> DEFINE rest == [q.fifo EXCEPT ![h] = Tail(@)]
  <2>1. /\ Foremost(q) = Head(f) /\ Foremost(q) \in Threads
        /\ Foremost(q) # NULL /\ Foremost(q) = f[1] /\ 1 \in DOMAIN f
    <3>1. Head(f) \in Threads /\ Head(f) = f[1] /\ 1 \in DOMAIN f
      BY <1>1, <1>3
    <3> QED BY <1>3, <3>1, QueueAssumption DEF Foremost
  <2>2. /\ Pop(q) = [fifo |-> rest, highest |-> Refreshed(rest, h)]
        /\ Pop(q).fifo = rest /\ Pop(q).highest = Refreshed(rest, h)
    BY <1>3 DEF Pop
  <2>3. /\ rest[h] = Tail(f)
        /\ \A p \in Priorities \ {h} : rest[p] = q.fifo[p]
        /\ rest \in [Priorities -> Seq(Threads)]
    BY <1>1, <1>3, TailElements
  <2>4. \A p \in Priorities : rest[p] # <<>> => q.fifo[p] # <<>>
    BY <1>3, <2>3
  <2>5. \A p \in Priorities : \A i \in DOMAIN rest[p] :
           \E j \in DOMAIN q.fifo[p] : rest[p][i] = q.fifo[p][j]
    <3>1. \A i \in DOMAIN Tail(f) : \E j \in DOMAIN f : Tail(f)[i] = f[j]
      BY <1>1, <1>3, TailElements
    <3> QED BY <2>3, <3>1
  <2> HIDE DEF rest
  <2>6. /\ Refreshed(rest, h) \in Priorities
        /\ NamesTheHighest(q.fifo, h) => NamesTheHighest(rest, Refreshed(rest, h))
    BY <1>1, <2>4, RefreshedProperties
  <2>7. Pop(q) \in PriorQueue
    BY <2>2, <2>3, <2>6 DEF PriorQueue
  <2>8. HighestIsRight(q) => HighestIsRight(Pop(q))
    BY <1>1, <2>2, <2>6, CacheIsRight
  <2>9. /\ Filed(q) => Filed(Pop(q))
        /\ \A t : Absent(q, t) => Absent(Pop(q), t)
    <3>1. \A p \in Priorities : \A i \in DOMAIN Pop(q).fifo[p] :
             \E j \in DOMAIN q.fifo[p] : Pop(q).fifo[p][i] = q.fifo[p][j]
      BY <2>2, <2>5
    <3> HIDE DEF h, f
    <3> QED BY <3>1, NothingNew
  <2>10. \A t \in Threads : Absent(q, t) => Foremost(q) # t
    BY <1>1, <2>1 DEF Absent
  <2>11. ASSUME Filed(q) PROVE Prio[Foremost(q)] = h
    BY <1>1, <2>1, <2>11 DEF Filed
  <2> QED BY <1>3, <2>1, <2>2, <2>3, <2>7, <2>8, <2>9, <2>10, <2>11
<1> QED BY <1>2, <1>3

\* remove takes one TCB out and keeps the cache right.
LEMMA TakeProperties ==
    ASSUME NEW q \in PriorQueue, NEW t \in Threads
    PROVE  /\ Take(q, t) \in PriorQueue
           /\ HighestIsRight(q) => HighestIsRight(Take(q, t))
           /\ Filed(q) => Filed(Take(q, t))
           /\ \A u : Absent(q, u) => Absent(Take(q, t), u)
<1> DEFINE p == Prio[t]
           h == q.highest
           rest == [q.fifo EXCEPT ![p] = RemoveFirst(@, t)]
<1>1. /\ q.fifo \in [Priorities -> Seq(Threads)]
      /\ h \in Priorities /\ p \in Priorities /\ q.fifo[p] \in Seq(Threads)
  BY PrioritiesAreSmall DEF PriorQueue
<1>2. /\ RemoveFirst(q.fifo[p], t) \in Seq(Threads)
      /\ q.fifo[p] = <<>> => RemoveFirst(q.fifo[p], t) = <<>>
      /\ \A i \in DOMAIN RemoveFirst(q.fifo[p], t) : \E j \in DOMAIN q.fifo[p] :
            RemoveFirst(q.fifo[p], t)[i] = q.fifo[p][j]
  BY <1>1, RemoveFirstElements
<1>3. LET g == IF p = h THEN Refreshed(rest, p) ELSE h IN
      /\ Take(q, t) = [fifo |-> rest, highest |-> g]
      /\ Take(q, t).fifo = rest /\ Take(q, t).highest = g
  BY DEF Take
<1>4. /\ rest[p] = RemoveFirst(q.fifo[p], t)
      /\ \A x \in Priorities \ {p} : rest[x] = q.fifo[x]
      /\ rest \in [Priorities -> Seq(Threads)]
  BY <1>1, <1>2
<1> HIDE DEF rest, p
<1>5. \A x \in Priorities : rest[x] # <<>> => q.fifo[x] # <<>>
  BY <1>2, <1>4
<1>6. \A x \in Priorities : \A i \in DOMAIN rest[x] :
         \E j \in DOMAIN q.fifo[x] : rest[x][i] = q.fifo[x][j]
  BY <1>2, <1>4
<1>7. /\ Filed(q) => Filed(Take(q, t))
      /\ \A u : Absent(q, u) => Absent(Take(q, t), u)
  BY <1>3, <1>6, NothingNew
<1>8. /\ Refreshed(rest, h) \in Priorities
      /\ NamesTheHighest(q.fifo, h) => NamesTheHighest(rest, Refreshed(rest, h))
  BY <1>1, <1>5, RefreshedProperties
<1>9. Take(q, t) \in PriorQueue
  BY <1>1, <1>3, <1>4, <1>8 DEF PriorQueue
<1>10. ASSUME HighestIsRight(q) PROVE HighestIsRight(Take(q, t))
  <2>1. NamesTheHighest(q.fifo, h)
    BY <1>1, <1>10, CacheIsRight
  <2>2. CASE p = h
    BY <1>3, <1>8, <2>1, <2>2, CacheIsRight
  <2>3. CASE p # h
    <3>1. NamesTheHighest(rest, h)
      BY <1>1, <1>4, <1>5, <2>1, <2>3 DEF NamesTheHighest
    <3> QED BY <1>1, <1>3, <2>3, <3>1, CacheIsRight
  <2> QED BY <2>2, <2>3
<1> QED BY <1>7, <1>9, <1>10

\* Taking away leaves an empty queue empty.
LEMMA EmptyStaysEmpty ==
    ASSUME NEW q \in PriorQueue, IsEmpty(q)
    PROVE  /\ IsEmpty(Pop(q)) /\ \A t \in Threads : IsEmpty(Take(q, t))
           /\ Foremost(q) = NULL
<1>1. q.highest \in Priorities /\ \A p \in Priorities : q.fifo[p] = <<>>
  BY DEF PriorQueue, IsEmpty
<1>2. Foremost(q) = NULL /\ Pop(q) = q
  BY <1>1 DEF Foremost, Pop
<1>3. ASSUME NEW t \in Threads PROVE IsEmpty(Take(q, t))
  <2> DEFINE rest == [q.fifo EXCEPT ![Prio[t]] = RemoveFirst(@, t)]
  <2>1. RemoveFirst(<<>>, t) = <<>>
    BY DEF RemoveFirst
  <2>2. \A p \in Priorities : rest[p] = <<>>
    BY <1>1, <2>1, PrioritiesAreSmall DEF PriorQueue
  <2>3. Take(q, t).fifo = rest
    BY DEF Take
  <2> QED BY <2>2, <2>3 DEF IsEmpty
<1> QED BY <1>2, <1>3

-----------------------------------------------------------------------------
(* The kernel. *)

\* No application thread has the priority of the idle thread.  (With more
\* threads of that priority than a FIFO holds, idle could lose its place.)
IdleAlone == \A t \in Threads : Prio[t] = IdlePriority => t = Idle

-----------------------------------------------------------------------------
(* The inductive invariant. *)

RightReady(q)   == q \in PriorQueue /\ HighestIsRight(q) /\ Filed(q)
RightWaiting(q) == q \in PriorQueue /\ HighestIsRight(q) /\ Absent(q, Idle)

\* Idle is the current thread or alone in the FIFO of its priority.
IdleIsThere(cur, q) == q.fifo[IdlePriority] = IF cur = Idle THEN <<>> ELSE <<Idle>>

\* A timer never stands for idle, and one of a wait knows its semaphore.
RightTimer(v) == v.tcb # Idle /\ (v.kind = "sema" => v.sema \in Semas)

QueuesInv ==
    /\ RightReady(ready)
    /\ IdleIsThere(current, ready)
    /\ \A s \in Semas : RightWaiting(waiting[s])

CoreOwned ==
    /\ started => current \in Threads
    /\ ~started => current = NULL /\ tick.at = "off" /\ irq = "off"
    /\ state[Idle] \notin {"NONE", "SUSPEND"}

TimersInv ==
    /\ \A i \in DOMAIN timers : RightTimer(timers[i])
    /\ tick.at \in {"callback", "delete"} =>
         tick.timer \in TimerRecord /\ RightTimer(tick.timer)

CallsInv ==
    \A t \in Threads : call[t].at \in {"suspended", "woken", "destroying", "freeing"}
                          => call[t].sema \in Semas

CoreInv == TypeOK /\ QueuesInv /\ CoreOwned /\ TimersInv /\ CallsInv

-----------------------------------------------------------------------------
(* The queues, in terms of the invariant. *)

LEMMA IdleFacts == Idle \in Threads /\ Prio[Idle] = IdlePriority /\ NULL \notin Threads
  BY KernelAssumption, QueueAssumption

\* Making a thread ready, where there is room, does not touch idle.
LEMMA PushKeeps ==
    ASSUME IdleAlone, NEW q, RightReady(q), NEW t \in Threads \ {Idle}
    PROVE  /\ RightReady(Push(q, t)) /\ RightReady(PushIfRoom(q, t))
           /\ Push(q, t).fifo[IdlePriority] = q.fifo[IdlePriority]
           /\ PushIfRoom(q, t).fifo[IdlePriority] = q.fifo[IdlePriority]
<1>1. Prio[t] # IdlePriority /\ IdlePriority \in Priorities
  BY PrioritiesAreSmall DEF IdleAlone
<1>2. RightReady(Push(q, t)) /\ Push(q, t).fifo[IdlePriority] = q.fifo[IdlePriority]
  BY <1>1, PushProperties DEF RightReady
<1> QED BY <1>2 DEF PushIfRoom

\* Popping takes idle, or leaves it where it is.
LEMMA PopKeeps ==
    ASSUME IdleAlone, NEW q, RightReady(q), Foremost(q) # NULL
    PROVE  /\ RightReady(Pop(q)) /\ Foremost(q) \in Threads
           /\ Foremost(q) # Idle =>
                Pop(q).fifo[IdlePriority] = q.fifo[IdlePriority]
           /\ Foremost(q) = Idle =>
                /\ q.fifo[IdlePriority] # <<>>
                /\ Pop(q).fifo[IdlePriority] = Tail(q.fifo[IdlePriority])
<1>1. /\ RightReady(Pop(q)) /\ Foremost(q) \in Threads
  BY PopProperties DEF RightReady
<1>2. CASE Foremost(q) # Idle
  <2>1. Prio[Foremost(q)] # IdlePriority /\ IdlePriority \in Priorities
    BY <1>1, <1>2, PrioritiesAreSmall DEF IdleAlone
  <2> QED BY <1>1, <1>2, <2>1, PopProperties DEF RightReady
<1>3. CASE Foremost(q) = Idle
  BY <1>1, <1>3, IdleFacts, PopProperties DEF RightReady
<1> QED BY <1>1, <1>2, <1>3

\* A FIFO that is empty has room for idle.
LEMMA PushIdle ==
    ASSUME NEW q, RightReady(q), q.fifo[IdlePriority] = <<>>
    PROVE  /\ RightReady(PushIfRoom(q, Idle))
           /\ PushIfRoom(q, Idle).fifo[IdlePriority] = <<Idle>>
<1>1. HasRoom(q, Idle)
  BY IdleFacts, QueueAssumption DEF HasRoom
<1>2. /\ RightReady(Push(q, Idle))
      /\ Push(q, Idle).fifo[IdlePriority] = Append(<<>>, Idle)
  BY IdleFacts, PushProperties DEF RightReady
<1> QED BY <1>1, <1>2 DEF PushIfRoom

\* The scheduler gives the core to a thread, and idle is still there.
LEMMA SchedulerKeeps ==
    ASSUME IdleAlone, NEW b \in BOOLEAN, Scheduler(b),
           RightReady(ready), IdleIsThere(current, ready),
           current \in Threads,
           state \in [Threads -> {"NONE", "INVALID", "READY", "RUNNING", "SUSPEND"}],
           state[Idle] \notin {"NONE", "SUSPEND"}
    PROVE  /\ RightReady(ready') /\ IdleIsThere(current', ready')
           /\ current' \in Threads
           /\ state' \in [Threads -> {"NONE", "INVALID", "READY", "RUNNING", "SUSPEND"}]
           /\ state'[Idle] \notin {"NONE", "SUSPEND"}
<1> DEFINE f == Foremost(ready)
<1>1. ASSUME NEW new \in Threads, SwitchTo(new)
      PROVE  /\ current' = new
             /\ state' \in [Threads -> {"NONE", "INVALID", "READY", "RUNNING", "SUSPEND"}]
             /\ state'[Idle] \notin {"NONE", "SUSPEND"}
  BY <1>1, IdleFacts DEF SwitchTo
<1>2. ASSUME current # Idle PROVE f # NULL /\ ready.fifo[IdlePriority] = <<Idle>>
  <2>1. ready.fifo[IdlePriority] = <<Idle>>
    BY <1>2 DEF IdleIsThere
  <2> QED BY <2>1, PrioritiesAreSmall, PopProperties DEF RightReady
<1>3. CASE SwitchFromSuspended
  <2>1. current # Idle
    BY <1>3 DEF SwitchFromSuspended
  <2>2. f # NULL /\ ready.fifo[IdlePriority] = <<Idle>>
    BY <1>2, <2>1
  <2>3. /\ RightReady(Pop(ready)) /\ f \in Threads
        /\ f # Idle => Pop(ready).fifo[IdlePriority] = <<Idle>>
        /\ f = Idle => Pop(ready).fifo[IdlePriority] = Tail(<<Idle>>)
    BY <2>2, PopKeeps
  <2>4. ready' = Pop(ready) /\ SwitchTo(f)
    BY <1>3 DEF SwitchFromSuspended
  <2>5. Tail(<<Idle>>) = <<>>
    OBVIOUS
  <2> QED BY <1>1, <2>3, <2>4, <2>5 DEF IdleIsThere
<1>4. CASE Preempt(b)
  <2>1. /\ f # NULL /\ f # current /\ SwitchTo(f)
        /\ ready' = PushIfRoom(Pop(ready), current)
        /\ Prio[f] <= Prio[current]
    <3>1. f \in Threads => Prio[f] \in Int /\ Prio[current] \in Int
      BY PrioritiesAreSmall, PrioritiesAreNumbers
    <3>2. f # NULL => f \in Threads
      BY PopKeeps
    <3> QED BY <1>4, <3>1, <3>2 DEF Preempt, Preempts
  <2>2. /\ RightReady(Pop(ready)) /\ f \in Threads
        /\ f # Idle => Pop(ready).fifo[IdlePriority] = ready.fifo[IdlePriority]
    BY <2>1, PopKeeps
  <2>3. f # Idle
    <3>1. ASSUME f = Idle PROVE FALSE
      <4>1. IdlePriority <= Prio[current] /\ Prio[current] \in 0 .. IdlePriority
        BY <2>1, <3>1, IdleFacts, QueueAssumption
      <4>2. Prio[current] = IdlePriority
        BY <4>1 DEF IdlePriority
      <4> QED BY <2>1, <3>1, <4>2 DEF IdleAlone
    <3> QED BY <3>1
  <2>4. CASE current = Idle
    <3>1. ready.fifo[IdlePriority] = <<>>
      BY <2>4 DEF IdleIsThere
    <3>2. /\ RightReady(ready') /\ ready'.fifo[IdlePriority] = <<Idle>>
      BY <2>1, <2>2, <2>3, <2>4, <3>1, PushIdle
    <3> QED BY <1>1, <2>1, <2>2, <2>3, <3>2 DEF IdleIsThere
  <2>5. CASE current # Idle
    <3>1. /\ RightReady(ready') /\ ready'.fifo[IdlePriority] = <<Idle>>
      BY <1>2, <2>1, <2>2, <2>3, <2>5, PushKeeps
    <3> QED BY <1>1, <2>1, <2>2, <2>3, <3>1 DEF IdleIsThere
  <2> QED BY <2>4, <2>5
<1>5. CASE KeepCurrent(b)
  <2>1. current' = current /\ state' = state
    BY <1>5 DEF KeepCurrent
  <2>2. CASE f = NULL
    BY <1>5, <2>1, <2>2 DEF KeepCurrent
  <2>3. CASE f # NULL
    <3>1. ready' = PushIfRoom(Pop(ready), f)
      BY <1>5, <2>3 DEF KeepCurrent
    <3>2. /\ RightReady(Pop(ready)) /\ f \in Threads
          /\ f # Idle => Pop(ready).fifo[IdlePriority] = ready.fifo[IdlePriority]
          /\ f = Idle => /\ ready.fifo[IdlePriority] # <<>>
                         /\ Pop(ready).fifo[IdlePriority] = Tail(ready.fifo[IdlePriority])
      BY <2>3, PopKeeps
    <3>3. RightReady(ready') /\ ready'.fifo[IdlePriority] = ready.fifo[IdlePriority]
      <4>1. CASE f # Idle
        BY <3>1, <3>2, <4>1, PushKeeps
      <4>2. CASE f = Idle
        <5>1. ready.fifo[IdlePriority] = <<Idle>> /\ Tail(<<Idle>>) = <<>>
          BY <3>2, <4>2 DEF IdleIsThere
        <5> QED BY <3>1, <3>2, <4>2, <5>1, PushIdle
      <4> QED BY <4>1, <4>2
    <3> QED BY <2>1, <3>3 DEF IdleIsThere
  <2> QED BY <2>2, <2>3
<1> QED BY <1>3, <1>4, <1>5 DEF Scheduler

-----------------------------------------------------------------------------
(* The timers, in terms of the invariant. *)

RightTimers(ts) == ts \in Seq(TimerRecord) /\ \A i \in DOMAIN ts : RightTimer(ts[i])

LEMMA WithoutKeeps ==
    ASSUME RightTimers(timers), NEW id
    PROVE  RightTimers(Without(id))
<1> DEFINE I == {i \in 1 .. Len(timers) : timers[i].id = id}
           k == Min(I)
<1>1. Len(timers) \in Nat /\ DOMAIN timers = 1 .. Len(timers)
  BY LenProperties DEF RightTimers
<1>2. CASE \E i \in 1 .. Len(timers) : timers[i].id = id
  <2>1. I \subseteq Nat /\ I # {}
    BY <1>2
  <2>2. k \in 1 .. Len(timers)
    <3> HIDE DEF I
    <3>1. k \in I
      BY <2>1, MinOfNaturals
    <3> QED BY <3>1 DEF I
  <2>3. Without(id) = RemoveAt(timers, k)
    BY <1>2 DEF Without, RemoveFirstMatch, SelectInSeq
  <2> HIDE DEF k
  <2>4. /\ RemoveAt(timers, k) \in Seq(TimerRecord)
        /\ Len(RemoveAt(timers, k)) = Len(timers) - 1
        /\ \A i \in 1 .. Len(RemoveAt(timers, k)) :
              RemoveAt(timers, k)[i] = IF i < k THEN timers[i] ELSE timers[i + 1]
    BY <2>2, RemoveAtElements DEF RightTimers
  <2>5. DOMAIN RemoveAt(timers, k) = 1 .. Len(timers) - 1
    BY <2>4, LenProperties
  <2>6. ASSUME NEW i \in 1 .. Len(timers) - 1
        PROVE  RightTimer(RemoveAt(timers, k)[i])
    <3>1. i \in DOMAIN timers /\ i + 1 \in DOMAIN timers
      BY <1>1
    <3> QED BY <2>4, <3>1 DEF RightTimers
  <2> QED BY <2>3, <2>4, <2>5, <2>6 DEF RightTimers
<1>3. CASE ~ \E i \in 1 .. Len(timers) : timers[i].id = id
  BY <1>3 DEF Without, RemoveFirstMatch
<1> QED BY <1>2, <1>3

LEMMA NewTimerKeeps ==
    ASSUME RightTimers(timers), timerOf \in [Threads -> Blocks \cup {NULL}],
           NEW t \in Threads \ {Idle}, NEW kind \in {"delay", "sema"},
           NEW s \in Semas \cup {NULL}, kind = "sema" => s \in Semas,
           NEW n \in 1 .. MaxTicks, NewTimer(t, kind, s, n)
    PROVE  /\ RightTimers(timers')
           /\ timerOf' \in [Threads -> Blocks \cup {NULL}]
<1>1. PICK b \in Blocks :
        /\ timers' = Append(timers, [id |-> b, kind |-> kind, tcb |-> t,
                                     sema |-> s, cnt |-> n])
        /\ timerOf' = [timerOf EXCEPT ![t] = b]
  BY DEF NewTimer
<1> DEFINE v == [id |-> b, kind |-> kind, tcb |-> t, sema |-> s, cnt |-> n]
<1>2. v \in TimerRecord
  BY KernelAssumption DEF TimerRecord
<1>3. RightTimer(v)
  BY DEF RightTimer
<1> HIDE DEF v
<1>4. /\ Append(timers, v) \in Seq(TimerRecord)
      /\ \A i \in DOMAIN Append(timers, v) :
            \/ Append(timers, v)[i] = v
            \/ \E j \in DOMAIN timers : Append(timers, v)[i] = timers[j]
  BY <1>2, AppendElements DEF RightTimers
<1>5. RightTimers(Append(timers, v))
  BY <1>3, <1>4 DEF RightTimers
<1> QED BY <1>1, <1>5 DEF v

\* Counting down keeps every timer what it is.
LEMMA CountDownKeeps ==
    ASSUME RightTimers(timers), TickCount
    PROVE  RightTimers(timers')
<1>1. Len(timers) \in Nat /\ DOMAIN timers = 1 .. Len(timers)
  BY LenProperties DEF RightTimers
<1>0. PICK last : timers' = [i \in DOMAIN timers |->
                  IF i \in tick.idx .. last /\ timers[i].cnt # 0
                  THEN [timers[i] EXCEPT !.cnt = @ - 1] ELSE timers[i]]
  BY DEF TickCount
<1> DEFINE e(i) == IF i \in tick.idx .. last /\ timers[i].cnt # 0
                   THEN [timers[i] EXCEPT !.cnt = @ - 1] ELSE timers[i]
<1>2. ASSUME NEW i \in 1 .. Len(timers)
      PROVE  e(i) \in TimerRecord /\ RightTimer(e(i))
  <2>1. timers[i] \in TimerRecord /\ RightTimer(timers[i])
    BY <1>1 DEF RightTimers
  <2>2. timers[i].cnt \in 0 .. MaxTicks /\ MaxTicks \in Nat
    BY <2>1, KernelAssumption DEF TimerRecord
  <2>3. timers[i].cnt # 0 => timers[i].cnt - 1 \in 0 .. MaxTicks
    BY <2>2
  <2> QED BY <2>1, <2>3 DEF TimerRecord, RightTimer
<1>3. timers' = [i \in 1 .. Len(timers) |-> e(i)]
  BY <1>0, <1>1
<1> HIDE DEF e
<1>4. timers' \in Seq(TimerRecord)
  BY <1>1, <1>2, <1>3, IsASeq
<1> QED BY <1>2, <1>3, <1>4 DEF RightTimers

-----------------------------------------------------------------------------
(* Wait lists. *)

LEMMA WaitingKeeps ==
    ASSUME NEW q, RightWaiting(q)
    PROVE  /\ RightWaiting(Pop(q))
           /\ \A t \in Threads : RightWaiting(Take(q, t))
           /\ \A t \in Threads \ {Idle} : RightWaiting(Push(q, t))
           /\ Foremost(q) # NULL => Foremost(q) \in Threads \ {Idle}
<1>1. RightWaiting(Pop(q)) /\ \A t \in Threads : RightWaiting(Take(q, t))
  BY PopProperties, TakeProperties DEF RightWaiting
<1>2. \A t \in Threads \ {Idle} : RightWaiting(Push(q, t))
  BY IdleFacts, PushProperties DEF RightWaiting
<1>3. Foremost(q) # NULL => Foremost(q) \in Threads \ {Idle}
  BY IdleFacts, PopProperties DEF RightWaiting
<1> QED BY <1>1, <1>2, <1>3

\* One wait list of all changes.
LEMMA OneWaitList ==
    ASSUME \A x \in Semas : RightWaiting(waiting[x]), NEW s \in Semas,
           waiting \in [Semas -> PriorQueue],
           NEW q, RightWaiting(q), waiting' = [waiting EXCEPT ![s] = q]
    PROVE  /\ waiting' \in [Semas -> PriorQueue]
           /\ \A x \in Semas : RightWaiting(waiting'[x])
  BY DEF RightWaiting

-----------------------------------------------------------------------------
(* The invariant holds at first, and every step keeps it. *)

LEMMA InitCore == Init => CoreInv
<1> SUFFICES ASSUME Init PROVE CoreInv
  OBVIOUS
<1> USE IdleFacts, KernelAssumption
<1>1. /\ RightReady(ready) /\ ready.fifo[IdlePriority] = <<Idle>>
      /\ current = NULL /\ current # Idle
  <2>1. /\ RightReady(Push(EmptyQueue, Idle))
        /\ Push(EmptyQueue, Idle).fifo[IdlePriority]
              = Append(EmptyQueue.fifo[IdlePriority], Idle)
    <3>1. EmptyQueue \in PriorQueue /\ HighestIsRight(EmptyQueue) /\ Filed(EmptyQueue)
      BY EmptyQueueIsRight
    <3>2. Idle \in Threads /\ Prio[Idle] = IdlePriority
      OBVIOUS
    <3> QED BY ONLY <3>1, <3>2, PushProperties DEF RightReady
  <2>2. EmptyQueue.fifo[IdlePriority] = <<>>
    BY PrioritiesAreSmall DEF EmptyQueue
  <2>3. ready = Push(EmptyQueue, Idle) /\ current = NULL
    BY DEF Init
  <2>4. NULL # Idle /\ Append(<<>>, Idle) = <<Idle>>
    OBVIOUS
  <2> QED BY ONLY <2>1, <2>2, <2>3, <2>4
<1>2. QueuesInv
  BY <1>1, EmptyQueueIsRight DEF Init, QueuesInv, IdleIsThere, RightWaiting
<1>3. CoreOwned
  BY DEF Init, CoreOwned, TickOff
<1>4. TimersInv
  BY DEF Init, TimersInv, TickOff
<1>5. CallsInv
  BY DEF Init, CallsInv, App
<1>6. TypeOK
  <2>1. ready \in PriorQueue
    BY <1>1 DEF RightReady
  <2>2. waiting \in [Semas -> PriorQueue]
    BY EmptyQueueIsRight DEF Init
  <2>3. call \in [Threads -> Calls]
    BY DEF Init, App, Calls, Points
  <2>4. tick \in [at : TickPoints, idx : Nat \ {0},
                  timer : TimerRecord \cup {NoTimer}]
    BY DEF Init, TickOff, TickPoints
  <2>5. count \in [Semas -> 0 .. MaxCount] /\ tokens \in [Semas -> Int]
    BY DEF Init
  <2>6. timers \in Seq(TimerRecord)
    BY DEF Init
  <2> QED BY <2>1, <2>2, <2>3, <2>4, <2>5, <2>6 DEF Init, TypeOK
<1> QED BY <1>2, <1>3, <1>4, <1>5, <1>6 DEF CoreInv

\* Boot, thread creation and the scheduler.
LEMMA EnqueueKeeps ==
    ASSUME IdleAlone, CoreInv, NEW t \in Threads, Enqueue(t)
    PROVE  /\ RightReady(ready') /\ IdleIsThere(current', ready')
           /\ state' \in [Threads -> {"NONE", "INVALID", "READY", "RUNNING", "SUSPEND"}]
           /\ state'[Idle] \notin {"NONE", "SUSPEND"}
<1>1. t # Idle
  BY DEF CoreInv, CoreOwned, Enqueue
<1>2. /\ RightReady(ready')
      /\ ready'.fifo[IdlePriority] = ready.fifo[IdlePriority]
  BY <1>1, PushKeeps DEF CoreInv, QueuesInv, Enqueue
<1>3. NewState(t) \in {"INVALID", "READY"}
  BY DEF NewState
<1>4. state' = [state EXCEPT ![t] = NewState(t)] /\ current' = current
  BY DEF Enqueue
<1> QED BY <1>1, <1>2, <1>3, <1>4, IdleFacts
        DEF CoreInv, QueuesInv, CoreOwned, TypeOK, IdleIsThere

LEMMA CreateBeforeStartKeeps ==
    ASSUME IdleAlone, CoreInv, NEW t \in Threads, CreateBeforeStart(t)
    PROVE  CoreInv'
<1>1. /\ RightReady(ready') /\ IdleIsThere(current', ready')
      /\ state' \in [Threads -> {"NONE", "INVALID", "READY", "RUNNING", "SUSPEND"}]
      /\ state'[Idle] \notin {"NONE", "SUSPEND"}
  BY EnqueueKeeps DEF CreateBeforeStart
<1>2. UNCHANGED <<started, current, wake, timerOf, call, semaVars, timers, isrVars>>
  BY DEF CreateBeforeStart, Enqueue
<1>3. TypeOK'
  BY <1>1, <1>2 DEF CoreInv, TypeOK, RightReady, semaVars, isrVars
<1>4. QueuesInv' /\ CoreOwned' /\ TimersInv' /\ CallsInv'
  BY <1>1, <1>2 DEF CoreInv, QueuesInv, CoreOwned, TimersInv, CallsInv,
                    semaVars, isrVars
<1> QED BY <1>3, <1>4 DEF CoreInv

LEMMA KernelStartKeeps ==
    ASSUME IdleAlone, CoreInv, KernelStart
    PROVE  CoreInv'
<1>1. /\ RightReady(ready) /\ ready.fifo[IdlePriority] = <<Idle>>
      /\ current = NULL /\ started' = TRUE
      /\ current' = Foremost(ready) /\ ready' = Pop(ready)
  BY IdleFacts DEF CoreInv, QueuesInv, CoreOwned, IdleIsThere, KernelStart
<1>2. Foremost(ready) # NULL
  BY <1>1, PrioritiesAreSmall, PopProperties DEF RightReady
<1>3. RightReady(ready') /\ current' \in Threads /\ IdleIsThere(current', ready')
  <2>1. Tail(<<Idle>>) = <<>>
    OBVIOUS
  <2> QED BY <1>1, <1>2, <2>1, PopKeeps DEF IdleIsThere
<1>4. UNCHANGED <<tcbVars, call, semaVars, timers, isrVars>>
  BY DEF KernelStart
<1>5. TypeOK'
  BY <1>1, <1>3, <1>4 DEF CoreInv, TypeOK, RightReady, tcbVars, semaVars, isrVars
<1>6. QueuesInv' /\ CoreOwned' /\ TimersInv' /\ CallsInv'
  BY <1>1, <1>3, <1>4 DEF CoreInv, QueuesInv, CoreOwned, TimersInv, CallsInv,
                          tcbVars, semaVars, isrVars
<1> QED BY <1>5, <1>6 DEF CoreInv

\* What the scheduler leaves alone is left as it was.
LEMMA ScheduledKeeps ==
    ASSUME IdleAlone, CoreInv, started, NEW b \in BOOLEAN, Scheduler(b),
           UNCHANGED <<started, wake, timerOf, semaVars, timers>>,
           call' \in [Threads -> Calls], CallsInv',
           irq' \in {"off", "exit"}, tick' \in {tick, TickOff}
    PROVE  CoreInv'
<1>1. /\ RightReady(ready') /\ IdleIsThere(current', ready')
      /\ current' \in Threads
      /\ state' \in [Threads -> {"NONE", "INVALID", "READY", "RUNNING", "SUSPEND"}]
      /\ state'[Idle] \notin {"NONE", "SUSPEND"}
  BY SchedulerKeeps DEF CoreInv, QueuesInv, CoreOwned, TypeOK
<1>2. TypeOK'
  BY <1>1 DEF CoreInv, TypeOK, RightReady, semaVars, TickOff, TickPoints
<1>3. QueuesInv' /\ CoreOwned'
  BY <1>1 DEF CoreInv, QueuesInv, CoreOwned, semaVars
<1>4. TimersInv'
  BY DEF CoreInv, TimersInv, TickOff
<1> QED BY <1>2, <1>3, <1>4 DEF CoreInv

\* Where a thread is in a kernel call.
LEMMA CallKeeps ==
    ASSUME call \in [Threads -> Calls], CallsInv, NEW t \in Threads,
           NEW c \in Calls, call' = [call EXCEPT ![t] = c],
           c.at \in {"suspended", "woken", "destroying", "freeing"} => c.sema \in Semas
    PROVE  call' \in [Threads -> Calls] /\ CallsInv'
  BY DEF CallsInv

LEMMA GotoKeeps ==
    ASSUME call \in [Threads -> Calls], CallsInv, NEW t \in Threads,
           NEW point \in Points, Goto(t, point),
           point \in {"suspended", "woken", "destroying", "freeing"} =>
              call[t].at \in {"suspended", "woken", "destroying", "freeing"}
    PROVE  call' \in [Threads -> Calls] /\ CallsInv'
<1> DEFINE c == [call[t] EXCEPT !.at = point]
<1>1. call[t] \in Calls
  OBVIOUS
<1>2. c \in Calls /\ c.at = point /\ c.sema = call[t].sema
  BY <1>1 DEF Calls
<1>3. call' = [call EXCEPT ![t] = c]
  BY DEF Goto
<1>4. point \in {"suspended", "woken", "destroying", "freeing"} => c.sema \in Semas
  BY <1>2 DEF CallsInv
<1> HIDE DEF c
<1> QED BY <1>2, <1>3, <1>4, CallKeeps

LEMMA ReturnKeeps ==
    ASSUME call \in [Threads -> Calls], CallsInv, NEW t \in Threads, Return(t)
    PROVE  call' \in [Threads -> Calls] /\ CallsInv'
<1>1. App \in Calls /\ App.at = "app"
  BY DEF App, Calls, Points
<1> QED BY <1>1, CallKeeps DEF Return

LEMMA RescheduleKeeps ==
    ASSUME IdleAlone, CoreInv, NEW t \in Threads, Reschedule(t)
    PROVE  CoreInv'
<1>1. call' \in [Threads -> Calls] /\ CallsInv'
  <2>1. CASE call[t].at = "suspended"
    BY <2>1, GotoKeeps DEF CoreInv, TypeOK, Reschedule, Points
  <2>2. CASE call[t].at # "suspended"
    BY <2>2, ReturnKeeps DEF CoreInv, TypeOK, Reschedule
  <2> QED BY <2>1, <2>2
<1>2. /\ started /\ Scheduler(FALSE)
      /\ UNCHANGED <<started, wake, timerOf, semaVars, timers, isrVars>>
  BY DEF Reschedule, InThread
<1> QED BY <1>1, <1>2, ScheduledKeeps DEF CoreInv, TypeOK, isrVars

-----------------------------------------------------------------------------
(* The other steps leave `current' alone.  A step keeps the invariant if it *)
(* keeps each part of the state right, or leaves it as it was.              *)

ThreadsRight ==
    /\ state \in [Threads -> {"NONE", "INVALID", "READY", "RUNNING", "SUSPEND"}]
    /\ state[Idle] \notin {"NONE", "SUSPEND"}
    /\ wake \in [Threads -> {"INVALID", "OK", "DELETED", "TIMEOUT"}]
    /\ timerOf \in [Threads -> Blocks \cup {NULL}]
CallsRight == call \in [Threads -> Calls] /\ CallsInv
CountsRight ==
    /\ count \in [Semas -> 0 .. MaxCount]
    /\ tokens \in [Semas -> Int]
    /\ phase \in [Semas -> {"live", "dying", "freed"}]
WaitingRight ==
    waiting \in [Semas -> PriorQueue] /\ \A s \in Semas : RightWaiting(waiting[s])
TickRight ==
    /\ tick \in [at : TickPoints, idx : Nat \ {0},
                 timer : TimerRecord \cup {NoTimer}]
    /\ tick.at \in {"callback", "delete"} =>
         tick.timer \in TimerRecord /\ RightTimer(tick.timer)
    /\ irq \in {"off", "exit"}
    /\ ~started => tick.at = "off" /\ irq = "off"

LEMMA PartsOfCore ==
    ASSUME CoreInv
    PROVE  /\ RightReady(ready) /\ IdleIsThere(current, ready)
           /\ ThreadsRight /\ CallsRight /\ CountsRight /\ WaitingRight
           /\ RightTimers(timers) /\ TickRight
  BY DEF CoreInv, TypeOK, QueuesInv, CoreOwned, TimersInv, CallsRight, ThreadsRight,
         CountsRight, WaitingRight, RightTimers, TickRight

LEMMA CoreFromParts ==
    ASSUME CoreInv, UNCHANGED <<started, current>>,
           \/ UNCHANGED ready
           \/ /\ RightReady(ready')
              /\ ready'.fifo[IdlePriority] = ready.fifo[IdlePriority],
           UNCHANGED tcbVars \/ ThreadsRight',
           UNCHANGED call \/ CallsRight',
           UNCHANGED <<count, tokens, phase>> \/ CountsRight',
           UNCHANGED waiting \/ WaitingRight',
           UNCHANGED timers \/ RightTimers(timers'),
           UNCHANGED isrVars \/ TickRight'
    PROVE  CoreInv'
<1>1. RightReady(ready') /\ IdleIsThere(current', ready')
  BY PartsOfCore DEF IdleIsThere
<1>2. ThreadsRight'
  BY PartsOfCore DEF ThreadsRight, tcbVars
<1>3. CallsRight'
  BY PartsOfCore DEF CallsRight, CallsInv
<1>4. CountsRight'
  BY PartsOfCore DEF CountsRight
<1>5. WaitingRight'
  BY PartsOfCore DEF WaitingRight
<1>6. RightTimers(timers')
  BY PartsOfCore
<1>7. TickRight'
  BY PartsOfCore DEF TickRight, isrVars
<1>8. started' = started /\ current' = current /\ started \in BOOLEAN
      /\ current \in Threads \cup {NULL}
      /\ (started => current \in Threads) /\ (~started => current = NULL)
  BY DEF CoreInv, TypeOK, CoreOwned
<1>9. TypeOK'
  BY <1>1, <1>2, <1>3, <1>4, <1>5, <1>6, <1>7, <1>8
     DEF TypeOK, RightReady, ThreadsRight, CallsRight, CountsRight, WaitingRight,
         RightTimers, TickRight
<1>10. QueuesInv' /\ CoreOwned'
  BY <1>1, <1>2, <1>5, <1>7, <1>8
     DEF QueuesInv, CoreOwned, ThreadsRight, WaitingRight, TickRight
<1>11. TimersInv' /\ CallsInv'
  BY <1>3, <1>6, <1>7 DEF TimersInv, CallsRight, RightTimers, TickRight
<1> QED BY <1>9, <1>10, <1>11 DEF CoreInv

\* A thread that puts itself to sleep, or to wait, is not idle.
LEMMA SuspendKeeps ==
    ASSUME CoreInv, NEW t \in Threads \ {Idle}, NEW x \in {"SUSPEND", "RUNNING"},
           state' = [state EXCEPT ![t] = x], wake' = wake,
           timerOf' \in [Threads -> Blocks \cup {NULL}]
    PROVE  ThreadsRight'
  BY PartsOfCore, IdleFacts DEF ThreadsRight

LEMMA DelayTickKeeps ==
    ASSUME IdleAlone, CoreInv, NEW t \in Threads, NEW n \in 1 .. MaxTicks,
           DelayTick(t, n)
    PROVE  CoreInv'
<1>1. t \in Threads \ {Idle}
  BY DEF DelayTick, Calling
<1>2. NewTimer(t, "delay", NULL, n)
  BY DEF DelayTick
<1>3. RightTimers(timers') /\ timerOf' \in [Threads -> Blocks \cup {NULL}]
  BY <1>1, <1>2, NewTimerKeeps, PartsOfCore DEF ThreadsRight
<1>4. ThreadsRight'
  BY <1>1, <1>3, SuspendKeeps DEF DelayTick
<1>5. CallsRight'
  BY GotoKeeps, PartsOfCore DEF DelayTick, CallsRight, Points
<1> QED BY <1>3, <1>4, <1>5, CoreFromParts DEF DelayTick, semaVars

LEMMA DelayTickNoTimerKeeps ==
    ASSUME IdleAlone, CoreInv, NEW t \in Threads, DelayTickNoTimer(t)
    PROVE  CoreInv'
<1>1. t \in Threads \ {Idle} /\ timerOf' \in [Threads -> Blocks \cup {NULL}]
  BY PartsOfCore DEF DelayTickNoTimer, Calling, ThreadsRight
<1>2. ThreadsRight'
  BY <1>1, SuspendKeeps DEF DelayTickNoTimer
<1> QED BY <1>2, CoreFromParts DEF DelayTickNoTimer, semaVars

LEMMA SemaCreateKeeps ==
    ASSUME IdleAlone, CoreInv, NEW s \in Semas, NEW n \in 0 .. MaxCount,
           SemaCreate(s, n)
    PROVE  CoreInv'
<1>1. CountsRight'
  BY PartsOfCore, KernelAssumption DEF SemaCreate, CountsRight
<1>2. RightWaiting(EmptyQueue)
  BY EmptyQueueIsRight DEF RightWaiting
<1>3. WaitingRight'
  BY <1>2, PartsOfCore, OneWaitList DEF SemaCreate, WaitingRight
<1> QED BY <1>1, <1>3, CoreFromParts DEF SemaCreate

LEMMA TakeCountKeeps ==
    ASSUME CoreInv, NEW s \in Semas, TakeCount(s)
    PROVE  CountsRight' /\ UNCHANGED waiting
<1>1. count[s] \in 0 .. MaxCount /\ count[s] > 0 /\ MaxCount \in Int
  BY PartsOfCore, KernelAssumption DEF CountsRight, TakeCount
<1>2. count[s] - 1 \in 0 .. MaxCount
  BY <1>1
<1> QED BY <1>2, PartsOfCore DEF CountsRight, TakeCount

LEMMA SemaAcquireKeeps ==
    ASSUME IdleAlone, CoreInv, NEW t \in Threads, NEW s \in Semas,
           SemaAcquire(t, s)
    PROVE  CoreInv'
  BY TakeCountKeeps, CoreFromParts DEF SemaAcquire

LEMMA SemaAcquireWaitKeeps ==
    ASSUME IdleAlone, CoreInv, NEW t \in Threads, NEW s \in Semas,
           NEW n \in (1 .. MaxTicks) \cup {Forever}, SemaAcquireWait(t, s, n)
    PROVE  CoreInv'
<1>1. t \in Threads \ {Idle}
  BY DEF SemaAcquireWait, Calling
<1>2. RightTimers(timers') /\ timerOf' \in [Threads -> Blocks \cup {NULL}]
  <2>1. CASE n = Forever
    BY <2>1, PartsOfCore DEF SemaAcquireWait, ThreadsRight
  <2>2. CASE n # Forever
    BY <1>1, <2>2, NewTimerKeeps, PartsOfCore DEF SemaAcquireWait, ThreadsRight
  <2> QED BY <2>1, <2>2
<1>3. ThreadsRight'
  BY <1>1, <1>2, SuspendKeeps DEF SemaAcquireWait
<1>4. WaitingRight'
  <2>1. RightWaiting(waiting[s])
    BY PartsOfCore DEF WaitingRight
  <2>2. RightWaiting(Push(waiting[s], t))
    BY <1>1, <2>1, WaitingKeeps
  <2>3. waiting' = [waiting EXCEPT ![s] = Push(waiting[s], t)]
    BY DEF SemaAcquireWait
  <2> QED BY <2>2, <2>3, PartsOfCore, OneWaitList DEF WaitingRight
<1>5. CallsRight'
  <2> DEFINE c == [call[t] EXCEPT !.at = "suspended", !.sema = s]
  <2>1. call[t] \in Calls
    BY PartsOfCore DEF CallsRight
  <2>2. c \in Calls /\ c.sema \in Semas
    BY <2>1 DEF Calls, Points
  <2>3. call' = [call EXCEPT ![t] = c]
    BY DEF SemaAcquireWait
  <2> HIDE DEF c
  <2> QED BY <2>2, <2>3, CallKeeps, PartsOfCore DEF CallsRight
<1> QED BY <1>2, <1>3, <1>4, <1>5, CoreFromParts DEF SemaAcquireWait

LEMMA SemaAcquireNoTimerKeeps ==
    ASSUME IdleAlone, CoreInv, NEW t \in Threads, NEW s \in Semas,
           SemaAcquireNoTimer(t, s)
    PROVE  CoreInv'
<1>1. t \in Threads \ {Idle} /\ timerOf' \in [Threads -> Blocks \cup {NULL}]
  BY PartsOfCore DEF SemaAcquireNoTimer, Calling, ThreadsRight
<1>2. ThreadsRight'
  BY <1>1, SuspendKeeps DEF SemaAcquireNoTimer
<1>3. WaitingRight'
  <2>1. RightWaiting(waiting[s])
    BY PartsOfCore DEF WaitingRight
  <2>2. RightWaiting(Push(waiting[s], t))
    BY <1>1, <2>1, WaitingKeeps
  <2>3. RightWaiting(Take(Push(waiting[s], t), t))
    BY <2>2, WaitingKeeps
  <2>4. waiting' = [waiting EXCEPT ![s] = Take(Push(waiting[s], t), t)]
    BY DEF SemaAcquireNoTimer
  <2> QED BY <2>3, <2>4, PartsOfCore, OneWaitList DEF WaitingRight
<1> QED BY <1>2, <1>3, CoreFromParts DEF SemaAcquireNoTimer

LEMMA SemaAcquireReturnKeeps ==
    ASSUME IdleAlone, CoreInv, NEW t \in Threads, SemaAcquireReturn(t)
    PROVE  CoreInv'
<1>1. CountsRight'
  <2> DEFINE s == call[t].sema
  <2>1. s \in Semas
    BY PartsOfCore DEF SemaAcquireReturn, At, CallsRight, CallsInv
  <2>2. tokens[s] - 1 \in Int
    BY <2>1, PartsOfCore DEF CountsRight
  <2> QED BY <2>1, <2>2, PartsOfCore DEF SemaAcquireReturn, CountsRight
<1>2. CallsRight'
  BY ReturnKeeps, PartsOfCore DEF SemaAcquireReturn, CallsRight
<1> QED BY <1>1, <1>2, CoreFromParts DEF SemaAcquireReturn

\* Give: the parts of the state that HandOver and Increment change stay right.
LEMMA HandOverKeeps ==
    ASSUME IdleAlone, CoreInv, NEW s \in Semas, NEW t \in Threads, HandOver(s, t),
           UNCHANGED call \/ CallsRight', UNCHANGED isrVars \/ TickRight'
    PROVE  CoreInv'
<1>1. RightWaiting(waiting[s]) /\ t = Foremost(waiting[s])
  BY PartsOfCore DEF WaitingRight, HandOver
<1>2. t \in Threads \ {Idle} /\ RightWaiting(Pop(waiting[s]))
  BY <1>1, IdleFacts, WaitingKeeps
<1>3. WaitingRight'
  BY <1>2, PartsOfCore, OneWaitList DEF WaitingRight, HandOver
<1>4. /\ RightReady(ready')
      /\ ready'.fifo[IdlePriority] = ready.fifo[IdlePriority]
  BY <1>2, PartsOfCore, PushKeeps DEF HandOver
<1>5. RightTimers(timers')
  BY PartsOfCore, WithoutKeeps DEF HandOver
<1>6. ThreadsRight'
  BY PartsOfCore DEF HandOver, ThreadsRight
<1>7. CountsRight'
  <2>1. tokens[s] + 1 \in Int
    BY PartsOfCore DEF CountsRight
  <2> QED BY <2>1, PartsOfCore DEF HandOver, CountsRight
<1> QED BY <1>3, <1>4, <1>5, <1>6, <1>7, CoreFromParts DEF HandOver

LEMMA IncrementKeeps ==
    ASSUME IdleAlone, CoreInv, NEW s \in Semas, Increment(s),
           UNCHANGED call \/ CallsRight', UNCHANGED isrVars \/ TickRight'
    PROVE  CoreInv'
<1>1. CountsRight'
  <2>1. count[s] \in 0 .. MaxCount /\ MaxCount \in Int /\ tokens[s] + 1 \in Int
    BY PartsOfCore, KernelAssumption DEF CountsRight
  <2>2. count[s] # MaxCount
    BY DEF Increment
  <2>3. count[s] + 1 \in 0 .. MaxCount
    BY <2>1, <2>2
  <2> QED BY <2>1, <2>3, PartsOfCore DEF Increment, CountsRight
<1> QED BY <1>1, CoreFromParts DEF Increment

LEMMA SemaGiveKeeps ==
    ASSUME IdleAlone, CoreInv, NEW t \in Threads, NEW s \in Semas, SemaGive(t, s)
    PROVE  CoreInv'
<1>1. CASE \E w \in Threads : HandOver(s, w)
  <2>1. PICK w \in Threads : HandOver(s, w)
    BY <1>1
  <2>2. ~Increment(s)
    BY <2>1 DEF HandOver, Increment
  <2>3. UNCHANGED call \/ CallsRight'
    BY <2>2, GotoKeeps, PartsOfCore DEF SemaGive, CallsRight, Points
  <2> QED BY <2>1, <2>3, HandOverKeeps DEF SemaGive
<1>2. CASE Increment(s) /\ UNCHANGED call
  BY <1>2, IncrementKeeps DEF SemaGive
<1> QED BY <1>1, <1>2 DEF SemaGive

\* Destroy.
LEMMA SemaDestroyKeeps ==
    ASSUME IdleAlone, CoreInv, NEW t \in Threads, NEW s \in Semas, SemaDestroy(t, s)
    PROVE  CoreInv'
<1>1. CountsRight'
  BY PartsOfCore DEF SemaDestroy, CountsRight
<1>2. CallsRight'
  <2> DEFINE c == [call[t] EXCEPT !.at = "destroying", !.sema = s]
  <2>1. call[t] \in Calls
    BY PartsOfCore DEF CallsRight
  <2>2. c \in Calls /\ c.sema \in Semas
    BY <2>1 DEF Calls, Points
  <2>3. call' = [call EXCEPT ![t] = c]
    BY DEF SemaDestroy
  <2> HIDE DEF c
  <2> QED BY <2>2, <2>3, CallKeeps, PartsOfCore DEF CallsRight
<1> QED BY <1>1, <1>2, CoreFromParts DEF SemaDestroy

LEMMA SemaDestroyWakeKeeps ==
    ASSUME IdleAlone, CoreInv, NEW t \in Threads, SemaDestroyWake(t)
    PROVE  CoreInv'
<1> DEFINE s == call[t].sema
           w == Foremost(waiting[s])
<1>1. s \in Semas /\ call[t] \in Calls /\ call[t].at = "destroying"
  BY PartsOfCore DEF SemaDestroyWake, At, CallsRight, CallsInv
<1>2. /\ w # NULL
      /\ waiting' = [waiting EXCEPT ![s] = Pop(waiting[s])]
      /\ wake' = [wake EXCEPT ![w] = "DELETED"] /\ state' = state
  BY DEF SemaDestroyWake
<1>3. RightWaiting(waiting[s])
  BY <1>1, PartsOfCore DEF WaitingRight
<1> HIDE DEF s, w
<1>4. w \in Threads \ {Idle} /\ RightWaiting(Pop(waiting[s]))
  BY <1>2, <1>3, WaitingKeeps DEF w
<1>5. WaitingRight'
  BY <1>1, <1>2, <1>4, PartsOfCore, OneWaitList DEF WaitingRight
<1>6. /\ \/ UNCHANGED ready
         \/ /\ RightReady(ready')
            /\ ready'.fifo[IdlePriority] = ready.fifo[IdlePriority]
      /\ RightTimers(timers')
  BY <1>4, PartsOfCore, PushKeeps, WithoutKeeps DEF SemaDestroyWake, s, w
<1>7. timerOf' \in [Threads -> Blocks \cup {NULL}]
  BY <1>4, PartsOfCore DEF SemaDestroyWake, ThreadsRight, s, w
<1>8. ThreadsRight'
  BY <1>2, <1>4, <1>7, PartsOfCore DEF ThreadsRight
<1>9. CallsRight'
  <2> DEFINE c == [call[t] EXCEPT !.woke = TRUE]
  <2>1. c \in Calls /\ c.sema \in Semas
    BY <1>1 DEF Calls, s
  <2>2. CASE call' = [call EXCEPT ![t].woke = TRUE]
    <3>1. call' = [call EXCEPT ![t] = c]
      BY <2>2
    <3> HIDE DEF c
    <3> QED BY <2>1, <3>1, CallKeeps, PartsOfCore DEF CallsRight
  <2>3. CASE Goto(t, "freeing")
    BY <1>1, <2>3, GotoKeeps, PartsOfCore DEF CallsRight, Points
  <2> QED BY <2>2, <2>3 DEF SemaDestroyWake
<1> QED BY <1>5, <1>6, <1>8, <1>9, CoreFromParts DEF SemaDestroyWake

LEMMA SemaDestroyNoMoreKeeps ==
    ASSUME IdleAlone, CoreInv, NEW t \in Threads, SemaDestroyNoMore(t)
    PROVE  CoreInv'
<1>1. CallsRight'
  BY GotoKeeps, PartsOfCore DEF SemaDestroyNoMore, At, CallsRight, Points
<1> QED BY <1>1, CoreFromParts DEF SemaDestroyNoMore, semaVars

LEMMA SemaDestroyFreeKeeps ==
    ASSUME IdleAlone, CoreInv, NEW t \in Threads, SemaDestroyFree(t)
    PROVE  CoreInv'
<1>1. CallsRight'
  BY GotoKeeps, ReturnKeeps, PartsOfCore DEF SemaDestroyFree, CallsRight, Points
<1>2. CountsRight'
  BY PartsOfCore DEF SemaDestroyFree, CountsRight
<1> QED BY <1>1, <1>2, CoreFromParts DEF SemaDestroyFree

\* Interrupts.
LEMMA IrqGiveKeeps ==
    ASSUME IdleAlone, CoreInv, NEW s \in Semas, IrqGive(s)
    PROVE  CoreInv'
<1>1. TickRight'
  BY PartsOfCore DEF IrqGive, DeviceMayInterrupt, TickRight, HandOver, Increment
<1> QED BY <1>1, HandOverKeeps, IncrementKeeps DEF IrqGive

LEMMA IrqAcquireKeeps ==
    ASSUME IdleAlone, CoreInv, NEW s \in Semas, IrqAcquire(s)
    PROVE  CoreInv'
<1>1. TickRight'
  BY PartsOfCore DEF IrqAcquire, DeviceMayInterrupt, TickRight
<1> QED BY <1>1, TakeCountKeeps, CoreFromParts DEF IrqAcquire

LEMMA IrqExitKeeps ==
    ASSUME IdleAlone, CoreInv, IrqExit
    PROVE  CoreInv'
<1>1. started /\ CallsRight
  BY PartsOfCore DEF IrqExit, TickRight
<1>2. call' \in [Threads -> Calls] /\ CallsInv'
  BY <1>1 DEF IrqExit, CallsRight, CallsInv
<1> QED BY <1>1, <1>2, ScheduledKeeps DEF IrqExit

LEMMA TickCountKeeps ==
    ASSUME IdleAlone, CoreInv, TickCount
    PROVE  CoreInv'
<1>1. RightTimers(timers')
  BY PartsOfCore, CountDownKeeps
<1>2. TickRight'
  <2>1. tick.idx \in Nat \ {0} /\ Len(timers) \in Nat
    BY PartsOfCore, LenProperties DEF TickRight, RightTimers
  <2>2. PICK last \in {Len(timers)} \cup (IF Nested THEN tick.idx .. Len(timers) ELSE {}) :
          tick' = IF last = Len(timers) THEN [TickOff EXCEPT !.at = "poll"]
                  ELSE [TickOff EXCEPT !.at = "count", !.idx = last + 1]
    BY DEF TickCount
  <2>3. /\ tick' \in [at : TickPoints, idx : Nat \ {0}, timer : TimerRecord \cup {NoTimer}]
        /\ tick'.at \in {"count", "poll"}
    <3>1. last + 1 \in Nat \ {0}
      BY <2>1, <2>2
    <3>2. \/ tick' = [at |-> "poll", idx |-> 1, timer |-> NoTimer]
          \/ tick' = [at |-> "count", idx |-> last + 1, timer |-> NoTimer]
      BY <2>2 DEF TickOff
    <3> QED BY <3>1, <3>2 DEF TickPoints
  <2> QED BY <2>3, PartsOfCore DEF TickCount, TickRight
<1> QED BY <1>1, <1>2, CoreFromParts DEF TickCount, semaVars

LEMMA PollTimerKeeps ==
    ASSUME IdleAlone, CoreInv, PollTimer
    PROVE  CoreInv'
<1> DEFINE v == timers[tick.idx]
<1>1. tick.idx \in Nat \ {0} /\ started
  BY PartsOfCore DEF PollTimer, TickIsAt, TickRight
<1>2. CASE v.cnt = 0 /\ tick.idx \in DOMAIN timers
  <2>1. v \in TimerRecord /\ RightTimer(v)
    BY <1>2, PartsOfCore DEF RightTimers
  <2>2. tick' = [tick EXCEPT !.at = "callback", !.timer = v]
    BY <1>2 DEF PollTimer
  <2> HIDE DEF v
  <2>3. TickRight'
    BY <1>1, <2>1, <2>2, PartsOfCore DEF PollTimer, TickRight, TickPoints
  <2> QED BY <2>3, CoreFromParts DEF PollTimer, semaVars
<1>3. CASE v.cnt # 0
  <2>1. tick' = [tick EXCEPT !.idx = @ + 1]
    BY <1>3 DEF PollTimer
  <2>2. tick.at = "poll" /\ irq = "off" /\ tick.idx + 1 \in Nat \ {0}
    BY <1>1 DEF PollTimer, TickIsAt
  <2>3. /\ tick' \in [at : TickPoints, idx : Nat \ {0},
                     timer : TimerRecord \cup {NoTimer}]
        /\ tick'.at = "poll"
    BY <2>1, <2>2, PartsOfCore DEF TickRight
  <2>4. TickRight'
    BY <1>1, <2>2, <2>3 DEF PollTimer, TickRight
  <2> QED BY <2>4, CoreFromParts DEF PollTimer, semaVars
<1>4. tick.idx \in DOMAIN timers
  <2>1. Len(timers) \in Nat /\ DOMAIN timers = 1 .. Len(timers)
    BY PartsOfCore, LenProperties DEF RightTimers
  <2> QED BY <1>1, <2>1 DEF PollTimer
<1> QED BY <1>2, <1>3, <1>4

LEMMA CallbackKeeps ==
    ASSUME IdleAlone, CoreInv, Callback
    PROVE  CoreInv'
<1> DEFINE v == tick.timer
<1>1. /\ v \in TimerRecord /\ RightTimer(v) /\ started
      /\ tick.at = "callback" /\ irq = "off"
  BY PartsOfCore DEF Callback, TickIsAt, TickRight
<1>2. v.tcb \in Threads \ {Idle} /\ (v.kind = "sema" => v.sema \in Semas)
  BY <1>1 DEF TimerRecord, RightTimer
<1>3. /\ RightReady(ready')
      /\ ready'.fifo[IdlePriority] = ready.fifo[IdlePriority]
  BY <1>2, PartsOfCore, PushKeeps DEF Callback
<1>4. ThreadsRight'
  BY <1>2, PartsOfCore DEF Callback, ThreadsRight
<1>5. UNCHANGED waiting \/ WaitingRight'
  <2>1. CASE v.kind = "sema"
    <3>1. RightWaiting(waiting[v.sema]) /\ v.sema \in Semas
      BY <1>2, <2>1, PartsOfCore DEF WaitingRight
    <3>2. RightWaiting(Take(waiting[v.sema], v.tcb))
      BY <1>2, <3>1, WaitingKeeps
    <3>3. waiting' = [waiting EXCEPT ![v.sema] = Take(waiting[v.sema], v.tcb)]
      BY <2>1 DEF Callback
    <3> QED BY <3>1, <3>2, <3>3, PartsOfCore, OneWaitList DEF WaitingRight
  <2>2. CASE v.kind # "sema"
    BY <2>2 DEF Callback
  <2> QED BY <2>1, <2>2
<1>6. TickRight'
  BY <1>1, PartsOfCore DEF Callback, TickRight, TickPoints
<1> QED BY <1>3, <1>4, <1>5, <1>6, CoreFromParts DEF Callback

LEMMA DeleteTimerKeeps ==
    ASSUME IdleAlone, CoreInv, DeleteTimer
    PROVE  CoreInv'
<1>1. RightTimers(timers')
  BY PartsOfCore, WithoutKeeps DEF DeleteTimer
<1>2. /\ tick.idx \in Nat \ {0} /\ tick.at = "delete" /\ irq = "off" /\ started
      /\ tick' = [TickOff EXCEPT !.at = "poll", !.idx = tick.idx + 1]
  BY PartsOfCore DEF DeleteTimer, TickIsAt, TickRight
<1>3. /\ tick' \in [at : TickPoints, idx : Nat \ {0},
                   timer : TimerRecord \cup {NoTimer}]
      /\ tick'.at = "poll"
  <2>1. tick.idx + 1 \in Nat \ {0}
    BY <1>2
  <2> QED BY <1>2, <2>1 DEF TickOff, TickPoints
<1>4. TickRight'
  BY <1>2, <1>3 DEF DeleteTimer, TickRight
<1> QED BY <1>1, <1>4, CoreFromParts DEF DeleteTimer, semaVars

LEMMA TickExitKeeps ==
    ASSUME IdleAlone, CoreInv, TickExit
    PROVE  CoreInv'
<1>1. started /\ CallsRight /\ irq \in {"off", "exit"}
  BY PartsOfCore DEF TickExit, TickIsAt, TickRight
<1>2. call' \in [Threads -> Calls] /\ CallsInv'
  BY <1>1 DEF TickExit, CallsRight, CallsInv
<1> QED BY <1>1, <1>2, ScheduledKeeps DEF TickExit

LEMMA StepCore ==
    ASSUME IdleAlone, CoreInv, [Next]_vars
    PROVE  CoreInv'
<1>1. CASE Boot
  BY <1>1, CreateBeforeStartKeeps, KernelStartKeeps DEF Boot
<1>2. ASSUME NEW t \in Threads, ThreadStep(t) PROVE CoreInv'
  <2>1. ASSUME NEW new \in Threads, ThreadCreate(t, new) PROVE CoreInv'
    <3>1. /\ RightReady(ready') /\ IdleIsThere(current', ready')
          /\ state' \in [Threads -> {"NONE", "INVALID", "READY", "RUNNING", "SUSPEND"}]
          /\ state'[Idle] \notin {"NONE", "SUSPEND"}
      BY <2>1, EnqueueKeeps DEF ThreadCreate
    <3>2. UNCHANGED <<started, current, wake, timerOf, semaVars, timers, isrVars>>
      BY <2>1 DEF ThreadCreate, Enqueue
    <3>3. CallsRight'
      BY <2>1, GotoKeeps, PartsOfCore DEF ThreadCreate, CallsRight, Points
    <3>4. TypeOK'
      BY <3>1, <3>2, <3>3 DEF CoreInv, TypeOK, RightReady, CallsRight, semaVars, isrVars
    <3>5. QueuesInv' /\ CoreOwned' /\ TimersInv' /\ CallsInv'
      BY <3>1, <3>2, <3>3 DEF CoreInv, QueuesInv, CoreOwned, TimersInv, CallsRight,
                              semaVars, isrVars
    <3> QED BY <3>4, <3>5 DEF CoreInv
  <2>2. ASSUME NEW n \in 1 .. MaxTicks, DelayTick(t, n) PROVE CoreInv'
    BY <2>2, DelayTickKeeps
  <2>3. CASE DelayTickNoTimer(t)
    BY <2>3, DelayTickNoTimerKeeps
  <2>4. ASSUME NEW s \in Semas, SemaAcquire(t, s) PROVE CoreInv'
    BY <2>4, SemaAcquireKeeps
  <2>5. ASSUME NEW s \in Semas, NEW n \in (1 .. MaxTicks) \cup {Forever},
               SemaAcquireWait(t, s, n)
        PROVE  CoreInv'
    BY <2>5, SemaAcquireWaitKeeps
  <2>6. ASSUME NEW s \in Semas, SemaAcquireNoTimer(t, s) PROVE CoreInv'
    BY <2>6, SemaAcquireNoTimerKeeps
  <2>7. CASE SemaAcquireReturn(t)
    BY <2>7, SemaAcquireReturnKeeps
  <2>8. ASSUME NEW s \in Semas, SemaGive(t, s) PROVE CoreInv'
    BY <2>8, SemaGiveKeeps
  <2>9. ASSUME NEW s \in Semas, SemaDestroy(t, s) PROVE CoreInv'
    BY <2>9, SemaDestroyKeeps
  <2>10. CASE SemaDestroyWake(t)
    BY <2>10, SemaDestroyWakeKeeps
  <2>11. CASE SemaDestroyNoMore(t)
    BY <2>11, SemaDestroyNoMoreKeeps
  <2>12. CASE SemaDestroyFree(t)
    BY <2>12, SemaDestroyFreeKeeps
  <2>13. CASE Reschedule(t)
    BY <2>13, RescheduleKeeps
  <2> QED BY <1>2, <2>1, <2>2, <2>3, <2>4, <2>5, <2>6, <2>7, <2>8, <2>9, <2>10,
             <2>11, <2>12, <2>13 DEF ThreadStep
<1>3. ASSUME NEW s \in Semas, NEW n \in 0 .. MaxCount, SemaCreate(s, n) PROVE CoreInv'
  BY <1>3, SemaCreateKeeps
<1>4. CASE Tick
  BY <1>4, TickCountKeeps, PollTimerKeeps, CallbackKeeps, DeleteTimerKeeps,
     TickExitKeeps DEF Tick
<1>5. CASE Irq
  BY <1>5, IrqGiveKeeps, IrqAcquireKeeps, IrqExitKeeps DEF Irq
<1>6. CASE UNCHANGED vars
  BY <1>6, CoreFromParts DEF vars, tcbVars, semaVars, isrVars
<1> QED BY <1>1, <1>2, <1>3, <1>4, <1>5, <1>6 DEF Next

\* The invariant holds in every state the kernel can reach.
THEOREM CoreInvariant ==
    ASSUME IdleAlone
    PROVE  Spec => []CoreInv
<1>1. CoreInv /\ [Next]_vars => CoreInv'
  BY StepCore
<1> QED BY InitCore, <1>1, PTL DEF Spec

-----------------------------------------------------------------------------
(* What follows from it. *)

\* Every variable keeps its type, whatever threads, interrupts and ticks do:
\* TypeOK of the runs.
THEOREM TypeCorrect ==
    ASSUME IdleAlone
    PROVE  Spec => []TypeOK
<1>1. CoreInv => TypeOK
  BY DEF CoreInv
<1> QED BY CoreInvariant, <1>1, PTL

\* The cached highest priority of the ready queue and of every wait list is
\* right after every operation of sugar_prior_vector.c and
\* sugar_prior_llist.c, in any order: CachesAreRight of the runs.
THEOREM CachesStayRight ==
    ASSUME IdleAlone
    PROVE  Spec => []CachesAreRight
<1>1. CoreInv => CachesAreRight
  BY DEF CoreInv, QueuesInv, RightReady, RightWaiting, CachesAreRight
<1> QED BY CoreInvariant, <1>1, PTL

\* Once started, the scheduler always has a thread to give the core to, and
\* idle is current or ready (sugar_scheduler.c:130): AlwaysAThread of the runs.
THEOREM SchedulerFindsAThread ==
    ASSUME IdleAlone
    PROVE  Spec => []AlwaysAThread
<1>1. ASSUME CoreInv PROVE AlwaysAThread
  <2>1. started => current \in Threads
    BY <1>1 DEF CoreInv, CoreOwned
  <2>2. ASSUME current # Idle PROVE Queued(ready, Idle)
    <3>1. ready.fifo[IdlePriority] = <<Idle>> /\ IdlePriority \in Priorities
      BY <1>1, <2>2, PrioritiesAreSmall DEF CoreInv, QueuesInv, IdleIsThere
    <3>2. Contains(<<Idle>>, Idle)
      BY DEF Contains
    <3> QED BY <3>1, <3>2 DEF Queued
  <2> QED BY <2>1, <2>2 DEF AlwaysAThread
<1> QED BY CoreInvariant, <1>1, PTL

-----------------------------------------------------------------------------
(* Nobody waits for a token that is there.                                  *)

\* A step that takes threads off wait lists, at most, and changes no count.
WaitsOnlyEnd ==
    /\ UNCHANGED count
    /\ \A s \in Semas : /\ phase'[s] # "freed" => phase[s] # "freed"
                        /\ IsEmpty(waiting[s]) => IsEmpty(waiting'[s])

LEMMA WaitsOnlyEndKeeps ==
    ASSUME NoWaiterWhileCount, WaitsOnlyEnd
    PROVE  NoWaiterWhileCount'
  BY DEF NoWaiterWhileCount, WaitsOnlyEnd

\* A step that touches neither counts nor wait lists nor the semaphores' life.
LEMMA QuietStep ==
    ASSUME UNCHANGED <<count, waiting, phase>>
    PROVE  WaitsOnlyEnd
  BY DEF WaitsOnlyEnd

LEMMA OneWaitListShrinks ==
    ASSUME WaitingRight, NEW s \in Semas, UNCHANGED <<count, phase>>,
           \/ waiting' = [waiting EXCEPT ![s] = Pop(waiting[s])]
           \/ \E t \in Threads : waiting' = [waiting EXCEPT ![s] = Take(waiting[s], t)]
    PROVE  WaitsOnlyEnd
<1>1. waiting[s] \in PriorQueue
  BY DEF WaitingRight
<1>2. IsEmpty(waiting[s]) => IsEmpty(waiting'[s])
  BY <1>1, EmptyStaysEmpty DEF WaitingRight
<1> QED BY <1>2 DEF WaitsOnlyEnd, WaitingRight

LEMMA GiveCounts ==
    ASSUME CoreInv, NoWaiterWhileCount, NEW s \in Semas,
           (\E w \in Threads : HandOver(s, w)) \/ Increment(s)
    PROVE  NoWaiterWhileCount'
<1>1. CASE \E w \in Threads : HandOver(s, w)
  <2>1. WaitsOnlyEnd
    BY <1>1, PartsOfCore, OneWaitListShrinks DEF HandOver
  <2> QED BY <2>1, WaitsOnlyEndKeeps
<1>2. CASE Increment(s)
  <2>1. /\ IsEmpty(waiting[s]) /\ waiting' = waiting /\ phase' = phase
        /\ \A x \in Semas \ {s} : count'[x] = count[x]
    BY <1>2, PartsOfCore DEF Increment, CountsRight
  <2> QED BY <2>1 DEF NoWaiterWhileCount
<1> QED BY <1>1, <1>2

LEMMA TakeCountCounts ==
    ASSUME CoreInv, NoWaiterWhileCount, NEW s \in Semas, TakeCount(s)
    PROVE  NoWaiterWhileCount'
<1>1. /\ count[s] # 0 /\ phase[s] = "live"
      /\ waiting' = waiting /\ phase' = phase
      /\ \A x \in Semas \ {s} : count'[x] = count[x]
  BY PartsOfCore DEF TakeCount, CountsRight
<1>2. IsEmpty(waiting[s])
  BY <1>1 DEF NoWaiterWhileCount
<1> QED BY <1>1, <1>2 DEF NoWaiterWhileCount

LEMMA StepCounts ==
    ASSUME CoreInv, NoWaiterWhileCount, [Next]_vars
    PROVE  NoWaiterWhileCount'
<1>1. CASE Boot
  BY <1>1, QuietStep, WaitsOnlyEndKeeps
     DEF Boot, CreateBeforeStart, Enqueue, KernelStart, semaVars
<1>2. ASSUME NEW t \in Threads, ThreadStep(t) PROVE NoWaiterWhileCount'
  <2>1. ASSUME \/ \E new \in Threads : ThreadCreate(t, new)
               \/ \E n \in 1 .. MaxTicks : DelayTick(t, n)
               \/ DelayTickNoTimer(t) \/ SemaAcquireReturn(t)
               \/ SemaDestroyNoMore(t) \/ Reschedule(t)
        PROVE  NoWaiterWhileCount'
    BY <2>1, QuietStep, WaitsOnlyEndKeeps
       DEF ThreadCreate, Enqueue, DelayTick, DelayTickNoTimer, SemaAcquireReturn,
           SemaDestroyNoMore, Reschedule, semaVars
  <2>2. ASSUME NEW s \in Semas, SemaAcquire(t, s) PROVE NoWaiterWhileCount'
    BY <2>2, TakeCountCounts DEF SemaAcquire
  <2>3. ASSUME NEW s \in Semas, NEW n \in (1 .. MaxTicks) \cup {Forever},
               SemaAcquireWait(t, s, n)
        PROVE  NoWaiterWhileCount'
    <3>1. /\ count[s] = 0 /\ count' = count /\ phase' = phase
          /\ \A x \in Semas \ {s} : waiting'[x] = waiting[x]
      BY <2>3, PartsOfCore DEF SemaAcquireWait, WaitingRight
    <3> QED BY <3>1 DEF NoWaiterWhileCount
  <2>4. ASSUME NEW s \in Semas, SemaAcquireNoTimer(t, s) PROVE NoWaiterWhileCount'
    <3>1. /\ count[s] = 0 /\ count' = count /\ phase' = phase
          /\ \A x \in Semas \ {s} : waiting'[x] = waiting[x]
      BY <2>4, PartsOfCore DEF SemaAcquireNoTimer, WaitingRight
    <3> QED BY <3>1 DEF NoWaiterWhileCount
  <2>5. ASSUME NEW s \in Semas, SemaGive(t, s) PROVE NoWaiterWhileCount'
    BY <2>5, GiveCounts DEF SemaGive
  <2>6. ASSUME NEW s \in Semas, SemaDestroy(t, s) PROVE NoWaiterWhileCount'
    <3>1. WaitsOnlyEnd
      BY <2>6, PartsOfCore DEF SemaDestroy, WaitsOnlyEnd, CountsRight
    <3> QED BY <3>1, WaitsOnlyEndKeeps
  <2>7. CASE SemaDestroyWake(t)
    <3>1. call[t].sema \in Semas
      BY <2>7, PartsOfCore DEF SemaDestroyWake, At, CallsRight, CallsInv
    <3>2. WaitsOnlyEnd
      BY <2>7, <3>1, PartsOfCore, OneWaitListShrinks DEF SemaDestroyWake
    <3> QED BY <3>2, WaitsOnlyEndKeeps
  <2>8. CASE SemaDestroyFree(t)
    <3>1. WaitsOnlyEnd
      BY <2>8, PartsOfCore DEF SemaDestroyFree, WaitsOnlyEnd, CountsRight
    <3> QED BY <3>1, WaitsOnlyEndKeeps
  <2> QED BY <1>2, <2>1, <2>2, <2>3, <2>4, <2>5, <2>6, <2>7, <2>8 DEF ThreadStep
<1>3. ASSUME NEW s \in Semas, NEW n \in 0 .. MaxCount, SemaCreate(s, n)
      PROVE  NoWaiterWhileCount'
  <2>1. IsEmpty(EmptyQueue)
    BY DEF IsEmpty, EmptyQueue
  <2>2. /\ waiting'[s] = EmptyQueue
        /\ \A x \in Semas \ {s} : /\ waiting'[x] = waiting[x]
                                 /\ count'[x] = count[x] /\ phase'[x] = phase[x]
    BY <1>3, PartsOfCore DEF SemaCreate, WaitingRight, CountsRight
  <2> QED BY <2>1, <2>2 DEF NoWaiterWhileCount
<1>4. CASE Tick
  <2>1. CASE TickCount \/ PollTimer \/ DeleteTimer \/ TickExit
    BY <2>1, QuietStep, WaitsOnlyEndKeeps
       DEF TickCount, PollTimer, DeleteTimer, TickExit, semaVars
  <2>2. CASE Callback
    <3>1. /\ tick.timer.tcb \in Threads
          /\ tick.timer.kind = "sema" => tick.timer.sema \in Semas
      BY <2>2, PartsOfCore DEF Callback, TickIsAt, TickRight, TimerRecord, RightTimer
    <3>2. WaitsOnlyEnd
      <4>1. CASE tick.timer.kind = "sema"
        BY <2>2, <3>1, <4>1, PartsOfCore, OneWaitListShrinks DEF Callback
      <4>2. CASE tick.timer.kind # "sema"
        BY <2>2, <4>2, QuietStep DEF Callback
      <4> QED BY <4>1, <4>2
    <3> QED BY <3>2, WaitsOnlyEndKeeps
  <2> QED BY <1>4, <2>1, <2>2 DEF Tick
<1>5. CASE Irq
  <2>1. ASSUME NEW s \in Semas, IrqGive(s) PROVE NoWaiterWhileCount'
    BY <2>1, GiveCounts DEF IrqGive
  <2>2. ASSUME NEW s \in Semas, IrqAcquire(s) PROVE NoWaiterWhileCount'
    BY <2>2, TakeCountCounts DEF IrqAcquire
  <2>3. CASE IrqExit
    BY <2>3, QuietStep, WaitsOnlyEndKeeps DEF IrqExit, semaVars
  <2> QED BY <1>5, <2>1, <2>2, <2>3 DEF Irq
<1>6. CASE UNCHANGED vars
  BY <1>6, QuietStep, WaitsOnlyEndKeeps DEF vars, semaVars
<1> QED BY <1>1, <1>2, <1>3, <1>4, <1>5, <1>6 DEF Next

\* As long as a semaphore has tokens nobody waits for it, whoever gives,
\* acquires, destroys or times out: NoWaiterWhileCount of the runs.
THEOREM NobodyWaitsForACount ==
    ASSUME IdleAlone
    PROVE  Spec => []NoWaiterWhileCount
<1>1. Init => NoWaiterWhileCount
  BY DEF Init, NoWaiterWhileCount
<1>2. CoreInv /\ NoWaiterWhileCount /\ [Next]_vars => NoWaiterWhileCount'
  BY StepCounts
<1> QED BY CoreInvariant, <1>1, <1>2, PTL DEF Spec

-----------------------------------------------------------------------------
(* The core is with a thread of the highest priority.                       *)

\* No FIFO of a higher priority has a TCB.
Best(t, q) == \A p \in Priorities : q.fifo[p] # <<>> => Prio[t] <= p

\* The thread that has the core may go on for long from here: it is out of the
\* kernel, or on its way out without another look at the scheduler.
GoesOn(c) == c.at \in {"app", "woken"} \/ (c.at \in {"destroying", "freeing"} /\ ~c.woke)

MostUrgentInv ==
    started /\ tick.at = "off" /\ irq = "off" /\ GoesOn(call[current]) => Best(current, ready)

LEMMA ForemostIsBest ==
    ASSUME NEW q, RightReady(q)
    PROVE  /\ Foremost(q) # NULL => Best(Foremost(q), q)
           /\ Foremost(q) = NULL => \A p \in Priorities : q.fifo[p] = <<>>
<1>1. /\ q \in PriorQueue /\ q.highest \in Priorities /\ NamesTheHighest(q.fifo, q.highest)
  BY CacheIsRight DEF RightReady, PriorQueue
<1>2. CASE Foremost(q) # NULL
  <2>1. q.fifo[q.highest] # <<>> /\ Foremost(q) = Head(q.fifo[q.highest])
    BY <1>2 DEF Foremost
  <2>2. q.fifo[q.highest] \in Seq(Threads)
    BY <1>1 DEF PriorQueue
  <2>3. 1 \in DOMAIN q.fifo[q.highest] /\ Head(q.fifo[q.highest]) = q.fifo[q.highest][1]
    BY <2>1, <2>2
  <2>4. Prio[Foremost(q)] = q.highest
    BY <1>1, <2>1, <2>3 DEF RightReady, Filed
  <2> QED BY <1>1, <1>2, <2>4 DEF Best, NamesTheHighest
<1>3. CASE Foremost(q) = NULL
  BY <1>1, <1>3, PopProperties DEF RightReady
<1> QED BY <1>2, <1>3

\* Popping leaves, and pushing adds, what one would think.
LEMMA StillBest ==
    ASSUME IdleAlone, NEW q, RightReady(q), Foremost(q) # NULL, NEW t \in Threads, Best(t, q)
    PROVE  /\ Best(t, Pop(q))
           /\ \A u \in Threads : Prio[t] <= Prio[u] => Best(t, PushIfRoom(Pop(q), u))
<1>1. Pop(q) \in PriorQueue
  BY PopProperties DEF RightReady
<1>2. Best(t, Pop(q))
  <2> DEFINE h == Prio[Foremost(q)]
  <2>1. q.fifo[h] # <<>> /\ \A p \in Priorities \ {h} : Pop(q).fifo[p] = q.fifo[p]
    BY PopProperties DEF RightReady
  <2> HIDE DEF h
  <2> QED BY <2>1 DEF Best
<1>3. ASSUME NEW u \in Threads, Prio[t] <= Prio[u] PROVE Best(t, PushIfRoom(Pop(q), u))
  <2>1. \A p \in Priorities \ {Prio[u]} : Push(Pop(q), u).fifo[p] = Pop(q).fifo[p]
    BY <1>1, PushProperties
  <2>2. Best(t, Push(Pop(q), u))
    BY <1>2, <1>3, <2>1 DEF Best
  <2> QED BY <1>2, <2>2 DEF PushIfRoom
<1> QED BY <1>2, <1>3

\* Whatever its caller, the scheduler gives the core to the right thread.
LEMMA SchedulerIsRight ==
    ASSUME IdleAlone, NEW b \in BOOLEAN, Scheduler(b), RightReady(ready),
           IdleIsThere(current, ready), current \in Threads, state[Idle] # "SUSPEND"
    PROVE  Best(current', ready')
<1> DEFINE f == Foremost(ready)
<1>1. f # NULL => f \in Threads /\ Best(f, ready)
  BY PopKeeps, ForemostIsBest
<1>2. \A t \in Threads : Prio[t] \in Int
  BY PrioritiesAreSmall, PrioritiesAreNumbers
<1>3. CASE SwitchFromSuspended
  <2>1. current # Idle /\ ready.fifo[IdlePriority] = <<Idle>>
    BY <1>3 DEF SwitchFromSuspended, IdleIsThere
  <2>2. f # NULL
    BY <2>1, PrioritiesAreSmall, PopProperties DEF RightReady
  <2>3. current' = f /\ ready' = Pop(ready)
    BY <1>3 DEF SwitchFromSuspended, SwitchTo
  <2> QED BY <1>1, <2>2, <2>3, StillBest
<1>4. CASE Preempt(b)
  <2>1. /\ f # NULL /\ current' = f /\ ready' = PushIfRoom(Pop(ready), current)
        /\ Prio[f] <= Prio[current]
    BY <1>1, <1>2, <1>4 DEF Preempt, Preempts, SwitchTo
  <2> QED BY <1>1, <2>1, StillBest
<1>5. CASE KeepCurrent(b)
  <2>1. current' = current
    BY <1>5 DEF KeepCurrent
  <2>2. CASE f = NULL
    BY <1>5, <2>1, <2>2, ForemostIsBest DEF KeepCurrent, Best
  <2>3. CASE f # NULL
    <3>1. ready' = PushIfRoom(Pop(ready), f) /\ Prio[current] <= Prio[f]
      BY <1>1, <1>2, <1>5, <2>3 DEF KeepCurrent, Preempts
    <3>2. Best(current, ready)
      <4>1. ASSUME NEW p \in Priorities, ready.fifo[p] # <<>> PROVE Prio[current] <= p
        <5>1. Prio[f] <= p /\ p \in Int /\ Prio[f] \in Int /\ Prio[current] \in Int
          BY <1>1, <1>2, <2>3, <4>1, PrioritiesAreNumbers DEF Best
        <5> QED BY <3>1, <5>1
      <4> QED BY <4>1 DEF Best
    <3> QED BY <1>1, <2>1, <2>3, <3>1, <3>2, StillBest
  <2> QED BY <2>2, <2>3
<1> QED BY <1>3, <1>4, <1>5 DEF Scheduler

\* A step that leaves the core and the ready queue alone, and lets no thread go
\* on that has not done so before.
LEMMA CoreLeftAlone ==
    ASSUME MostUrgentInv, UNCHANGED <<current, ready>>,
           started' /\ tick'.at = "off" /\ irq' = "off" /\ GoesOn(call'[current]) =>
              started /\ tick.at = "off" /\ irq = "off" /\ GoesOn(call[current])
    PROVE  MostUrgentInv'
  BY DEF MostUrgentInv, GoesOn, Best

LEMMA ThreadStepIsUrgent ==
    ASSUME IdleAlone, CoreInv, MostUrgentInv, NEW t \in Threads, ThreadStep(t)
    PROVE  MostUrgentInv'
<1>0. call \in [Threads -> Calls]
  BY PartsOfCore DEF CallsRight
<1>2. ASSUME NEW point \in {"resched", "suspended"}, Goto(t, point), current' = t
      PROVE  MostUrgentInv'
  <2>1. call'[t].at = point
    BY <1>0, <1>2 DEF Goto, Calls
  <2> QED BY <1>2, <2>1 DEF MostUrgentInv, GoesOn
<1>3. ASSUME InThread(t), UNCHANGED <<current, ready, call>> PROVE MostUrgentInv'
  BY <1>3, CoreLeftAlone DEF InThread
<1>4. ASSUME NEW new \in Threads, ThreadCreate(t, new) PROVE MostUrgentInv'
  BY <1>2, <1>4 DEF ThreadCreate, Enqueue, Calling, At, InThread
<1>5. ASSUME NEW n \in 1 .. MaxTicks, DelayTick(t, n) PROVE MostUrgentInv'
  BY <1>2, <1>5 DEF DelayTick, Calling, At, InThread
<1>6. ASSUME DelayTickNoTimer(t) \/ \E s \in Semas : SemaAcquire(t, s) \/ SemaAcquireNoTimer(t, s)
      PROVE  MostUrgentInv'
  BY <1>3, <1>6 DEF DelayTickNoTimer, SemaAcquire, SemaAcquireNoTimer, Calling, At
<1>7. ASSUME NEW s \in Semas, NEW n \in (1 .. MaxTicks) \cup {Forever}, SemaAcquireWait(t, s, n)
      PROVE  MostUrgentInv'
  <2>1. call'[t].at = "suspended" /\ current' = t
    BY <1>0, <1>7 DEF SemaAcquireWait, Calling, At, InThread, Calls
  <2> QED BY <2>1 DEF MostUrgentInv, GoesOn
<1>8. CASE SemaAcquireReturn(t)
  <2>1. InThread(t) /\ call[t].at = "woken" /\ UNCHANGED <<current, ready>>
    BY <1>8 DEF SemaAcquireReturn, At
  <2> QED BY <2>1, CoreLeftAlone DEF InThread, GoesOn
<1>9. ASSUME NEW s \in Semas, SemaGive(t, s) PROVE MostUrgentInv'
  <2>1. InThread(t) /\ current' = current
    BY <1>9 DEF SemaGive, Calling, At, HandOver, Increment
  <2>2. CASE Goto(t, "resched")
    BY <1>2, <2>1, <2>2 DEF InThread
  <2>3. CASE ~Goto(t, "resched")
    <3>1. UNCHANGED <<ready, call>>
      <4>1. CASE Increment(s)
        BY <1>9, <2>3, <4>1 DEF SemaGive, Increment
      <4>2. ASSUME NEW w \in Threads, HandOver(s, w) PROVE UNCHANGED <<ready, call>>
        BY <1>9, <2>3, <4>2 DEF SemaGive, HandOver, Increment
      <4> QED BY <1>9, <4>1, <4>2 DEF SemaGive
    <3> QED BY <1>3, <2>1, <3>1
  <2> QED BY <2>2, <2>3
<1>10. ASSUME NEW s \in Semas, SemaDestroy(t, s) PROVE MostUrgentInv'
  <2>1. InThread(t) /\ call[t].at = "app" /\ UNCHANGED <<current, ready>>
    BY <1>10 DEF SemaDestroy, Calling, At
  <2> QED BY <2>1, CoreLeftAlone DEF InThread, GoesOn
<1>11. CASE SemaDestroyWake(t)
  <2>1. InThread(t) /\ call[t].at = "destroying" /\ current' = current /\ call[t] \in Calls
    BY <1>0, <1>11 DEF SemaDestroyWake, At
  <2>2. CASE call' = [call EXCEPT ![t].woke = TRUE]
    <3>1. call'[t].woke = TRUE /\ call'[t].at = "destroying"
      BY <1>0, <2>1, <2>2 DEF Calls
    <3> QED BY <2>1, <3>1 DEF MostUrgentInv, GoesOn, InThread
  <2>3. CASE Goto(t, "freeing") /\ UNCHANGED ready
    <3>1. call'[t].woke = call[t].woke /\ call'[t].at = "freeing"
      BY <1>0, <2>1, <2>3 DEF Goto, Calls
    <3> QED BY <2>1, <2>3, <3>1, CoreLeftAlone DEF GoesOn, InThread
  <2> QED BY <1>11, <2>2, <2>3 DEF SemaDestroyWake
<1>12. CASE SemaDestroyNoMore(t)
  <2>1. /\ InThread(t) /\ call[t].at = "destroying" /\ UNCHANGED <<current, ready>>
        /\ call'[t].woke = call[t].woke /\ call'[t].at = "freeing"
    BY <1>0, <1>12 DEF SemaDestroyNoMore, At, Goto, Calls
  <2> QED BY <2>1, CoreLeftAlone DEF GoesOn, InThread
<1>13. CASE SemaDestroyFree(t)
  <2>1. InThread(t) /\ call[t].at = "freeing" /\ UNCHANGED <<current, ready>>
    BY <1>13 DEF SemaDestroyFree, At
  <2>2. CASE call[t].woke
    BY <1>2, <1>13, <2>1, <2>2 DEF SemaDestroyFree, InThread
  <2>3. CASE ~call[t].woke
    BY <2>1, <2>3, CoreLeftAlone DEF GoesOn, InThread
  <2> QED BY <2>2, <2>3
<1>14. CASE Reschedule(t)
  <2>1. Best(current', ready')
    BY <1>14, PartsOfCore, SchedulerIsRight DEF Reschedule, InThread, ThreadsRight
  <2> QED BY <2>1 DEF MostUrgentInv
<1> QED BY <1>4, <1>5, <1>6, <1>7, <1>8, <1>9, <1>10, <1>11, <1>12, <1>13, <1>14 DEF ThreadStep

LEMMA StepIsUrgent ==
    ASSUME IdleAlone, CoreInv, MostUrgentInv, [Next]_vars
    PROVE  MostUrgentInv'
<1>1. CASE Boot
  <2>1. CASE KernelStart
    <3>1. current = NULL /\ current' = Foremost(ready) /\ ready' = Pop(ready)
      BY <2>1 DEF KernelStart, CoreInv, CoreOwned
    <3>2. ready.fifo[IdlePriority] = <<Idle>>
      BY <3>1, IdleFacts, PartsOfCore DEF IdleIsThere
    <3>3. RightReady(ready) /\ Foremost(ready) # NULL
      <4>1. RightReady(ready)
        BY PartsOfCore
      <4> QED BY <3>2, <4>1, PrioritiesAreSmall, PopProperties DEF RightReady
    <3>4. Foremost(ready) \in Threads /\ Best(Foremost(ready), ready)
      BY <3>3, PopKeeps, ForemostIsBest
    <3> QED BY <3>1, <3>3, <3>4, StillBest DEF MostUrgentInv
  <2>2. CASE \E t \in Threads : CreateBeforeStart(t)
    BY <2>2 DEF CreateBeforeStart, Enqueue, MostUrgentInv
  <2> QED BY <1>1, <2>1, <2>2 DEF Boot
<1>2. CASE \E t \in Threads : ThreadStep(t)
  BY <1>2, ThreadStepIsUrgent
<1>3. CASE \E s \in Semas, n \in 0 .. MaxCount : SemaCreate(s, n)
  BY <1>3, CoreLeftAlone DEF SemaCreate, isrVars
<1>4. CASE Tick
  <2>1. CASE TickCount \/ PollTimer \/ Callback \/ DeleteTimer
    <3>1. tick'.at # "off"
      BY <2>1, PartsOfCore DEF TickCount, PollTimer, Callback, DeleteTimer, TickIsAt, TickOff, TickRight
    <3> QED BY <3>1 DEF MostUrgentInv
  <2>2. CASE TickExit
    <3>1. started /\ current \in Threads
      BY <2>2, PartsOfCore DEF TickExit, TickIsAt, TickRight, CoreInv, CoreOwned
    <3>2. Best(current', ready')
      BY <2>2, <3>1, PartsOfCore, SchedulerIsRight DEF TickExit, ThreadsRight
    <3> QED BY <3>2 DEF MostUrgentInv
  <2> QED BY <1>4, <2>1, <2>2 DEF Tick
<1>5. CASE Irq
  <2>1. CASE \E s \in Semas : IrqGive(s) \/ IrqAcquire(s)
    <3>1. irq' = "exit"
      BY <2>1 DEF IrqGive, IrqAcquire
    <3> QED BY <3>1 DEF MostUrgentInv
  <2>2. CASE IrqExit
    <3>1. started /\ current \in Threads
      BY <2>2, PartsOfCore DEF IrqExit, TickRight, CoreInv, CoreOwned
    <3>2. Best(current', ready')
      BY <2>2, <3>1, PartsOfCore, SchedulerIsRight DEF IrqExit, ThreadsRight
    <3> QED BY <3>2 DEF MostUrgentInv
  <2> QED BY <1>5, <2>1, <2>2 DEF Irq
<1>6. CASE UNCHANGED vars
  BY <1>6, CoreLeftAlone DEF vars, isrVars
<1> QED BY <1>1, <1>2, <1>3, <1>4, <1>5, <1>6 DEF Next

\* A thread that is out of the kernel, with no interrupt active, has the core
\* because no ready thread is of a higher priority: every path that makes one
\* ready reaches the scheduler.  NoPriorityInversion of the runs.
THEOREM TheMostUrgentRuns ==
    ASSUME IdleAlone
    PROVE  Spec => []NoPriorityInversion
<1>1. Init => MostUrgentInv
  BY DEF Init, MostUrgentInv
<1>2. CoreInv /\ MostUrgentInv /\ [Next]_vars => MostUrgentInv'
  BY StepIsUrgent
<1>3. ASSUME CoreInv, MostUrgentInv PROVE NoPriorityInversion
  <2> SUFFICES ASSUME NEW t \in Threads, At(t, "app"), NEW u \in Threads, Queued(ready, u)
               PROVE  Prio[t] <= Prio[u]
    BY DEF NoPriorityInversion
  <2>1. Best(t, ready)
    BY <1>3 DEF MostUrgentInv, At, InThread, GoesOn
  <2>2. PICK p \in Priorities : Contains(ready.fifo[p], u)
    BY DEF Queued
  <2>3. ready.fifo[p] \in Seq(Threads) /\ Filed(ready)
    BY <1>3 DEF CoreInv, QueuesInv, RightReady, PriorQueue
  <2>4. PICK i \in 1 .. Len(ready.fifo[p]) : ready.fifo[p][i] = u
    BY <2>2 DEF Contains
  <2>5. i \in DOMAIN ready.fifo[p] /\ ready.fifo[p] # <<>> /\ Prio[u] = p
    BY <2>3, <2>4 DEF Filed
  <2> QED BY <2>1, <2>5 DEF Best
<1> QED BY CoreInvariant, <1>1, <1>2, <1>3, PTL DEF Spec
=============================================================================
