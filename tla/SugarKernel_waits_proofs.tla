--------------------- MODULE SugarKernel_waits_proofs ----------------------
(***************************************************************************)
(* For every set of threads, priorities, semaphores, blocks and            *)
(* capacities, where device interrupts do not preempt the tick interrupt:  *)
(* no thread is on two of the kernel's queues, nor on one while it runs    *)
(* (AtMostOnePlace).  Where every FIFO of the ready queue holds all        *)
(* threads of its priority as well: timeouts belong to waits, a thread is  *)
(* woken once, nobody is left on a freed semaphore, no token is lost or    *)
(* made twice and, if the timer table has room too, no thread is lost.     *)
(*                                                                         *)
(* PlacesInv adds to the places of a thread what will put it on the ready  *)
(* queue later: a timer whose callback is still to be run.  Such a timer   *)
(* is the one its thread points at (suspend_timer), which is why give and  *)
(* destroy, that delete by that pointer, leave no alarm set for a thread   *)
(* that they have made ready.                                              *)
(*                                                                         *)
(* WaitsInv is the converse: what is in one place has its counterpart in   *)
(* another - a timeout has its waiter, a timed waiter its timeout, a       *)
(* waiter its call - and stays there until the step that moves the thread. *)
(*                                                                         *)
(* Tokens: a waiter becomes a holder only by the step that adds to what    *)
(* was put in, and stops being one only by its return from acquire: that   *)
(* the late timeout of a thread that has gone on, or the list of another   *)
(* semaphore, never touches a holder is WaitsInv.                          *)
(***************************************************************************)
EXTENDS SugarKernel_proofs, FiniteSetTheorems

-----------------------------------------------------------------------------
(* One place for a thread. *)

\* Every TCB of a queue is in it once.
Once(q) == \A p \in Priorities : \A i, j \in DOMAIN q.fifo[p] :
               q.fifo[p][i] = q.fifo[p][j] => i = j

\* A sequence of different elements.
AllDiffer(s) == \A i, j \in DOMAIN s : s[i] = s[j] => i = j

-----------------------------------------------------------------------------
(* What the queues do to TCBs that are in them once. *)

LEMMA AppendOnce ==
    ASSUME NEW S, NEW s \in Seq(S), NEW e \in S, AllDiffer(s), \A i \in DOMAIN s : s[i] # e
    PROVE  AllDiffer(Append(s, e))
<1>1. Len(s) \in Nat /\ DOMAIN s = 1 .. Len(s)
  BY LenProperties
<1>2. /\ Append(s, e) \in Seq(S)
      /\ Len(Append(s, e)) = Len(s) + 1
      /\ \A i \in 1 .. Len(s) : Append(s, e)[i] = s[i]
      /\ Append(s, e)[Len(s) + 1] = e
  BY AppendProperties
<1>3. DOMAIN Append(s, e) = 1 .. Len(s) + 1
  BY <1>2, LenProperties
<1> DEFINE r == Append(s, e)
<1> HIDE DEF r
<1>4. \A i \in 1 .. Len(s) + 1 : i \in 1 .. Len(s) \/ i = Len(s) + 1
  BY <1>1
<1> QED BY <1>1, <1>2, <1>3, <1>4 DEF AllDiffer, r

LEMMA RemoveAtOnce ==
    ASSUME NEW S, NEW s \in Seq(S), NEW k \in 1 .. Len(s), AllDiffer(s)
    PROVE  /\ AllDiffer(RemoveAt(s, k))
           /\ \A i \in DOMAIN RemoveAt(s, k) : RemoveAt(s, k)[i] # s[k]
<1>1. Len(s) \in Nat /\ DOMAIN s = 1 .. Len(s)
  BY LenProperties
<1>2. /\ RemoveAt(s, k) \in Seq(S)
      /\ Len(RemoveAt(s, k)) = Len(s) - 1
      /\ \A i \in 1 .. Len(RemoveAt(s, k)) :
            RemoveAt(s, k)[i] = IF i < k THEN s[i] ELSE s[i + 1]
  BY RemoveAtElements
<1>3. DOMAIN RemoveAt(s, k) = 1 .. Len(s) - 1
  BY <1>2, LenProperties
<1> DEFINE at(i) == IF i < k THEN i ELSE i + 1
<1>4. ASSUME NEW i \in 1 .. Len(s) - 1
      PROVE  at(i) \in 1 .. Len(s) \ {k} /\ RemoveAt(s, k)[i] = s[at(i)]
  <2>1. at(i) \in 1 .. Len(s) \ {k}
    BY <1>1
  <2>2. i \in 1 .. Len(RemoveAt(s, k))
    BY <1>2
  <2>3. RemoveAt(s, k)[i] = IF i < k THEN s[i] ELSE s[i + 1]
    BY ONLY <1>2, <2>2
  <2> QED BY <2>1, <2>3
<1>5. ASSUME NEW i \in 1 .. Len(s) - 1, NEW j \in 1 .. Len(s) - 1, at(i) = at(j)
      PROVE  i = j
  BY <1>1, <1>5
<1> HIDE DEF at
<1>6. \A i, j \in 1 .. Len(s) : i # j => s[i] # s[j]
  BY <1>1 DEF AllDiffer
<1>7. ASSUME NEW i \in 1 .. Len(s) - 1, NEW j \in 1 .. Len(s) - 1, i # j
      PROVE  RemoveAt(s, k)[i] # RemoveAt(s, k)[j]
  BY <1>4, <1>5, <1>6, <1>7
<1>8. ASSUME NEW i \in 1 .. Len(s) - 1
      PROVE  RemoveAt(s, k)[i] # s[k]
  BY <1>4, <1>6
<1> QED BY <1>3, <1>7, <1>8 DEF AllDiffer

LEMMA RemoveFirstOnce ==
    ASSUME NEW S, NEW s \in Seq(S), NEW e, AllDiffer(s)
    PROVE  /\ AllDiffer(RemoveFirst(s, e))
           /\ \A i \in DOMAIN RemoveFirst(s, e) : RemoveFirst(s, e)[i] # e
<1>1. CASE \E i \in 1 .. Len(s) : s[i] = e
  <2> DEFINE I == {i \in 1 .. Len(s) : s[i] = e}
             k == Min(I)
  <2>0. I \subseteq Nat /\ I # {}
    BY <1>1
  <2>1. k \in 1 .. Len(s) /\ s[k] = e
    <3> HIDE DEF I
    <3>1. k \in I
      BY <2>0, MinOfNaturals
    <3> QED BY <3>1 DEF I
  <2>2. RemoveFirst(s, e) = RemoveAt(s, k)
    BY <1>1 DEF RemoveFirst, SelectInSeq
  <2> HIDE DEF k
  <2> QED BY <2>1, <2>2, RemoveAtOnce
<1>2. CASE ~ \E i \in 1 .. Len(s) : s[i] = e
  <2>1. RemoveFirst(s, e) = s /\ DOMAIN s = 1 .. Len(s)
    BY <1>2, LenProperties DEF RemoveFirst
  <2> QED BY <1>2, <2>1
<1> QED BY <1>1, <1>2

LEMMA TailOnce ==
    ASSUME NEW S, NEW s \in Seq(S), s # <<>>, AllDiffer(s)
    PROVE  AllDiffer(Tail(s)) /\ \A i \in DOMAIN Tail(s) : Tail(s)[i] # Head(s)
<1>1. /\ Len(s) \in Nat /\ DOMAIN s = 1 .. Len(s) /\ Len(s) # 0
      /\ Head(s) = s[1]
  BY LenProperties, EmptySeq
<1>2. /\ Tail(s) \in Seq(S) /\ Len(Tail(s)) = Len(s) - 1
      /\ \A i \in 1 .. Len(Tail(s)) : Tail(s)[i] = s[i + 1]
  BY HeadTailProperties
<1>3. DOMAIN Tail(s) = 1 .. Len(s) - 1
  BY <1>2, LenProperties
<1>4. \A i \in 1 .. Len(s) - 1 : i + 1 \in 1 .. Len(s) /\ i + 1 # 1
  BY <1>1
<1>5. 1 \in 1 .. Len(s)
  BY <1>1
<1>6. \A i, j \in 1 .. Len(s) - 1 : i + 1 = j + 1 => i = j
  BY <1>1
<1> QED BY <1>1, <1>2, <1>3, <1>4, <1>5, <1>6 DEF AllDiffer

LEMMA OnceByFifo ==
    ASSUME NEW q
    PROVE  Once(q) <=> \A p \in Priorities : AllDiffer(q.fifo[p])
BY DEF Once, AllDiffer

\* A TCB that was nowhere in the queue may be pushed.
LEMMA PushOnce ==
    ASSUME NEW q \in PriorQueue, NEW t \in Threads, Once(q), Absent(q, t)
    PROVE  Once(Push(q, t)) /\ Once(PushIfRoom(q, t))
<1>1. Prio[t] \in Priorities /\ q.fifo[Prio[t]] \in Seq(Threads)
  BY PrioritiesAreSmall DEF PriorQueue
<1>2. AllDiffer(Append(q.fifo[Prio[t]], t))
  BY <1>1, AppendOnce, OnceByFifo DEF Absent
<1>3. \A p \in Priorities : AllDiffer(Push(q, t).fifo[p])
  <2>1. \A p \in Priorities \ {Prio[t]} : AllDiffer(Push(q, t).fifo[p])
    BY PushProperties, OnceByFifo
  <2>2. Push(q, t).fifo[Prio[t]] = Append(q.fifo[Prio[t]], t)
    BY PushProperties
  <2>3. AllDiffer(Push(q, t).fifo[Prio[t]])
    BY <1>2, <2>2
  <2> QED BY <2>1, <2>3
<1>4. Once(Push(q, t))
  BY <1>3, OnceByFifo
<1> QED BY <1>4 DEF PushIfRoom

\* What is popped is gone.
LEMMA PopOnce ==
    ASSUME NEW q \in PriorQueue, Once(q), Filed(q)
    PROVE  /\ Once(Pop(q))
           /\ Foremost(q) # NULL => Absent(Pop(q), Foremost(q))
<1>1. CASE Foremost(q) = NULL
  BY <1>1, PopProperties
<1>2. CASE Foremost(q) # NULL
  <2> DEFINE f == Foremost(q)
             h == Prio[f]
  <2>1. /\ f \in Threads /\ h \in Priorities
        /\ q.fifo[h] # <<>> /\ Head(q.fifo[h]) = f
        /\ Pop(q).fifo[h] = Tail(q.fifo[h])
        /\ \A p \in Priorities \ {h} : Pop(q).fifo[p] = q.fifo[p]
    BY <1>2, PopProperties, PrioritiesAreSmall
  <2>2. q.fifo[h] \in Seq(Threads)
    BY <2>1 DEF PriorQueue
  <2>3. /\ AllDiffer(Pop(q).fifo[h])
        /\ \A i \in DOMAIN Pop(q).fifo[h] : Pop(q).fifo[h][i] # f
    BY <2>1, <2>2, TailOnce, OnceByFifo
  <2>4. \A p \in Priorities \ {h} : \A i \in DOMAIN q.fifo[p] : q.fifo[p][i] # f
    BY DEF Filed
  <2> HIDE DEF h, f
  <2>5. Once(Pop(q))
    <3>1. \A p \in Priorities : AllDiffer(Pop(q).fifo[p])
      BY <2>1, <2>3, OnceByFifo
    <3> QED BY <3>1, OnceByFifo
  <2>6. Absent(Pop(q), f)
    BY <2>1, <2>3, <2>4 DEF Absent
  <2> QED BY <2>5, <2>6 DEF f
<1> QED BY <1>1, <1>2

\* So is what is taken out.
LEMMA TakeOnce ==
    ASSUME NEW q \in PriorQueue, NEW t \in Threads, Once(q), Filed(q)
    PROVE  Once(Take(q, t)) /\ Absent(Take(q, t), t)
<1> DEFINE h == Prio[t]
           r == RemoveFirst(q.fifo[h], t)
<1>1. h \in Priorities /\ q.fifo \in [Priorities -> Seq(Threads)]
  BY PrioritiesAreSmall DEF PriorQueue
<1>2. Take(q, t).fifo = [q.fifo EXCEPT ![h] = r]
  BY DEF Take
<1>3. AllDiffer(r) /\ \A i \in DOMAIN r : r[i] # t
  BY <1>1, RemoveFirstOnce, OnceByFifo
<1>4. \A p \in Priorities \ {h} : \A i \in DOMAIN q.fifo[p] : q.fifo[p][i] # t
  BY DEF Filed
<1> HIDE DEF h, r
<1>5. \A p \in Priorities : Take(q, t).fifo[p] = IF p = h THEN r ELSE q.fifo[p]
  BY <1>1, <1>2
<1>6. Once(Take(q, t))
  <2>1. \A p \in Priorities : AllDiffer(Take(q, t).fifo[p])
    BY <1>3, <1>5, OnceByFifo
  <2> QED BY <2>1, OnceByFifo
<1>7. Absent(Take(q, t), t)
  BY <1>3, <1>4, <1>5 DEF Absent
<1> QED BY <1>6, <1>7

-----------------------------------------------------------------------------
(* The invariant. *)

\* A timer whose callback is still to be run.
Pending(v) == ~(tick.at = "delete" /\ tick.timer = v)

WaitsNowhere(t) == \A s \in Semas : Absent(waiting[s], t)
NoAlarm(t)      == \A i \in DOMAIN timers : Pending(timers[i]) => timers[i].tcb # t
Nowhere(t)      == Absent(ready, t) /\ WaitsNowhere(t) /\ NoAlarm(t)

\* The thread runs and has not just suspended itself, or is not created yet.
OffLists(t) ==
    \/ current = t /\ (state[t] # "SUSPEND" \/
                       call[t].at \in {"app", "woken", "destroying", "freeing"})
    \/ state[t] = "NONE"

\* An alarm is the one that the thread points at, and stands for its one wait.
AlarmFits(t, v) ==
    /\ timerOf[t] = v.id
    /\ \A s \in Semas : Absent(waiting[s], t) \/ (v.kind = "sema" /\ v.sema = s)

PlaceOK(t) ==
    /\ Absent(ready, t) \/ (WaitsNowhere(t) /\ NoAlarm(t))
    /\ \A s, r \in Semas : s = r \/ Absent(waiting[s], t) \/ Absent(waiting[r], t)
    /\ \A i \in DOMAIN timers :
          Pending(timers[i]) /\ timers[i].tcb = t => AlarmFits(t, timers[i])
    /\ OffLists(t) => Nowhere(t)
    /\ state[t] = "NONE" => current # t

\* No two timers share a block.
BlocksDiffer(ts) == \A i, j \in DOMAIN ts : ts[i].id = ts[j].id => i = j

ListsInv == Once(ready) /\ \A s \in Semas : Once(waiting[s]) /\ Filed(waiting[s])

AlarmsInv ==
    /\ BlocksDiffer(timers)
    /\ tick.at \in {"callback", "delete"} => \E i \in DOMAIN timers : timers[i] = tick.timer
    /\ irq = "exit" => tick.at = "off"

PlacesInv == ListsInv /\ AlarmsInv /\ \A t \in Threads : PlaceOK(t)

-----------------------------------------------------------------------------
(* Where a thread may be after a step. *)

\* No alarm is set for the thread that was not set before.
NoNewAlarm(t) ==
    \A i \in DOMAIN timers' : Pending(timers[i])' /\ timers'[i].tcb = t =>
        \E j \in DOMAIN timers :
            /\ Pending(timers[j]) /\ timers[j].tcb = t
            /\ timers'[i].id = timers[j].id
            /\ timers'[i].kind = timers[j].kind /\ timers'[i].sema = timers[j].sema

NoNewPlace(t) ==
    /\ Absent(ready, t) => Absent(ready', t)
    /\ \A s \in Semas : Absent(waiting[s], t) => Absent(waiting'[s], t)
    /\ NoNewAlarm(t)

\* A thread that a step puts nowhere new is where it may be.
LEMMA NothingNewKeeps ==
    ASSUME NEW t \in Threads, PlaceOK(t), NoNewPlace(t),
           timerOf'[t] = timerOf[t] \/ NoAlarm(t)',
           OffLists(t)' => OffLists(t), state'[t] = "NONE" => current' # t
    PROVE  PlaceOK(t)'
<1>1. WaitsNowhere(t) => WaitsNowhere(t)'
  BY DEF NoNewPlace, WaitsNowhere
<1>2. NoAlarm(t) => NoAlarm(t)'
  BY DEF NoNewPlace, NoNewAlarm, NoAlarm
<1>3. Absent(ready', t) \/ (WaitsNowhere(t)' /\ NoAlarm(t)')
  BY <1>1, <1>2 DEF PlaceOK, NoNewPlace
<1>4. \A s, r \in Semas : s = r \/ Absent(waiting'[s], t) \/ Absent(waiting'[r], t)
  BY DEF PlaceOK, NoNewPlace
<1>5. ASSUME NEW i \in DOMAIN timers', Pending(timers[i])', timers'[i].tcb = t
      PROVE  AlarmFits(t, timers[i])'
  <2>1. PICK j \in DOMAIN timers :
            /\ Pending(timers[j]) /\ timers[j].tcb = t
            /\ timers'[i].id = timers[j].id
            /\ timers'[i].kind = timers[j].kind /\ timers'[i].sema = timers[j].sema
    BY <1>5 DEF NoNewPlace, NoNewAlarm
  <2>2. AlarmFits(t, timers[j])
    BY <2>1 DEF PlaceOK
  <2>3. timerOf'[t] = timerOf[t]
    BY <1>5 DEF NoAlarm
  <2> QED BY <2>1, <2>2, <2>3 DEF AlarmFits, NoNewPlace
<1>6. OffLists(t)' => Nowhere(t)'
  BY <1>1, <1>2 DEF PlaceOK, Nowhere, NoNewPlace
<1> QED BY <1>3, <1>4, <1>5, <1>6 DEF PlaceOK

\* A thread may always be nowhere.
LEMMA NowhereKeeps ==
    ASSUME NEW t \in Threads, Nowhere(t)', state'[t] = "NONE" => current' # t
    PROVE  PlaceOK(t)'
BY DEF PlaceOK, Nowhere, WaitsNowhere, NoAlarm

\* A thread that neither runs nor waits nor sleeps may be ready.
LEMMA ReadyKeeps ==
    ASSUME NEW t \in Threads, WaitsNowhere(t)', NoAlarm(t)', ~OffLists(t)'
    PROVE  PlaceOK(t)'
<1>1. state'[t] # "NONE"
  BY DEF OffLists
<1> QED BY <1>1 DEF PlaceOK, WaitsNowhere, NoAlarm

-----------------------------------------------------------------------------
(* The timer table. *)

\* timer_delete takes out the timer of the block, and nothing else comes in.
LEMMA WithoutElements ==
    ASSUME RightTimers(timers), BlocksDiffer(timers), NEW id
    PROVE  /\ BlocksDiffer(Without(id))
           /\ \A i \in DOMAIN Without(id) : \E j \in DOMAIN timers :
                 Without(id)[i] = timers[j] /\ timers[j].id # id
<1> DEFINE I == {i \in 1 .. Len(timers) : timers[i].id = id}
           k == Min(I)
<1>1. Len(timers) \in Nat /\ DOMAIN timers = 1 .. Len(timers)
  BY LenProperties DEF RightTimers
<1>2. CASE \E i \in 1 .. Len(timers) : timers[i].id = id
  <2>1. I \subseteq Nat /\ I # {}
    BY <1>2
  <2>2. k \in 1 .. Len(timers) /\ timers[k].id = id
    <3> HIDE DEF I
    <3>1. k \in I
      BY <2>1, MinOfNaturals
    <3> QED BY <3>1 DEF I
  <2>3. Without(id) = RemoveAt(timers, k)
    BY <1>2 DEF Without, RemoveFirstMatch, SelectInSeq
  <2> HIDE DEF k
  <2> DEFINE r == RemoveAt(timers, k)
             at(i) == IF i < k THEN i ELSE i + 1
  <2>4. /\ r \in Seq(TimerRecord)
        /\ Len(r) = Len(timers) - 1
        /\ \A i \in 1 .. Len(r) : r[i] = IF i < k THEN timers[i] ELSE timers[i + 1]
    BY <2>2, RemoveAtElements DEF RightTimers
  <2>5. DOMAIN r = 1 .. Len(timers) - 1
    BY <2>4, LenProperties
  <2> HIDE DEF r
  <2>6. ASSUME NEW i \in 1 .. Len(timers) - 1
        PROVE  at(i) \in 1 .. Len(timers) \ {k} /\ r[i] = timers[at(i)]
    BY <1>1, <2>2, <2>4
  <2>7. ASSUME NEW i \in 1 .. Len(timers) - 1, NEW j \in 1 .. Len(timers) - 1,
               at(i) = at(j)
        PROVE  i = j
    BY <1>1, <2>2, <2>7
  <2> HIDE DEF at
  <2>8. BlocksDiffer(r)
    BY <1>1, <2>5, <2>6, <2>7 DEF BlocksDiffer
  <2>9. \A i \in DOMAIN r : \E j \in DOMAIN timers : r[i] = timers[j] /\ timers[j].id # id
    BY <1>1, <2>2, <2>5, <2>6 DEF BlocksDiffer
  <2> QED BY <2>3, <2>8, <2>9 DEF r
<1>3. CASE ~ \E i \in 1 .. Len(timers) : timers[i].id = id
  <2>1. Without(id) = timers
    BY <1>3 DEF Without, RemoveFirstMatch
  <2> QED BY <1>1, <1>3, <2>1
<1> QED BY <1>2, <1>3

\* timer_create_new adds one timer, in a block of its own, that its thread
\* points at.
LEMMA NewTimerElements ==
    ASSUME RightTimers(timers), BlocksDiffer(timers),
           timerOf \in [Threads -> Blocks \cup {NULL}],
           NEW t \in Threads, NEW kind, NEW s, NEW n, NewTimer(t, kind, s, n)
    PROVE  /\ BlocksDiffer(timers')
           /\ \A i \in DOMAIN timers' :
                \/ i \in DOMAIN timers /\ timers'[i] = timers[i]
                \/ /\ timers'[i].id = timerOf'[t] /\ timers'[i].tcb = t
                   /\ timers'[i].kind = kind /\ timers'[i].sema = s
           /\ \A u \in Threads \ {t} : timerOf'[u] = timerOf[u]
           /\ timerOf' = [timerOf EXCEPT ![t] = timerOf'[t]]
<1>1. PICK b \in Blocks \ LiveBlocks :
        /\ timers' = Append(timers, [id |-> b, kind |-> kind, tcb |-> t,
                                     sema |-> s, cnt |-> n])
        /\ timerOf' = [timerOf EXCEPT ![t] = b]
  BY DEF NewTimer
<1> DEFINE v == [id |-> b, kind |-> kind, tcb |-> t, sema |-> s, cnt |-> n]
           S == TimerRecord \cup {v}
<1>2. v.id = b /\ v.kind = kind /\ v.tcb = t /\ v.sema = s /\ v \in S
  OBVIOUS
<1>3. timers \in Seq(S)
  <2>1. Len(timers) \in Nat /\ timers \in [1 .. Len(timers) -> TimerRecord]
    BY LenProperties, ElementOfSeq DEF RightTimers
  <2>2. timers = [i \in 1 .. Len(timers) |-> timers[i]]
        /\ \A i \in 1 .. Len(timers) : timers[i] \in S
    BY <2>1
  <2> HIDE DEF S
  <2>3. [i \in 1 .. Len(timers) |-> timers[i]] \in Seq(S)
    BY <2>1, <2>2, IsASeq
  <2> QED BY <2>2, <2>3
<1> HIDE DEF v, S
<1>4. Len(timers) \in Nat /\ DOMAIN timers = 1 .. Len(timers)
  BY LenProperties DEF RightTimers
<1>5. /\ timers' = Append(timers, v)
      /\ Append(timers, v) \in Seq(S)
      /\ Len(Append(timers, v)) = Len(timers) + 1
      /\ \A i \in 1 .. Len(timers) : Append(timers, v)[i] = timers[i]
      /\ Append(timers, v)[Len(timers) + 1] = v
  BY <1>1, <1>2, <1>3, AppendProperties DEF v
<1>6. DOMAIN timers' = 1 .. Len(timers) + 1
  BY <1>5, LenProperties
<1>7. \A i \in 1 .. Len(timers) + 1 : i \in 1 .. Len(timers) \/ i = Len(timers) + 1
  BY <1>4
<1>8. \A i \in 1 .. Len(timers) : timers[i].id # b
  BY <1>1, <1>4 DEF LiveBlocks
<1>9. BlocksDiffer(timers')
  BY <1>2, <1>4, <1>5, <1>6, <1>7, <1>8 DEF BlocksDiffer
<1>10. timerOf'[t] = b
  BY <1>1
<1> QED BY <1>1, <1>2, <1>4, <1>5, <1>6, <1>7, <1>9, <1>10

-----------------------------------------------------------------------------
(* Steps that move no thread. *)

LEMMA PlacesOf == ASSUME PlacesInv, NEW t \in Threads PROVE PlaceOK(t)
  BY DEF PlacesInv

\* Outside the deletion by the poll, every timer is still to be run.
LEMMA AllPending ==
    /\ tick.at # "delete" => \A v : Pending(v)
    /\ tick'.at # "delete" => \A i \in DOMAIN timers' : Pending(timers[i])'
  BY DEF Pending

LEMMA SameTimers ==
    ASSUME UNCHANGED timers, tick.at # "delete", NEW t
    PROVE  NoNewAlarm(t)
  BY AllPending DEF NoNewAlarm

\* A thread that makes a call is on no list.
LEMMA CallerIsNowhere ==
    ASSUME PlacesInv, NEW t \in Threads, NEW point \in {"app", "woken", "destroying", "freeing"},
           At(t, point)
    PROVE  /\ OffLists(t) /\ Nowhere(t) /\ current = t /\ state[t] # "NONE"
           /\ tick.at = "off" /\ irq = "off"
<1>1. OffLists(t) /\ current = t /\ tick.at = "off" /\ irq = "off"
  BY DEF At, InThread, OffLists
<1> QED BY <1>1, PlacesOf DEF PlaceOK

\* Where a caller goes on in its call does not matter to the others.
LEMMA CallerGoesOn ==
    ASSUME NEW t \in Threads, OffLists(t), \A u \in Threads \ {t} : call'[u] = call[u],
           UNCHANGED <<current, state>>
    PROVE  \A u \in Threads : OffLists(u)' => OffLists(u)
  BY DEF OffLists

LEMMA GotoAndReturn ==
    ASSUME call \in [Threads -> Calls], NEW t \in Threads,
           \/ UNCHANGED call
           \/ Return(t)
           \/ \E point \in Points : Goto(t, point)
    PROVE  \A u \in Threads \ {t} : call'[u] = call[u]
  BY DEF Goto, Return

LEMMA QuietKeeps ==
    ASSUME PlacesInv, UNCHANGED <<ready, waiting, timers, timerOf, tick>>,
           irq' = "exit" => tick.at = "off",
           \A u \in Threads : OffLists(u)' => OffLists(u),
           \A u \in Threads : state'[u] = "NONE" => current' # u
    PROVE  PlacesInv'
<1>1. ASSUME NEW u \in Threads PROVE PlaceOK(u)'
  <2>1. NoNewAlarm(u)
    BY DEF NoNewAlarm, Pending
  <2>2. NoNewPlace(u)
    BY <2>1 DEF NoNewPlace
  <2> QED BY <2>2, PlacesOf, NothingNewKeeps
<1>2. ListsInv' /\ AlarmsInv'
  BY DEF PlacesInv, ListsInv, AlarmsInv
<1> QED BY <1>1, <1>2 DEF PlacesInv

\* A call that changes nothing but counts and where its caller is.
LEMMA CallKeepsPlaces ==
    ASSUME CoreInv, PlacesInv, NEW t \in Threads,
           NEW point \in {"app", "woken", "destroying", "freeing"}, At(t, point),
           \A u \in Threads \ {t} : call'[u] = call[u],
           UNCHANGED <<current, ready, state, waiting, timers, timerOf, tick, irq>>
    PROVE  PlacesInv'
<1>1. OffLists(t) /\ irq = "off"
  BY CallerIsNowhere
<1>2. \A u \in Threads : OffLists(u)' => OffLists(u)
  BY <1>1, CallerGoesOn
<1>3. \A u \in Threads : state'[u] = "NONE" => current' # u
  BY PlacesOf DEF PlaceOK
<1> QED BY <1>1, <1>2, <1>3, QuietKeeps

\* A device interrupt that changes counts.
LEMMA IrqKeepsPlaces ==
    ASSUME PlacesInv, tick.at = "off",
           UNCHANGED <<current, ready, state, call, waiting, timers, timerOf, tick>>
    PROVE  PlacesInv'
<1>1. \A u \in Threads : OffLists(u)' => OffLists(u)
  BY DEF OffLists
<1>2. \A u \in Threads : state'[u] = "NONE" => current' # u
  BY PlacesOf DEF PlaceOK
<1> QED BY <1>1, <1>2, QuietKeeps

-----------------------------------------------------------------------------
(* Boot, thread creation and the scheduler. *)

LEMMA QueueFacts ==
    ASSUME CoreInv, PlacesInv
    PROVE  /\ ready \in PriorQueue /\ Filed(ready) /\ Once(ready)
           /\ \A s \in Semas : waiting[s] \in PriorQueue /\ Filed(waiting[s]) /\ Once(waiting[s])
           /\ waiting \in [Semas -> PriorQueue]
           /\ timerOf \in [Threads -> Blocks \cup {NULL}]
           /\ call \in [Threads -> Calls]
           /\ state \in [Threads -> {"NONE", "INVALID", "READY", "RUNNING", "SUSPEND"}]
           /\ RightTimers(timers) /\ BlocksDiffer(timers)
  BY PartsOfCore DEF RightReady, RightWaiting, WaitingRight, PlacesInv, ListsInv, AlarmsInv,
                     ThreadsRight, CallsRight

\* A new thread is on the ready queue and nowhere else.
LEMMA EnqueuePlaces ==
    ASSUME CoreInv, PlacesInv, NEW t \in Threads, Enqueue(t), tick.at = "off", irq = "off",
           \A u \in Threads : u = t \/ (OffLists(u)' => OffLists(u))
    PROVE  PlacesInv'
<1>1. /\ state[t] = "NONE" /\ ready' = Push(ready, t)
      /\ state' = [state EXCEPT ![t] = NewState(t)]
      /\ UNCHANGED <<current, timerOf, waiting, timers, tick, irq>>
  BY DEF Enqueue, semaVars, isrVars
<1>2. Nowhere(t) /\ current # t
  BY <1>1, PlacesOf DEF PlaceOK, OffLists
<1>3. Once(ready')
  BY <1>1, <1>2, QueueFacts, PushOnce DEF Nowhere
<1>4. \A u \in Threads : NoNewAlarm(u)
  BY <1>1, SameTimers
<1>5. PlaceOK(t)'
  <2>1. ~OffLists(t)'
    <3>1. state'[t] \in {"INVALID", "READY"}
      BY <1>1, QueueFacts DEF NewState
    <3> QED BY <1>1, <1>2, <3>1 DEF OffLists
  <2>2. WaitsNowhere(t)' /\ NoAlarm(t)'
    BY <1>1, <1>2 DEF Nowhere, WaitsNowhere, NoAlarm, Pending
  <2> QED BY <2>1, <2>2, ReadyKeeps
<1>6. ASSUME NEW u \in Threads \ {t} PROVE PlaceOK(u)'
  <2>1. NoNewPlace(u)
    BY <1>1, <1>4, QueueFacts, PushProperties DEF NoNewPlace
  <2>2. state'[u] = state[u]
    BY <1>1, QueueFacts
  <2>3. state'[u] = "NONE" => current' # u
    BY <1>1, <2>2, PlacesOf DEF PlaceOK
  <2> QED BY <1>1, <2>1, <2>3, PlacesOf, NothingNewKeeps
<1>7. ListsInv' /\ AlarmsInv'
  BY <1>1, <1>3 DEF PlacesInv, ListsInv, AlarmsInv
<1> QED BY <1>5, <1>6, <1>7 DEF PlacesInv

LEMMA WithoutIdleOneIsReady ==
    ASSUME CoreInv, current # Idle
    PROVE  Foremost(ready) # NULL /\ Foremost(ready) \in Threads
<1>1. RightReady(ready) /\ ready.fifo[IdlePriority] = <<Idle>>
  BY PartsOfCore DEF IdleIsThere
<1>2. Foremost(ready) # NULL
  <2>1. ready \in PriorQueue /\ HighestIsRight(ready)
    BY <1>1 DEF RightReady
  <2>2. \A p \in Priorities : ready.fifo[p] # <<>> => Foremost(ready) # NULL
    BY <2>1, PopProperties
  <2>3. IdlePriority \in Priorities /\ <<Idle>> # <<>>
    BY PrioritiesAreSmall
  <2> QED BY <1>1, <2>2, <2>3
<1> QED BY <1>1, <1>2, PopProperties DEF RightReady

\* The first thread leaves the ready queue for the core.
LEMMA KernelStartPlaces ==
    ASSUME IdleAlone, CoreInv, PlacesInv, KernelStart
    PROVE  PlacesInv'
<1>1. PICK f \in Threads :
        /\ f = Foremost(ready) /\ f # NULL /\ current = NULL
        /\ tick.at = "off" /\ irq = "off"
        /\ current' = f /\ ready' = Pop(ready)
        /\ UNCHANGED <<state, call, timerOf, waiting, timers, tick, irq>>
  <2>1. current = NULL /\ tick.at = "off" /\ irq = "off"
    BY DEF KernelStart, CoreInv, CoreOwned
  <2>2. Foremost(ready) # NULL /\ Foremost(ready) \in Threads
    BY <2>1, IdleFacts, WithoutIdleOneIsReady
  <2> QED BY <2>1, <2>2 DEF KernelStart, tcbVars, semaVars, isrVars
<1>2. /\ Once(Pop(ready)) /\ Absent(Pop(ready), f) /\ ~Absent(ready, f)
      /\ \A u : Absent(ready, u) => Absent(Pop(ready), u)
  BY <1>1, QueueFacts, PopOnce, PopProperties
<1>3. PlaceOK(f)'
  <2>1. WaitsNowhere(f) /\ NoAlarm(f) /\ state[f] # "NONE"
    BY <1>1, <1>2, PlacesOf DEF PlaceOK, OffLists, Nowhere
  <2>2. Nowhere(f)' /\ state'[f] # "NONE"
    BY <1>1, <1>2, <2>1 DEF Nowhere, WaitsNowhere, NoAlarm, Pending
  <2> QED BY <1>1, <2>2, NowhereKeeps
<1>4. ASSUME NEW u \in Threads \ {f} PROVE PlaceOK(u)'
  <2>1. NoNewPlace(u)
    BY <1>1, <1>2, SameTimers DEF NoNewPlace
  <2>2. OffLists(u)' => OffLists(u)
    BY <1>1 DEF OffLists
  <2> QED BY <1>1, <2>1, <2>2, PlacesOf, NothingNewKeeps
<1>5. ListsInv' /\ AlarmsInv'
  BY <1>1, <1>2 DEF PlacesInv, ListsInv, AlarmsInv
<1> QED BY <1>3, <1>4, <1>5 DEF PlacesInv

\* The scheduler keeps the queue as it should be, and takes the thread that it
\* gives the core to off it.
LEMMA SchedulerMoves ==
    ASSUME IdleAlone, CoreInv, PlacesInv, NEW b \in BOOLEAN, Scheduler(b), current \in Threads
    PROVE  /\ Once(ready') /\ current' \in Threads
           /\ Absent(ready', current')
           /\ \/ current' = current /\ state[current] # "SUSPEND" /\ state' = state
              \/ ~Absent(ready, current') /\ SwitchTo(current')
           /\ \A u \in Threads : Absent(ready, u) =>
                Absent(ready', u) \/ (u = current /\ current' # u /\ state[u] # "SUSPEND")
<1> DEFINE f == Foremost(ready)
           c == current
<1>1. f = NULL \/ (f \in Threads /\ f # NULL)
  BY QueueFacts, PopProperties
<1>2. f # NULL => /\ Once(Pop(ready)) /\ Pop(ready) \in PriorQueue
                  /\ Absent(Pop(ready), f) /\ ~Absent(ready, f)
                  /\ \A u : Absent(ready, u) => Absent(Pop(ready), u)
  BY <1>1, QueueFacts, PopOnce, PopProperties
<1>3. state[c] # "SUSPEND" => Absent(ready, c)
  BY PlacesOf DEF PlaceOK, OffLists, Nowhere
<1>4. ASSUME f # NULL, NEW x \in Threads, Absent(Pop(ready), x)
      PROVE  /\ Once(PushIfRoom(Pop(ready), x))
             /\ \A u \in Threads \ {x} :
                   Absent(Pop(ready), u) => Absent(PushIfRoom(Pop(ready), x), u)
  BY <1>2, <1>4, PushOnce, PushProperties DEF PushIfRoom
<1>5. CASE SwitchFromSuspended
  <2>1. f # NULL
    <3>1. c # Idle
      BY <1>5 DEF SwitchFromSuspended, CoreInv, CoreOwned
    <3> QED BY <3>1, WithoutIdleOneIsReady
  <2>2. ready' = Pop(ready) /\ SwitchTo(f) /\ current' = f
    BY <1>5 DEF SwitchFromSuspended, SwitchTo
  <2> QED BY <1>1, <1>2, <2>1, <2>2
<1>6. CASE Preempt(b)
  <2>1. /\ f # NULL /\ f # c /\ state[c] # "SUSPEND"
        /\ ready' = PushIfRoom(Pop(ready), c) /\ SwitchTo(f) /\ current' = f
    BY <1>6 DEF Preempt, Preempts, SwitchTo
  <2>2. Absent(Pop(ready), c)
    BY <1>2, <1>3, <2>1
  <2> HIDE DEF f
  <2>3. Once(ready') /\ Absent(ready', f)
    BY <1>1, <1>2, <1>4, <2>1, <2>2
  <2>4. ASSUME NEW u \in Threads, Absent(ready, u), u # c PROVE Absent(ready', u)
    BY <1>2, <1>4, <2>1, <2>2, <2>4
  <2> QED BY <1>1, <1>2, <2>1, <2>3, <2>4
<1>7. CASE KeepCurrent(b)
  <2>1. current' = c /\ state' = state /\ state[c] # "SUSPEND"
    BY <1>7 DEF KeepCurrent
  <2>2. CASE f = NULL
    <3>1. ready' = ready
      BY <1>7, <2>2 DEF KeepCurrent
    <3> QED BY <1>3, <2>1, <3>1, QueueFacts
  <2>3. CASE f # NULL
    <3>1. ready' = PushIfRoom(Pop(ready), f)
      BY <1>7, <2>3 DEF KeepCurrent
    <3> HIDE DEF f
    <3>2. /\ Once(ready')
          /\ \A u \in Threads : Absent(ready, u) => Absent(ready', u)
      BY <1>1, <1>2, <1>4, <2>3, <3>1
    <3> QED BY <1>3, <2>1, <3>2
  <2> QED BY <2>2, <2>3
<1> QED BY <1>5, <1>6, <1>7 DEF Scheduler

LEMMA SchedulerPlaces ==
    ASSUME IdleAlone, CoreInv, PlacesInv, NEW b \in BOOLEAN, Scheduler(b), started,
           UNCHANGED <<waiting, timers, timerOf>>,
           tick.at \in {"off", "poll"}, tick'.at \in {"off", "poll"},
           irq' = "exit" => tick'.at = "off"
    PROVE  PlacesInv'
<1>0. current \in Threads
  BY DEF CoreInv, CoreOwned
<1>1. /\ Once(ready') /\ current' \in Threads
      /\ Absent(ready', current')
      /\ \/ current' = current /\ state[current] # "SUSPEND" /\ state' = state
         \/ ~Absent(ready, current') /\ SwitchTo(current')
      /\ \A u \in Threads : Absent(ready, u) =>
           Absent(ready', u) \/ (u = current /\ current' # u /\ state[u] # "SUSPEND")
  BY <1>0, SchedulerMoves
<1>2. \A u \in Threads : NoNewAlarm(u)
  BY SameTimers
<1>3. \A u \in Threads : (WaitsNowhere(u) => WaitsNowhere(u)') /\ (NoAlarm(u) => NoAlarm(u)')
  BY DEF WaitsNowhere, NoAlarm, Pending
<1>4. ASSUME NEW n \in Threads, n = current' PROVE PlaceOK(n)'
  <2>1. WaitsNowhere(n) /\ NoAlarm(n)
    BY <1>1, <1>4, PlacesOf DEF PlaceOK, OffLists, Nowhere
  <2>2. state'[n] # "NONE"
    <3>1. CASE current' = current /\ state' = state
      BY <1>4, <3>1, PlacesOf DEF PlaceOK
    <3>2. CASE SwitchTo(current')
      BY <1>4, <3>2 DEF SwitchTo
    <3> QED BY <1>1, <3>1, <3>2
  <2>3. Nowhere(n)'
    BY <1>1, <1>3, <1>4, <2>1 DEF Nowhere
  <2> QED BY <2>2, <2>3, NowhereKeeps
<1>5. ASSUME NEW u \in Threads, u # current' PROVE PlaceOK(u)'
  <2>1. OffLists(u)' => state'[u] = "NONE" /\ state[u] = "NONE" /\ u # current
    <3>1. CASE current' = current /\ state' = state
      BY <1>5, <3>1 DEF OffLists
    <3>2. CASE SwitchTo(current')
      BY <1>5, <3>2 DEF OffLists, SwitchTo
    <3> QED BY <1>1, <3>1, <3>2
  <2>2. CASE u = current /\ state[u] # "SUSPEND"
    <3>1. WaitsNowhere(u) /\ NoAlarm(u)
      BY <2>2, PlacesOf DEF PlaceOK, OffLists, Nowhere
    <3> QED BY <1>3, <2>1, <2>2, <3>1, ReadyKeeps
  <2>3. CASE ~(u = current /\ state[u] # "SUSPEND")
    <3>1. NoNewPlace(u)
      BY <1>1, <1>2, <2>3 DEF NoNewPlace
    <3> QED BY <1>5, <2>1, <3>1, PlacesOf, NothingNewKeeps DEF OffLists
  <2> QED BY <2>2, <2>3
<1>6. ListsInv' /\ AlarmsInv'
  BY <1>1 DEF PlacesInv, ListsInv, AlarmsInv
<1> QED BY <1>4, <1>5, <1>6 DEF PlacesInv

-----------------------------------------------------------------------------
(* Threads that sleep and wait. *)

\* A new timer is an alarm for its own thread only.
LEMMA NewTimerPlaces ==
    ASSUME CoreInv, PlacesInv, NEW t \in Threads, NEW kind, NEW s, NEW n,
           NewTimer(t, kind, s, n), tick.at # "delete"
    PROVE  /\ BlocksDiffer(timers')
           /\ \A u \in Threads \ {t} : NoNewAlarm(u) /\ timerOf'[u] = timerOf[u]
           /\ NoAlarm(t) => \A i \in DOMAIN timers' : timers'[i].tcb = t =>
                timers'[i].id = timerOf'[t] /\ timers'[i].kind = kind /\ timers'[i].sema = s
<1>1. /\ BlocksDiffer(timers')
      /\ \A i \in DOMAIN timers' :
            \/ i \in DOMAIN timers /\ timers'[i] = timers[i]
            \/ /\ timers'[i].id = timerOf'[t] /\ timers'[i].tcb = t
               /\ timers'[i].kind = kind /\ timers'[i].sema = s
      /\ \A u \in Threads \ {t} : timerOf'[u] = timerOf[u]
  BY QueueFacts, NewTimerElements
<1>2. \A v : Pending(v)
  BY AllPending
<1>3. \A u \in Threads \ {t} : NoNewAlarm(u)
  BY <1>1, <1>2 DEF NoNewAlarm
<1> QED BY <1>1, <1>2, <1>3 DEF NoAlarm

LEMMA DelayTickPlaces ==
    ASSUME CoreInv, PlacesInv, NEW t \in Threads, NEW n, DelayTick(t, n)
    PROVE  PlacesInv'
<1>1. /\ Nowhere(t) /\ current = t /\ tick.at = "off" /\ irq = "off" /\ state[t] # "NONE"
      /\ state' = [state EXCEPT ![t] = "SUSPEND"] /\ Goto(t, "resched")
      /\ NewTimer(t, "delay", NULL, n)
      /\ UNCHANGED <<current, ready, waiting, tick, irq>>
  BY CallerIsNowhere DEF DelayTick, Calling, semaVars, isrVars
<1>2. /\ BlocksDiffer(timers')
      /\ \A u \in Threads \ {t} : NoNewAlarm(u) /\ timerOf'[u] = timerOf[u]
      /\ \A i \in DOMAIN timers' : timers'[i].tcb = t => timers'[i].id = timerOf'[t]
  BY <1>1, NewTimerPlaces DEF Nowhere
<1>3. PlaceOK(t)'
  <2>1. state'[t] = "SUSPEND" /\ call'[t].at = "resched"
    BY <1>1, QueueFacts DEF Goto, Calls
  <2>2. ~OffLists(t)'
    BY <2>1 DEF OffLists
  <2>3. Absent(ready', t) /\ \A x \in Semas : Absent(waiting'[x], t)
    BY <1>1 DEF Nowhere, WaitsNowhere
  <2> QED BY <1>2, <2>1, <2>2, <2>3 DEF PlaceOK, AlarmFits
<1>4. ASSUME NEW u \in Threads \ {t} PROVE PlaceOK(u)'
  <2>1. NoNewPlace(u)
    BY <1>1, <1>2 DEF NoNewPlace
  <2>2. (OffLists(u)' => OffLists(u)) /\ state'[u] = state[u]
    BY <1>1, QueueFacts DEF OffLists
  <2> QED BY <1>1, <1>2, <2>1, <2>2, PlacesOf, NothingNewKeeps
<1>5. ListsInv' /\ AlarmsInv'
  BY <1>1, <1>2 DEF PlacesInv, ListsInv, AlarmsInv
<1> QED BY <1>3, <1>4, <1>5 DEF PlacesInv

\* One wait list of all changes.
LEMMA OneListPlaces ==
    ASSUME CoreInv, PlacesInv, NEW s \in Semas, NEW q, Once(q), Filed(q),
           waiting' = [waiting EXCEPT ![s] = q]
    PROVE  /\ \A x \in Semas : Once(waiting'[x]) /\ Filed(waiting'[x])
           /\ \A x \in Semas \ {s} : waiting'[x] = waiting[x]
           /\ waiting'[s] = q
  BY QueueFacts

LEMMA SemaCreatePlaces ==
    ASSUME CoreInv, PlacesInv, NEW s \in Semas, NEW n, SemaCreate(s, n), tick.at # "delete"
    PROVE  PlacesInv'
<1>1. /\ waiting' = [waiting EXCEPT ![s] = EmptyQueue]
      /\ UNCHANGED <<current, ready, state, timerOf, call, timers, tick, irq>>
  BY DEF SemaCreate, tcbVars, isrVars
<1>2. Once(EmptyQueue) /\ Filed(EmptyQueue) /\ \A t : Absent(EmptyQueue, t)
  BY EmptyQueueIsRight DEF Once, EmptyQueue
<1>3. /\ \A x \in Semas : Once(waiting'[x]) /\ Filed(waiting'[x])
      /\ \A x \in Semas \ {s} : waiting'[x] = waiting[x]
      /\ waiting'[s] = EmptyQueue
  BY <1>1, <1>2, OneListPlaces
<1>4. ASSUME NEW u \in Threads PROVE PlaceOK(u)'
  <2>1. NoNewPlace(u)
    BY <1>1, <1>2, <1>3, SameTimers DEF NoNewPlace
  <2>2. (OffLists(u)' => OffLists(u)) /\ (state'[u] = "NONE" => current' # u)
    BY <1>1, PlacesOf DEF OffLists, PlaceOK
  <2> QED BY <1>1, <2>1, <2>2, PlacesOf, NothingNewKeeps
<1>5. ListsInv' /\ AlarmsInv'
  BY <1>1, <1>3 DEF PlacesInv, ListsInv, AlarmsInv
<1> QED BY <1>4, <1>5 DEF PlacesInv

\* A thread waits on one semaphore, and its timer is for that wait.
LEMMA SemaAcquireWaitPlaces ==
    ASSUME CoreInv, PlacesInv, NEW t \in Threads, NEW s \in Semas, NEW n,
           SemaAcquireWait(t, s, n)
    PROVE  PlacesInv'
<1>1. /\ Nowhere(t) /\ current = t /\ tick.at = "off" /\ irq = "off"
      /\ waiting' = [waiting EXCEPT ![s] = Push(waiting[s], t)]
      /\ state' = [state EXCEPT ![t] = "SUSPEND"]
      /\ call' = [call EXCEPT ![t].at = "suspended", ![t].sema = s]
      /\ UNCHANGED <<current, ready, tick, irq>>
  BY CallerIsNowhere DEF SemaAcquireWait, Calling, isrVars
<1>2. /\ Once(Push(waiting[s], t)) /\ Filed(Push(waiting[s], t))
      /\ \A u \in Threads \ {t} : Absent(waiting[s], u) => Absent(Push(waiting[s], t), u)
  BY <1>1, QueueFacts, PushOnce, PushProperties DEF Nowhere, WaitsNowhere
<1>3. /\ \A x \in Semas : Once(waiting'[x]) /\ Filed(waiting'[x])
      /\ \A x \in Semas \ {s} : waiting'[x] = waiting[x]
      /\ waiting'[s] = Push(waiting[s], t)
  BY <1>1, <1>2, OneListPlaces
<1>4. /\ BlocksDiffer(timers')
      /\ \A u \in Threads \ {t} : NoNewAlarm(u) /\ timerOf'[u] = timerOf[u]
      /\ \A i \in DOMAIN timers' : timers'[i].tcb = t =>
            timers'[i].id = timerOf'[t] /\ timers'[i].kind = "sema" /\ timers'[i].sema = s
  <2>1. CASE NewTimer(t, "sema", s, n)
    BY <1>1, <2>1, NewTimerPlaces DEF Nowhere
  <2>2. CASE timerOf' = [timerOf EXCEPT ![t] = NULL] /\ UNCHANGED timers
    <3>1. \A u \in Threads : NoNewAlarm(u)
      BY <1>1, <2>2, SameTimers
    <3>2. \A i \in DOMAIN timers' : timers'[i].tcb # t
      BY <1>1, <2>2, AllPending DEF Nowhere, NoAlarm
    <3> QED BY <2>2, <3>1, <3>2, QueueFacts DEF PlacesInv, AlarmsInv
  <2> QED BY <2>1, <2>2 DEF SemaAcquireWait
<1>5. PlaceOK(t)'
  <2>1. state'[t] = "SUSPEND" /\ call'[t].at = "suspended"
    BY <1>1, QueueFacts DEF Calls
  <2>2. ~OffLists(t)'
    BY <2>1 DEF OffLists
  <2>3. Absent(ready', t) /\ \A x \in Semas \ {s} : Absent(waiting'[x], t)
    BY <1>1, <1>3 DEF Nowhere, WaitsNowhere
  <2> QED BY <1>4, <2>1, <2>2, <2>3 DEF PlaceOK, AlarmFits
<1>6. ASSUME NEW u \in Threads \ {t} PROVE PlaceOK(u)'
  <2>1. NoNewPlace(u)
    BY <1>1, <1>2, <1>3, <1>4 DEF NoNewPlace
  <2>2. (OffLists(u)' => OffLists(u)) /\ state'[u] = state[u]
    BY <1>1, QueueFacts DEF OffLists
  <2> QED BY <1>1, <1>4, <2>1, <2>2, PlacesOf, NothingNewKeeps
<1>7. ListsInv' /\ AlarmsInv'
  BY <1>1, <1>3, <1>4 DEF PlacesInv, ListsInv, AlarmsInv
<1> QED BY <1>5, <1>6, <1>7 DEF PlacesInv

\* A wait that is undone leaves nothing behind.
LEMMA SemaAcquireNoTimerPlaces ==
    ASSUME CoreInv, PlacesInv, NEW t \in Threads, NEW s \in Semas, SemaAcquireNoTimer(t, s)
    PROVE  PlacesInv'
<1> DEFINE q == Take(Push(waiting[s], t), t)
<1>1. /\ Nowhere(t) /\ current = t /\ tick.at = "off" /\ irq = "off"
      /\ waiting' = [waiting EXCEPT ![s] = q]
      /\ state' = [state EXCEPT ![t] = "RUNNING"]
      /\ timerOf' = [timerOf EXCEPT ![t] = NULL]
      /\ UNCHANGED <<current, ready, call, timers, tick, irq>>
  BY CallerIsNowhere DEF SemaAcquireNoTimer, Calling, isrVars
<1>2. /\ Once(q) /\ Filed(q) /\ Absent(q, t)
      /\ \A u \in Threads \ {t} : Absent(waiting[s], u) => Absent(q, u)
  <2>1. /\ Push(waiting[s], t) \in PriorQueue
        /\ Once(Push(waiting[s], t)) /\ Filed(Push(waiting[s], t))
        /\ \A u \in Threads \ {t} : Absent(waiting[s], u) => Absent(Push(waiting[s], t), u)
    BY <1>1, QueueFacts, PushOnce, PushProperties DEF Nowhere, WaitsNowhere
  <2> QED BY <2>1, TakeOnce, TakeProperties
<1> HIDE DEF q
<1>3. /\ \A x \in Semas : Once(waiting'[x]) /\ Filed(waiting'[x])
      /\ \A x \in Semas \ {s} : waiting'[x] = waiting[x]
      /\ waiting'[s] = q
  BY <1>1, <1>2, OneListPlaces
<1>4. PlaceOK(t)'
  <2>1. Nowhere(t)'
    BY <1>1, <1>2, <1>3 DEF Nowhere, WaitsNowhere, NoAlarm, Pending
  <2>2. state'[t] = "RUNNING"
    BY <1>1, QueueFacts
  <2> QED BY <2>1, <2>2, NowhereKeeps
<1>5. ASSUME NEW u \in Threads \ {t} PROVE PlaceOK(u)'
  <2>1. NoNewPlace(u)
    BY <1>1, <1>2, <1>3, SameTimers DEF NoNewPlace
  <2>2. (OffLists(u)' => OffLists(u)) /\ state'[u] = state[u] /\ timerOf'[u] = timerOf[u]
    BY <1>1, QueueFacts DEF OffLists
  <2> QED BY <1>1, <2>1, <2>2, PlacesOf, NothingNewKeeps
<1>6. ListsInv' /\ AlarmsInv'
  BY <1>1, <1>3 DEF PlacesInv, ListsInv, AlarmsInv
<1> QED BY <1>4, <1>5, <1>6 DEF PlacesInv

-----------------------------------------------------------------------------
(* Threads that are woken. *)

\* Deleting the timer that a thread points at leaves it without an alarm, and
\* sets none for the others.
LEMMA WithoutPlaces ==
    ASSUME CoreInv, PlacesInv, NEW id, timers' = Without(id), tick.at # "delete"
    PROVE  /\ BlocksDiffer(timers')
           /\ \A u : NoNewAlarm(u)
           /\ \A u \in Threads : timerOf[u] = id => NoAlarm(u)'
<1>1. /\ BlocksDiffer(timers')
      /\ \A i \in DOMAIN timers' : \E j \in DOMAIN timers :
            timers'[i] = timers[j] /\ timers[j].id # id
  BY QueueFacts, WithoutElements
<1>2. \A v : Pending(v)
  BY AllPending
<1>3. \A u : NoNewAlarm(u)
  BY <1>1, <1>2 DEF NoNewAlarm
<1>4. ASSUME NEW u \in Threads, timerOf[u] = id, NEW i \in DOMAIN timers', timers'[i].tcb = u
      PROVE  FALSE
  <2>1. PICK j \in DOMAIN timers : timers'[i] = timers[j] /\ timers[j].id # id
    BY <1>1
  <2>2. AlarmFits(u, timers[j])
    BY <1>2, <1>4, <2>1, PlacesOf DEF PlaceOK
  <2> QED BY <1>4, <2>1, <2>2 DEF AlarmFits
<1> QED BY <1>1, <1>3, <1>4 DEF NoAlarm

\* A thread that points at no timer has no alarm.
LEMMA NoTimerNoAlarm ==
    ASSUME CoreInv, PlacesInv, NEW t \in Threads, timerOf[t] = NULL
    PROVE  NoAlarm(t)
<1>1. \A i \in DOMAIN timers : timers[i].id # NULL
  <2>1. \A i \in DOMAIN timers : timers[i] \in TimerRecord
    BY QueueFacts, LenProperties, ElementOfSeq DEF RightTimers
  <2> QED BY <2>1, KernelAssumption DEF TimerRecord
<1> QED BY <1>1, PlacesOf DEF NoAlarm, PlaceOK, AlarmFits

\* What give and destroy have in common: the foremost waiter leaves the list.
\* If there is room it becomes ready, and its timer is deleted.
LEMMA WakePlaces ==
    ASSUME CoreInv, PlacesInv, NEW s \in Semas, NEW w \in Threads,
           w = Foremost(waiting[s]), tick.at = "off",
           waiting' = [waiting EXCEPT ![s] = Pop(waiting[s])],
           \/ /\ ready' = Push(ready, w)
              /\ timers' = IF timerOf[w] = NULL THEN timers ELSE Without(timerOf[w])
              /\ timerOf' = timerOf \/ timerOf' = [timerOf EXCEPT ![w] = NULL]
           \/ UNCHANGED <<ready, timers, timerOf>>,
           UNCHANGED <<current, state, tick>>,
           \A u \in Threads : OffLists(u)' => OffLists(u)
    PROVE  PlacesInv'
<1>1. /\ Once(Pop(waiting[s])) /\ Filed(Pop(waiting[s])) /\ Absent(Pop(waiting[s]), w)
      /\ ~Absent(waiting[s], w)
      /\ \A u : Absent(waiting[s], u) => Absent(Pop(waiting[s]), u)
  BY QueueFacts, PopOnce, PopProperties, QueueAssumption
<1>2. /\ \A x \in Semas : Once(waiting'[x]) /\ Filed(waiting'[x])
      /\ \A x \in Semas \ {s} : waiting'[x] = waiting[x]
      /\ waiting'[s] = Pop(waiting[s])
  BY <1>1, OneListPlaces
<1>3. Absent(ready, w) /\ ~OffLists(w) /\ WaitsNowhere(w)'
  BY <1>1, <1>2, PlacesOf DEF PlaceOK, WaitsNowhere, Nowhere
<1>4. \A u \in Threads : state'[u] = "NONE" => current' # u
  BY PlacesOf DEF PlaceOK
<1>5. CASE /\ ready' = Push(ready, w)
           /\ timers' = IF timerOf[w] = NULL THEN timers ELSE Without(timerOf[w])
           /\ timerOf' = timerOf \/ timerOf' = [timerOf EXCEPT ![w] = NULL]
  <2>1. Once(ready') /\ \A u \in Threads \ {w} : Absent(ready, u) => Absent(ready', u)
    BY <1>3, <1>5, QueueFacts, PushOnce, PushProperties
  <2>2. BlocksDiffer(timers') /\ NoAlarm(w)' /\ \A u \in Threads : NoNewAlarm(u)
    <3>1. CASE timerOf[w] = NULL
      <4>1. NoAlarm(w)'
        BY <1>5, <3>1, NoTimerNoAlarm DEF NoAlarm, Pending
      <4> QED BY <1>5, <3>1, <4>1, SameTimers DEF PlacesInv, AlarmsInv
    <3>2. CASE timerOf[w] # NULL
      BY <1>5, <3>2, WithoutPlaces
    <3> QED BY <3>1, <3>2
  <2>3. PlaceOK(w)'
    BY <1>3, <2>2, ReadyKeeps
  <2>4. ASSUME NEW u \in Threads \ {w} PROVE PlaceOK(u)'
    <3>1. NoNewPlace(u)
      BY <1>1, <1>2, <2>1, <2>2 DEF NoNewPlace
    <3>2. timerOf'[u] = timerOf[u]
      BY <1>5, QueueFacts
    <3> QED BY <1>4, <3>1, <3>2, PlacesOf, NothingNewKeeps
  <2>5. ListsInv' /\ AlarmsInv'
    <3>1. irq' = "exit" => tick'.at = "off"
      OBVIOUS
    <3> QED BY <1>2, <2>1, <2>2, <3>1 DEF ListsInv, AlarmsInv
  <2> QED BY <2>3, <2>4, <2>5 DEF PlacesInv
<1>6. CASE UNCHANGED <<ready, timers, timerOf>>
  <2>1. ASSUME NEW u \in Threads PROVE PlaceOK(u)'
    <3>1. NoNewPlace(u)
      BY <1>1, <1>2, <1>6, SameTimers DEF NoNewPlace
    <3> QED BY <1>4, <1>6, <3>1, PlacesOf, NothingNewKeeps
  <2>2. ListsInv' /\ AlarmsInv'
    BY <1>2, <1>6 DEF PlacesInv, ListsInv, AlarmsInv
  <2> QED BY <2>1, <2>2 DEF PlacesInv
<1> QED BY <1>5, <1>6

LEMMA HandOverPlaces ==
    ASSUME CoreInv, PlacesInv, NEW s \in Semas, NEW w \in Threads, HandOver(s, w),
           tick.at = "off", UNCHANGED tick,
           \A u \in Threads : OffLists(u)' => OffLists(u)
    PROVE  PlacesInv'
<1>1. /\ w = Foremost(waiting[s])
      /\ waiting' = [waiting EXCEPT ![s] = Pop(waiting[s])]
      /\ \/ /\ ready' = Push(ready, w)
            /\ timers' = IF timerOf[w] = NULL THEN timers ELSE Without(timerOf[w])
            /\ timerOf' = timerOf
         \/ UNCHANGED <<ready, timers, timerOf>>
      /\ UNCHANGED <<current, state>>
  BY DEF HandOver
<1> QED BY <1>1, WakePlaces

LEMMA SemaGivePlaces ==
    ASSUME CoreInv, PlacesInv, NEW t \in Threads, NEW s \in Semas, SemaGive(t, s)
    PROVE  PlacesInv'
<1>1. /\ At(t, "app") /\ OffLists(t) /\ tick.at = "off" /\ UNCHANGED <<tick, irq>>
  BY CallerIsNowhere DEF SemaGive, Calling, isrVars
<1>2. \A u \in Threads \ {t} : call'[u] = call[u]
  BY QueueFacts, GotoAndReturn DEF SemaGive, Points
<1>3. CASE \E w \in Threads : HandOver(s, w)
  <2>1. PICK w \in Threads : HandOver(s, w)
    BY <1>3
  <2>2. \A u \in Threads : OffLists(u)' => OffLists(u)
    BY <1>1, <1>2, <2>1, CallerGoesOn DEF HandOver
  <2> QED BY <1>1, <2>1, <2>2, HandOverPlaces
<1>4. CASE Increment(s)
  BY <1>1, <1>2, <1>4, CallKeepsPlaces DEF Increment, tcbVars
<1> QED BY <1>3, <1>4 DEF SemaGive

LEMMA SemaDestroyWakePlaces ==
    ASSUME CoreInv, PlacesInv, NEW t \in Threads, SemaDestroyWake(t)
    PROVE  PlacesInv'
<1>1. PICK s \in Semas : s = call[t].sema
  BY PartsOfCore DEF SemaDestroyWake, At, CallsRight, CallsInv
<1>2. PICK w \in Threads : w = Foremost(waiting[s])
  BY <1>1, QueueFacts, PopProperties DEF SemaDestroyWake
<1>3. /\ At(t, "destroying") /\ OffLists(t) /\ tick.at = "off"
      /\ waiting' = [waiting EXCEPT ![s] = Pop(waiting[s])]
      /\ \/ /\ ready' = Push(ready, w)
            /\ timers' = IF timerOf[w] = NULL THEN timers ELSE Without(timerOf[w])
            /\ timerOf' = [timerOf EXCEPT ![w] = NULL]
         \/ UNCHANGED <<ready, timers, timerOf>>
      /\ UNCHANGED <<current, state, tick>>
  BY <1>1, <1>2, CallerIsNowhere DEF SemaDestroyWake, isrVars
<1>4. \A u \in Threads \ {t} : call'[u] = call[u]
  BY QueueFacts DEF SemaDestroyWake, Goto
<1>5. \A u \in Threads : OffLists(u)' => OffLists(u)
  BY <1>3, <1>4, CallerGoesOn
<1> QED BY <1>2, <1>3, <1>5, WakePlaces

-----------------------------------------------------------------------------
(* The tick interrupt. *)

LEMMA TickCountPlaces ==
    ASSUME CoreInv, PlacesInv, TickCount
    PROVE  PlacesInv'
<1>1. /\ tick.at \in {"off", "count"} /\ irq = "off" /\ tick'.at \in {"count", "poll"}
      /\ UNCHANGED <<current, ready, state, call, waiting, timerOf, irq>>
  BY DEF TickCount, TickIsAt, TickOff, tcbVars, semaVars
<1>2. /\ DOMAIN timers' = DOMAIN timers
      /\ \A i \in DOMAIN timers :
            /\ timers'[i].id = timers[i].id /\ timers'[i].tcb = timers[i].tcb
            /\ timers'[i].kind = timers[i].kind /\ timers'[i].sema = timers[i].sema
  <2>1. \A i \in DOMAIN timers : timers[i] \in TimerRecord
    BY QueueFacts, LenProperties, ElementOfSeq DEF RightTimers
  <2> QED BY <2>1 DEF TickCount, TimerRecord
<1>3. ASSUME NEW u \in Threads PROVE PlaceOK(u)'
  <2>1. NoNewAlarm(u)
    BY <1>1, <1>2, AllPending DEF NoNewAlarm
  <2>2. NoNewPlace(u)
    BY <1>1, <2>1 DEF NoNewPlace
  <2>3. (OffLists(u)' => OffLists(u)) /\ (state'[u] = "NONE" => current' # u)
    BY <1>1, PlacesOf DEF OffLists, PlaceOK
  <2> QED BY <1>1, <2>2, <2>3, PlacesOf, NothingNewKeeps
<1>4. ListsInv' /\ AlarmsInv'
  <2>1. BlocksDiffer(timers')
    BY <1>2, QueueFacts DEF BlocksDiffer
  <2> QED BY <1>1, <2>1 DEF PlacesInv, ListsInv, AlarmsInv
<1> QED BY <1>3, <1>4 DEF PlacesInv

LEMMA PollTimerPlaces ==
    ASSUME CoreInv, PlacesInv, PollTimer
    PROVE  PlacesInv'
<1>1. /\ tick.at = "poll" /\ irq = "off" /\ tick'.at \in {"poll", "callback"}
      /\ tick'.at = "callback" => \E i \in DOMAIN timers : timers[i] = tick'.timer
      /\ UNCHANGED <<current, ready, state, call, waiting, timerOf, timers, irq>>
  <2>1. tick \in [at : TickPoints, idx : Nat \ {0},
                  timer : TimerRecord \cup {NoTimer}]
    BY PartsOfCore DEF TickRight
  <2>2. tick.idx \in DOMAIN timers
    <3>1. Len(timers) \in Nat /\ DOMAIN timers = 1 .. Len(timers)
      BY QueueFacts, LenProperties DEF RightTimers
    <3> QED BY <2>1, <3>1 DEF PollTimer
  <2> QED BY <2>1, <2>2 DEF PollTimer, TickIsAt, tcbVars, semaVars
<1>2. ASSUME NEW u \in Threads PROVE PlaceOK(u)'
  <2>1. NoNewPlace(u)
    BY <1>1, SameTimers DEF NoNewPlace
  <2>2. (OffLists(u)' => OffLists(u)) /\ (state'[u] = "NONE" => current' # u)
    BY <1>1, PlacesOf DEF OffLists, PlaceOK
  <2> QED BY <1>1, <2>1, <2>2, PlacesOf, NothingNewKeeps
<1>3. ListsInv' /\ AlarmsInv'
  BY <1>1 DEF PlacesInv, ListsInv, AlarmsInv
<1> QED BY <1>2, <1>3 DEF PlacesInv

\* A timeout, or the end of a delay, finds its thread where the timer says.
LEMMA CallbackPlaces ==
    ASSUME CoreInv, PlacesInv, Callback
    PROVE  PlacesInv'
<1>1. PICK k \in DOMAIN timers : timers[k] = tick.timer
  BY DEF Callback, TickIsAt, PlacesInv, AlarmsInv
<1> DEFINE v == timers[k]
<1>2. v \in TimerRecord /\ RightTimer(v) /\ tick.at = "callback" /\ irq = "off"
  BY <1>1, PartsOfCore DEF Callback, TickIsAt, TickRight
<1>3. PICK w \in Threads : w = v.tcb
  BY <1>2 DEF TimerRecord
<1>4. /\ ready' = PushIfRoom(ready, w)
      /\ timerOf' = [timerOf EXCEPT ![w] = NULL]
      /\ IF v.kind = "sema" THEN waiting' = [waiting EXCEPT ![v.sema] = Take(waiting[v.sema], w)]
         ELSE waiting' = waiting
      /\ tick'.at = "delete" /\ tick'.timer = v
      /\ UNCHANGED <<current, state, call, timers, irq>>
  <2>1. tick \in [at : TickPoints, idx : Nat \ {0},
                  timer : TimerRecord \cup {NoTimer}]
    BY PartsOfCore DEF TickRight
  <2> QED BY <1>1, <1>3, <2>1 DEF Callback
<1>5. Pending(v) /\ AlarmFits(w, v)
  BY <1>2, <1>3, PlacesOf DEF Pending, PlaceOK
<1> HIDE DEF v
<1>6. Absent(ready, w) /\ ~OffLists(w)
  BY <1>3, <1>5, PlacesOf DEF v, NoAlarm, PlaceOK, Nowhere
<1>7. Once(ready') /\ \A u \in Threads \ {w} : Absent(ready, u) => Absent(ready', u)
  BY <1>4, <1>6, QueueFacts, PushOnce, PushProperties DEF PushIfRoom
<1>8. /\ \A s \in Semas : Once(waiting'[s]) /\ Filed(waiting'[s]) /\ Absent(waiting'[s], w)
      /\ \A u, s : s \in Semas /\ Absent(waiting[s], u) => Absent(waiting'[s], u)
  <2>1. CASE v.kind = "sema"
    <3>1. PICK s \in Semas : s = v.sema
      BY <1>2, <2>1 DEF RightTimer
    <3>2. /\ Once(Take(waiting[s], w)) /\ Filed(Take(waiting[s], w))
          /\ Absent(Take(waiting[s], w), w)
          /\ \A u : Absent(waiting[s], u) => Absent(Take(waiting[s], w), u)
      BY QueueFacts, TakeOnce, TakeProperties
    <3>3. /\ \A x \in Semas : Once(waiting'[x]) /\ Filed(waiting'[x])
          /\ \A x \in Semas \ {s} : waiting'[x] = waiting[x]
          /\ waiting'[s] = Take(waiting[s], w)
      BY <1>4, <2>1, <3>1, <3>2, OneListPlaces
    <3>4. \A x \in Semas \ {s} : Absent(waiting[x], w)
      BY <1>5, <3>1 DEF AlarmFits
    <3> QED BY <3>2, <3>3, <3>4
  <2>2. CASE v.kind # "sema"
    BY <1>4, <1>5, <2>2, QueueFacts DEF AlarmFits
  <2> QED BY <2>1, <2>2
<1>9. \A i \in DOMAIN timers' : Pending(timers[i])' => timers[i] # v /\ Pending(timers[i])
  BY <1>2, <1>4 DEF Pending
<1>10. NoAlarm(w)'
  <2>1. ASSUME NEW i \in DOMAIN timers, Pending(timers[i])', timers[i].tcb = w PROVE FALSE
    <3>1. timers[i] # v /\ AlarmFits(w, timers[i])
      BY <1>4, <1>9, <2>1, PlacesOf DEF PlaceOK
    <3>2. timers[i].id = v.id
      BY <1>5, <3>1 DEF AlarmFits
    <3> QED BY <3>1, <3>2, QueueFacts DEF BlocksDiffer, v
  <2> QED BY <1>4, <2>1 DEF NoAlarm
<1>11. PlaceOK(w)'
  <2>1. WaitsNowhere(w)'
    BY <1>8 DEF WaitsNowhere
  <2>2. ~OffLists(w)'
    BY <1>4, <1>6 DEF OffLists
  <2> QED BY <1>10, <2>1, <2>2, ReadyKeeps
<1>12. ASSUME NEW u \in Threads \ {w} PROVE PlaceOK(u)'
  <2>1. NoNewAlarm(u)
    BY <1>4, <1>9 DEF NoNewAlarm
  <2>2. NoNewPlace(u)
    BY <1>7, <1>8, <2>1 DEF NoNewPlace
  <2>3. (OffLists(u)' => OffLists(u)) /\ (state'[u] = "NONE" => current' # u)
    BY <1>4, PlacesOf DEF OffLists, PlaceOK
  <2>4. timerOf'[u] = timerOf[u]
    BY <1>4, QueueFacts
  <2> QED BY <2>2, <2>3, <2>4, PlacesOf, NothingNewKeeps
<1>13. ListsInv' /\ AlarmsInv'
  <2>1. BlocksDiffer(timers') /\ \E i \in DOMAIN timers' : timers'[i] = tick'.timer
    BY <1>4, QueueFacts DEF v
  <2> QED BY <1>2, <1>4, <1>7, <1>8, <2>1 DEF ListsInv, AlarmsInv
<1> QED BY <1>11, <1>12, <1>13 DEF PlacesInv

\* No interrupt has freed the timer that was called back: it is the one that goes.
LEMMA OwnTimerGoes ==
    ASSUME PlacesInv, DeleteTimer
    PROVE  timers' = Without(tick.timer.id)
<1>1. PICK i \in DOMAIN timers : timers[i] = tick.timer
  BY DEF PlacesInv, AlarmsInv, DeleteTimer, TickIsAt
<1>2. tick.timer.id \in LiveBlocks
  BY <1>1 DEF LiveBlocks
<1> QED BY <1>2 DEF DeleteTimer

\* The timer that goes was no alarm any more; the others stay what they are.
LEMMA DeleteTimerPlaces ==
    ASSUME CoreInv, PlacesInv, DeleteTimer
    PROVE  PlacesInv'
<1>1. /\ tick.at = "delete" /\ irq = "off" /\ tick'.at = "poll"
      /\ timers' = Without(tick.timer.id)
      /\ UNCHANGED <<current, ready, state, call, waiting, timerOf, irq>>
  BY OwnTimerGoes DEF DeleteTimer, TickIsAt, TickOff, tcbVars, semaVars
<1>2. /\ BlocksDiffer(timers')
      /\ \A i \in DOMAIN timers' : \E j \in DOMAIN timers :
            timers'[i] = timers[j] /\ timers[j].id # tick.timer.id
  BY <1>1, QueueFacts, WithoutElements
<1>3. ASSUME NEW u \in Threads PROVE PlaceOK(u)'
  <2>1. NoNewAlarm(u)
    BY <1>2 DEF NoNewAlarm, Pending
  <2>2. NoNewPlace(u)
    BY <1>1, <2>1 DEF NoNewPlace
  <2>3. (OffLists(u)' => OffLists(u)) /\ (state'[u] = "NONE" => current' # u)
    BY <1>1, PlacesOf DEF OffLists, PlaceOK
  <2> QED BY <1>1, <2>2, <2>3, PlacesOf, NothingNewKeeps
<1>4. ListsInv' /\ AlarmsInv'
  BY <1>1, <1>2 DEF PlacesInv, ListsInv, AlarmsInv
<1> QED BY <1>3, <1>4 DEF PlacesInv

-----------------------------------------------------------------------------
(* Every step keeps the invariant. *)

LEMMA InitPlaces == Init => PlacesInv
<1> SUFFICES ASSUME Init PROVE PlacesInv
  OBVIOUS
<1>1. /\ EmptyQueue \in PriorQueue /\ Filed(EmptyQueue) /\ Once(EmptyQueue)
      /\ \A t : Absent(EmptyQueue, t)
  BY EmptyQueueIsRight DEF Once, EmptyQueue
<1>2. ready = Push(EmptyQueue, Idle)
  BY DEF Init
<1>3. Once(ready) /\ \A t \in Threads \ {Idle} : Absent(ready, t)
  BY <1>1, <1>2, IdleFacts, PushOnce, PushProperties
<1>4. /\ current = NULL /\ timers = <<>> /\ tick.at = "off" /\ irq = "off"
      /\ \A s \in Semas : waiting[s] = EmptyQueue
      /\ state[Idle] = "READY"
  BY IdleFacts DEF Init, TickOff
<1>5. DOMAIN timers = {}
  BY <1>4
<1>6. ASSUME NEW t \in Threads PROVE PlaceOK(t)
  <2>1. WaitsNowhere(t) /\ NoAlarm(t) /\ current # t
    BY <1>1, <1>4, <1>5, IdleFacts DEF WaitsNowhere, NoAlarm
  <2>2. OffLists(t) => Absent(ready, t)
    BY <1>3, <1>4, <2>1 DEF OffLists
  <2> QED BY <1>5, <2>1, <2>2 DEF PlaceOK, WaitsNowhere, Nowhere
<1>7. ListsInv /\ AlarmsInv
  BY <1>1, <1>3, <1>4, <1>5 DEF ListsInv, AlarmsInv, BlocksDiffer
<1> QED BY <1>6, <1>7 DEF PlacesInv

\* A thread's step.
LEMMA ThreadStepPlaces ==
    ASSUME IdleAlone, CoreInv, PlacesInv, NEW t \in Threads, ThreadStep(t)
    PROVE  PlacesInv'
<1>1. ASSUME NEW new \in Threads, ThreadCreate(t, new) PROVE PlacesInv'
  <2>1. /\ OffLists(t) /\ current = t /\ tick.at = "off" /\ irq = "off"
        /\ Enqueue(new) /\ Goto(t, "resched")
    BY <1>1, CallerIsNowhere DEF ThreadCreate, Calling
  <2>2. \A u \in Threads \ {t} : call'[u] = call[u]
    BY <2>1, QueueFacts DEF Goto
  <2>3. ASSUME NEW u \in Threads \ {new} PROVE OffLists(u)' => OffLists(u)
    BY <2>1, <2>2 DEF Enqueue, OffLists
  <2> QED BY <2>1, <2>3, EnqueuePlaces
<1>2. ASSUME NEW n \in 1 .. MaxTicks, DelayTick(t, n) PROVE PlacesInv'
  BY <1>2, DelayTickPlaces
<1>3. CASE DelayTickNoTimer(t)
  <2>1. /\ OffLists(t) /\ current = t /\ state[t] # "NONE" /\ irq = "off"
        /\ state' = [state EXCEPT ![t] = "SUSPEND"]
        /\ UNCHANGED <<current, ready, call, waiting, timers, timerOf, tick, irq>>
    BY <1>3, CallerIsNowhere DEF DelayTickNoTimer, Calling, semaVars, isrVars
  <2>2. \A u \in Threads : OffLists(u)' => OffLists(u)
    BY <2>1, QueueFacts DEF OffLists
  <2>3. \A u \in Threads : state'[u] = "NONE" => current' # u
    BY <2>1, QueueFacts, PlacesOf DEF PlaceOK
  <2> QED BY <2>1, <2>2, <2>3, QuietKeeps
<1>4. ASSUME NEW s \in Semas, SemaAcquire(t, s) PROVE PlacesInv'
  BY <1>4, CallKeepsPlaces DEF SemaAcquire, Calling, TakeCount, tcbVars, isrVars
<1>5. ASSUME NEW s \in Semas, NEW n \in (1 .. MaxTicks) \cup {Forever}, SemaAcquireWait(t, s, n)
      PROVE  PlacesInv'
  BY <1>5, SemaAcquireWaitPlaces
<1>6. ASSUME NEW s \in Semas, SemaAcquireNoTimer(t, s) PROVE PlacesInv'
  BY <1>6, SemaAcquireNoTimerPlaces
<1>7. CASE SemaAcquireReturn(t)
  <2>1. \A u \in Threads \ {t} : call'[u] = call[u]
    BY <1>7, QueueFacts, GotoAndReturn DEF SemaAcquireReturn
  <2> QED BY <1>7, <2>1, CallKeepsPlaces DEF SemaAcquireReturn, tcbVars, isrVars
<1>8. ASSUME NEW s \in Semas, SemaGive(t, s) PROVE PlacesInv'
  BY <1>8, SemaGivePlaces
<1>9. ASSUME NEW s \in Semas, SemaDestroy(t, s) PROVE PlacesInv'
  <2>1. \A u \in Threads \ {t} : call'[u] = call[u]
    BY <1>9, QueueFacts DEF SemaDestroy
  <2> QED BY <1>9, <2>1, CallKeepsPlaces DEF SemaDestroy, Calling, tcbVars, isrVars
<1>10. CASE SemaDestroyWake(t)
  BY <1>10, SemaDestroyWakePlaces
<1>11. CASE SemaDestroyNoMore(t)
  <2>1. \A u \in Threads \ {t} : call'[u] = call[u]
    BY <1>11, QueueFacts DEF SemaDestroyNoMore, Goto
  <2> QED BY <1>11, <2>1, CallKeepsPlaces DEF SemaDestroyNoMore, tcbVars, semaVars, isrVars
<1>12. CASE SemaDestroyFree(t)
  <2>1. \A u \in Threads \ {t} : call'[u] = call[u]
    BY <1>12, QueueFacts DEF SemaDestroyFree, Goto, Return
  <2> QED BY <1>12, <2>1, CallKeepsPlaces DEF SemaDestroyFree, tcbVars, isrVars
<1>13. CASE Reschedule(t)
  <2>1. /\ started /\ Scheduler(FALSE) /\ tick.at = "off" /\ irq = "off"
        /\ UNCHANGED <<waiting, timers, timerOf, tick, irq>>
    BY <1>13 DEF Reschedule, InThread, semaVars, isrVars
  <2> QED BY <2>1, SchedulerPlaces
<1> QED BY <1>1, <1>2, <1>3, <1>4, <1>5, <1>6, <1>7, <1>8, <1>9, <1>10, <1>11, <1>12, <1>13
        DEF ThreadStep

\* With no nesting, a device interrupt never finds the tick interrupt at work.
LEMMA StepPlaces ==
    ASSUME IdleAlone, ~Nested, CoreInv, PlacesInv, [Next]_vars
    PROVE  PlacesInv'
<1>1. CASE Boot
  <2>1. ASSUME NEW t \in Threads, CreateBeforeStart(t) PROVE PlacesInv'
    <3>1. tick.at = "off" /\ irq = "off" /\ Enqueue(t) /\ UNCHANGED <<call, current>>
      BY <2>1, PartsOfCore DEF CreateBeforeStart, Enqueue, TickRight
    <3>2. ASSUME NEW u \in Threads \ {t} PROVE OffLists(u)' => OffLists(u)
      BY <3>1 DEF Enqueue, OffLists
    <3> QED BY <3>1, <3>2, EnqueuePlaces
  <2> QED BY <1>1, <2>1, KernelStartPlaces DEF Boot
<1>2. CASE \E t \in Threads : ThreadStep(t)
  BY <1>2, ThreadStepPlaces
<1>3. ASSUME NEW s \in Semas, NEW n \in 0 .. MaxCount, SemaCreate(s, n) PROVE PlacesInv'
  <2>1. tick.at = "off"
    BY <1>3, PartsOfCore DEF SemaCreate, Calling, At, InThread, TickRight
  <2> QED BY <1>3, <2>1, SemaCreatePlaces
<1>4. CASE Tick
  <2>1. CASE TickExit
    <3>1. /\ started /\ Scheduler(TRUE) /\ tick.at = "poll" /\ irq = "off" /\ tick'.at = "off"
          /\ UNCHANGED <<waiting, timers, timerOf, irq>>
      BY <2>1, PartsOfCore DEF TickExit, TickIsAt, TickOff, TickRight, semaVars
    <3> QED BY <3>1, SchedulerPlaces
  <2> QED BY <1>4, <2>1, TickCountPlaces, PollTimerPlaces, CallbackPlaces, DeleteTimerPlaces
          DEF Tick
<1>5. CASE Irq
  <2>1. ASSUME NEW s \in Semas, IrqGive(s) PROVE PlacesInv'
    <3>1. tick.at = "off" /\ UNCHANGED <<call, tick>>
      BY <2>1 DEF IrqGive, DeviceMayInterrupt
    <3>2. CASE Increment(s)
      BY <3>1, <3>2, IrqKeepsPlaces DEF Increment, tcbVars
    <3>3. ASSUME NEW w \in Threads, HandOver(s, w) PROVE PlacesInv'
      <4>1. \A u \in Threads : OffLists(u)' => OffLists(u)
        BY <3>1, <3>3 DEF HandOver, OffLists
      <4> QED BY <3>1, <3>3, <4>1, HandOverPlaces
    <3> QED BY <2>1, <3>2, <3>3 DEF IrqGive
  <2>2. ASSUME NEW s \in Semas, IrqAcquire(s) PROVE PlacesInv'
    BY <2>2, IrqKeepsPlaces DEF IrqAcquire, DeviceMayInterrupt, TakeCount, tcbVars
  <2>3. CASE IrqExit
    <3>1. /\ started /\ Scheduler(FALSE) /\ tick.at = "off" /\ irq' = "off"
          /\ UNCHANGED <<waiting, timers, timerOf, tick>>
      BY <2>3, PartsOfCore DEF IrqExit, TickRight, PlacesInv, AlarmsInv, semaVars
    <3> QED BY <3>1, SchedulerPlaces
  <2> QED BY <1>5, <2>1, <2>2, <2>3 DEF Irq
<1>6. CASE UNCHANGED vars
  <2>1. \A u \in Threads : OffLists(u)' => OffLists(u)
    BY <1>6 DEF vars, tcbVars, OffLists
  <2>2. \A u \in Threads : state'[u] = "NONE" => current' # u
    BY <1>6, PlacesOf DEF vars, tcbVars, PlaceOK
  <2>3. irq' = "exit" => tick.at = "off"
    BY <1>6 DEF vars, isrVars, PlacesInv, AlarmsInv
  <2> QED BY <1>6, <2>1, <2>2, <2>3, QuietKeeps DEF vars, tcbVars, semaVars, isrVars
<1> QED BY <1>1, <1>2, <1>3, <1>4, <1>5, <1>6 DEF Next

-----------------------------------------------------------------------------
(* The theorem. *)

LEMMA QueuedOrAbsent ==
    ASSUME NEW q \in PriorQueue, NEW t
    PROVE  Queued(q, t) <=> ~Absent(q, t)
<1>1. \A p \in Priorities : DOMAIN q.fifo[p] = 1 .. Len(q.fifo[p])
  BY LenProperties DEF PriorQueue
<1> QED BY <1>1 DEF Queued, Absent, Contains

\* A set no two elements of which differ has at most one.
LEMMA AtMostOne ==
    ASSUME NEW S, \A x, y \in S : x = y
    PROVE  Cardinality(S) <= 1
<1>1. CASE S = {}
  BY <1>1, FS_EmptySet
<1>2. CASE S # {}
  <2>1. PICK x \in S : TRUE
    BY <1>2
  <2>2. S = {x}
    BY <2>1
  <2> QED BY <2>2, FS_Singleton
<1> QED BY <1>1, <1>2

LEMMA OnePlaceEach ==
    ASSUME CoreInv, PlacesInv, NEW t \in Threads
    PROVE  Cardinality(Places(t)) <= 1
<1> DEFINE C == IF current = t /\ ~Suspending(t) THEN {"current"} ELSE {}
           R == IF Queued(ready, t) THEN {"ready"} ELSE {}
           W == {s \in Semas : Waits(t, s)}
           D == IF Delayed(t) THEN {"delayed"} ELSE {}
<1>1. PlaceOK(t)
  BY PlacesOf
<1>2. /\ Queued(ready, t) <=> ~Absent(ready, t)
      /\ \A s \in Semas : Waits(t, s) <=> ~Absent(waiting[s], t)
  BY QueueFacts, QueuedOrAbsent DEF Waits
<1>3. Delayed(t) => ~NoAlarm(t) /\ WaitsNowhere(t)
  <2>1. ASSUME Delayed(t) PROVE ~NoAlarm(t) /\ WaitsNowhere(t)
    <3>1. PICK i \in DOMAIN timers :
              timers[i].tcb = t /\ timers[i].kind = "delay" /\ Pending(timers[i])
      BY <2>1 DEF Delayed, Pending
    <3> QED BY <1>1, <3>1 DEF PlaceOK, AlarmFits, WaitsNowhere, NoAlarm
  <2> QED BY <2>1
<1>4. current = t /\ ~Suspending(t) => R = {} /\ W = {} /\ D = {}
  <2>1. current = t /\ ~Suspending(t) => Nowhere(t)
    BY <1>1 DEF Suspending, OffLists, PlaceOK
  <2> QED BY <1>2, <1>3, <2>1 DEF Nowhere, WaitsNowhere
<1>5. Queued(ready, t) => W = {} /\ D = {}
  BY <1>1, <1>2, <1>3 DEF PlaceOK, WaitsNowhere
<1>6. Delayed(t) => W = {}
  BY <1>2, <1>3 DEF WaitsNowhere
<1>7. \A x, y \in W : x = y
  BY <1>1, <1>2 DEF PlaceOK
<1>8. \A x, y \in C \cup R \cup W \cup D : x = y
  <2> DEFINE c == current = t /\ ~Suspending(t)
  <2>1. CASE c
    <3>1. C \cup R \cup W \cup D = {"current"}
      BY <1>4, <2>1
    <3> QED BY <3>1
  <2>2. CASE ~c /\ Queued(ready, t)
    <3>1. C \cup R \cup W \cup D = {"ready"}
      BY <1>5, <2>2
    <3> QED BY <3>1
  <2>3. CASE ~c /\ ~Queued(ready, t) /\ Delayed(t)
    <3>1. C \cup R \cup W \cup D = {"delayed"}
      BY <1>6, <2>3
    <3> QED BY <3>1
  <2>4. CASE ~c /\ ~Queued(ready, t) /\ ~Delayed(t)
    <3>1. C \cup R \cup W \cup D = W
      BY <2>4
    <3> QED BY <1>7, <3>1
  <2> QED BY <2>1, <2>2, <2>3, <2>4
<1> QED BY <1>8, AtMostOne DEF Places

\* Where interrupts do not nest, no thread is on two of the kernel's queues, or
\* on one while it runs, and none is on a queue twice, whatever room there is:
\* no give, destroy or timeout makes the same thread ready a second time.
\* AtMostOnePlace of the runs.
THEOREM OnePlaceAtMost ==
    ASSUME IdleAlone, ~Nested
    PROVE  Spec => []AtMostOnePlace
<1>1. CoreInv /\ PlacesInv /\ [Next]_vars => PlacesInv'
  BY StepPlaces
<1>2. ASSUME CoreInv, PlacesInv PROVE AtMostOnePlace
  <2>1. \A t \in Threads : Cardinality(Places(t)) <= 1
    BY <1>2, OnePlaceEach
  <2>2. ASSUME NEW q, Once(q), Filed(q) PROVE WellFiled(q)
    BY <2>2 DEF WellFiled, Once, Filed
  <2> QED BY <1>2, <2>1, <2>2, QueueFacts DEF AtMostOnePlace
<1> QED BY CoreInvariant, InitPlaces, <1>1, <1>2, PTL DEF Spec

-----------------------------------------------------------------------------
(* Waits and their timeouts. *)

\* Every FIFO of the ready queue holds all threads of its priority.
FifosHoldAll ==
    \A p \in Priorities : Cardinality({t \in Threads : Prio[t] = p}) <= FifoCap

\* The timer table holds a timer for every thread but idle, which has none.
TimersForAll == Cardinality(Threads \ {Idle}) <= TimerCap

-----------------------------------------------------------------------------
(* What the queue operations leave where it is. *)

\* A push moves nobody else, and the TCB is in the queue after it.
LEMMA PushLeaves ==
    ASSUME NEW q \in PriorQueue, NEW t \in Threads
    PROVE  /\ ~Absent(Push(q, t), t)
           /\ \A u : Absent(Push(q, t), u) => Absent(q, u)
<1> DEFINE h == Prio[t]
           f == q.fifo[h]
<1>1. h \in Priorities /\ f \in Seq(Threads)
  BY PrioritiesAreSmall DEF PriorQueue
<1>2. /\ Push(q, t).fifo[h] = Append(f, t)
      /\ \A p \in Priorities \ {h} : Push(q, t).fifo[p] = q.fifo[p]
  BY PushProperties
<1>3. Len(f) \in Nat /\ DOMAIN f = 1 .. Len(f)
  BY <1>1, LenProperties
<1>4. /\ Append(f, t) \in Seq(Threads)
      /\ Len(Append(f, t)) = Len(f) + 1
      /\ \A i \in 1 .. Len(f) : Append(f, t)[i] = f[i]
      /\ Append(f, t)[Len(f) + 1] = t
  BY <1>1, AppendProperties
<1>5. DOMAIN Append(f, t) = 1 .. Len(f) + 1
  BY <1>4, LenProperties
<1>6. Len(f) + 1 \in 1 .. Len(f) + 1 /\ \A i \in 1 .. Len(f) : i \in 1 .. Len(f) + 1
  BY <1>3
<1> HIDE DEF h, f
<1>7. ~Absent(Push(q, t), t)
  BY <1>1, <1>2, <1>4, <1>5, <1>6 DEF Absent
<1>8. ASSUME NEW u, Absent(Push(q, t), u) PROVE Absent(q, u)
  <2>1. \A i \in DOMAIN f : f[i] # u
    BY <1>1, <1>2, <1>3, <1>4, <1>5, <1>6, <1>8 DEF Absent
  <2> QED BY <1>2, <1>8, <2>1 DEF Absent, f
<1> QED BY <1>7, <1>8

\* Pop takes away the foremost TCB alone.
LEMMA PopLeaves ==
    ASSUME NEW q \in PriorQueue, Filed(q)
    PROVE  \A u : u # Foremost(q) /\ Absent(Pop(q), u) => Absent(q, u)
<1>1. CASE Foremost(q) = NULL
  BY <1>1, PopProperties
<1>2. CASE Foremost(q) # NULL
  <2> DEFINE h == Prio[Foremost(q)]
             f == q.fifo[h]
  <2>1. /\ f # <<>> /\ Head(f) = Foremost(q) /\ h \in Priorities
        /\ Pop(q).fifo[h] = Tail(f)
        /\ \A p \in Priorities \ {h} : Pop(q).fifo[p] = q.fifo[p]
    BY <1>2, PopProperties, PrioritiesAreSmall
  <2>2. f \in Seq(Threads)
    BY <2>1 DEF PriorQueue
  <2> HIDE DEF h
  <2>3. /\ Len(f) \in Nat /\ DOMAIN f = 1 .. Len(f)
        /\ Head(f) = f[1]
        /\ Tail(f) \in Seq(Threads) /\ Len(Tail(f)) = Len(f) - 1
        /\ \A i \in 1 .. Len(Tail(f)) : Tail(f)[i] = f[i + 1]
    BY <2>1, <2>2, LenProperties, HeadTailProperties
  <2>4. DOMAIN Tail(f) = 1 .. Len(f) - 1
    BY <2>3, LenProperties
  <2>5. \A i \in 1 .. Len(f) : i = 1 \/ (i - 1 \in 1 .. Len(f) - 1 /\ (i - 1) + 1 = i)
    BY <2>3
  <2> HIDE DEF f
  <2>6. ASSUME NEW u, u # Foremost(q), Absent(Pop(q), u) PROVE Absent(q, u)
    <3>1. \A i \in 1 .. Len(f) - 1 : Tail(f)[i] # u
      BY <2>1, <2>4, <2>6 DEF Absent
    <3>2. \A i \in 1 .. Len(f) : f[i] # u
      BY <2>1, <2>3, <2>5, <2>6, <3>1
    <3> QED BY <2>1, <2>3, <2>6, <3>2 DEF Absent, f
  <2> QED BY <2>6
<1> QED BY <1>1, <1>2

\* Taking the k-th element out of a sequence leaves the others.
LEMMA RemoveAtLeaves ==
    ASSUME NEW S, NEW s \in Seq(S), NEW k \in 1 .. Len(s), NEW j \in 1 .. Len(s), j # k
    PROVE  \E i \in DOMAIN RemoveAt(s, k) : RemoveAt(s, k)[i] = s[j]
<1>1. Len(s) \in Nat
  BY LenProperties
<1>2. /\ RemoveAt(s, k) \in Seq(S)
      /\ Len(RemoveAt(s, k)) = Len(s) - 1
      /\ \A i \in 1 .. Len(RemoveAt(s, k)) :
            RemoveAt(s, k)[i] = IF i < k THEN s[i] ELSE s[i + 1]
  BY RemoveAtElements
<1>3. DOMAIN RemoveAt(s, k) = 1 .. Len(s) - 1
  BY <1>2, LenProperties
<1> DEFINE i == IF j < k THEN j ELSE j - 1
<1>4. i \in 1 .. Len(s) - 1 /\ (IF i < k THEN i ELSE i + 1) = j
  BY <1>1
<1> HIDE DEF i
<1>5. RemoveAt(s, k)[i] = s[j]
  BY <1>2, <1>4
<1> QED BY <1>3, <1>4, <1>5

\* Take moves nobody else.
LEMMA TakeLeaves ==
    ASSUME NEW q \in PriorQueue, NEW t \in Threads
    PROVE  \A u : u # t /\ Absent(Take(q, t), u) => Absent(q, u)
<1> DEFINE h == Prio[t]
           f == q.fifo[h]
           r == RemoveFirst(f, t)
<1>1. h \in Priorities /\ q.fifo \in [Priorities -> Seq(Threads)] /\ f \in Seq(Threads)
  BY PrioritiesAreSmall DEF PriorQueue
<1>2. Take(q, t).fifo = [q.fifo EXCEPT ![h] = r]
  BY DEF Take
<1>3. Len(f) \in Nat /\ DOMAIN f = 1 .. Len(f)
  BY <1>1, LenProperties
<1>4. ASSUME NEW j \in DOMAIN f, f[j] # t PROVE \E i \in DOMAIN r : r[i] = f[j]
  <2>1. CASE \E i \in 1 .. Len(f) : f[i] = t
    <3> DEFINE I == {i \in 1 .. Len(f) : f[i] = t}
               k == Min(I)
    <3>1. I \subseteq Nat /\ I # {}
      BY <2>1
    <3>2. k \in 1 .. Len(f) /\ f[k] = t
      <4> HIDE DEF I
      <4>1. k \in I
        BY <3>1, MinOfNaturals
      <4> QED BY <4>1 DEF I
    <3>3. r = RemoveAt(f, k)
      BY <2>1 DEF RemoveFirst, SelectInSeq
    <3> HIDE DEF k, f, r
    <3> QED BY <1>1, <1>3, <1>4, <3>2, <3>3, RemoveAtLeaves
  <2>2. CASE ~ \E i \in 1 .. Len(f) : f[i] = t
    <3>1. r = f
      BY <2>2 DEF RemoveFirst
    <3> QED BY <1>4, <3>1
  <2> QED BY <2>1, <2>2
<1> HIDE DEF h, r
<1>5. \A p \in Priorities : Take(q, t).fifo[p] = IF p = h THEN r ELSE q.fifo[p]
  BY <1>1, <1>2
<1>6. ASSUME NEW u, u # t, Absent(Take(q, t), u) PROVE Absent(q, u)
  <2>1. \A i \in DOMAIN r : r[i] # u
    BY <1>1, <1>5, <1>6 DEF Absent
  <2>2. \A j \in DOMAIN f : f[j] # u
    BY <1>4, <1>6, <2>1
  <2> QED BY <1>5, <1>6, <2>2 DEF Absent
<1> QED BY <1>6

\* timer_delete leaves the other blocks' timers.
LEMMA WithoutLeaves ==
    ASSUME RightTimers(timers), NEW id, NEW j \in DOMAIN timers, timers[j].id # id
    PROVE  \E i \in DOMAIN Without(id) : Without(id)[i] = timers[j]
<1>1. Len(timers) \in Nat /\ DOMAIN timers = 1 .. Len(timers)
  BY LenProperties DEF RightTimers
<1>2. CASE \E i \in 1 .. Len(timers) : timers[i].id = id
  <2> DEFINE I == {i \in 1 .. Len(timers) : timers[i].id = id}
             k == Min(I)
  <2>1. I \subseteq Nat /\ I # {}
    BY <1>2
  <2>2. k \in 1 .. Len(timers) /\ timers[k].id = id
    <3> HIDE DEF I
    <3>1. k \in I
      BY <2>1, MinOfNaturals
    <3> QED BY <3>1 DEF I
  <2>3. Without(id) = RemoveAt(timers, k)
    BY <1>2 DEF Without, RemoveFirstMatch, SelectInSeq
  <2> HIDE DEF k
  <2>4. j # k /\ j \in 1 .. Len(timers)
    BY <1>1, <2>2
  <2> QED BY <2>2, <2>3, <2>4, RemoveAtLeaves DEF RightTimers
<1>3. CASE ~ \E i \in 1 .. Len(timers) : timers[i].id = id
  <2>1. Without(id) = timers
    BY <1>3 DEF Without, RemoveFirstMatch
  <2> QED BY <2>1
<1> QED BY <1>2, <1>3

-----------------------------------------------------------------------------
(* Room. *)

\* A sequence of different elements is no longer than the set they are from.
LEMMA DifferFit ==
    ASSUME NEW S, IsFiniteSet(S), NEW s, NEW n \in Nat, DOMAIN s = 1 .. n,
           \A i \in 1 .. n : s[i] \in S, AllDiffer(s)
    PROVE  n <= Cardinality(S)
<1> DEFINE f == [i \in 1 .. n |-> s[i]]
<1>1. f \in Injection(1 .. n, S)
  BY DEF Injection, IsInjective, AllDiffer
<1> HIDE DEF f
<1>2. Cardinality(1 .. n) <= Cardinality(S)
  BY <1>1, FS_Injection
<1>3. Cardinality(1 .. n) = n
  BY FS_Interval
<1> QED BY <1>2, <1>3

\* There is room for a TCB that is not in the queue.
LEMMA RoomForAll ==
    ASSUME FifosHoldAll, NEW q \in PriorQueue, Filed(q), Once(q),
           NEW t \in Threads, Absent(q, t)
    PROVE  HasRoom(q, t) /\ PushIfRoom(q, t) = Push(q, t)
<1> DEFINE p == Prio[t]
           f == q.fifo[p]
           C == {u \in Threads : Prio[u] = p}
<1>1. p \in Priorities /\ f \in Seq(Threads)
  BY PrioritiesAreSmall DEF PriorQueue
<1>2. Len(f) \in Nat /\ DOMAIN f = 1 .. Len(f)
  BY <1>1, LenProperties
<1>3. \A i \in 1 .. Len(f) : f[i] \in C \ {t}
  <2>1. \A i \in 1 .. Len(f) : f[i] \in Threads
    BY <1>1, ElementOfSeq
  <2>2. \A i \in 1 .. Len(f) : Prio[f[i]] = p /\ f[i] # t
    BY <1>1, <1>2 DEF Filed, Absent
  <2> QED BY <2>1, <2>2
<1>4. AllDiffer(f)
  BY <1>1, OnceByFifo
<1>5. IsFiniteSet(C) /\ t \in C /\ Cardinality(C) <= FifoCap
  <2>1. C \in SUBSET Threads
    OBVIOUS
  <2> QED BY <1>1, <2>1, FS_Subset, QueueAssumption DEF FifosHoldAll
<1> HIDE DEF p, f, C
<1>6. /\ IsFiniteSet(C \ {t}) /\ Cardinality(C \ {t}) = Cardinality(C) - 1
      /\ Cardinality(C) \in Nat
  BY <1>5, FS_RemoveElement, FS_CardinalityType
<1>7. Len(f) <= Cardinality(C \ {t})
  BY <1>2, <1>3, <1>4, <1>6, DifferFit
<1>8. FifoCap \in Nat
  BY QueueAssumption
<1>9. HasRoom(q, t)
  BY <1>2, <1>5, <1>6, <1>7, <1>8 DEF HasRoom, f, p
<1> QED BY <1>9 DEF PushIfRoom

-----------------------------------------------------------------------------
(* The invariant. *)

NobodyWaits(s) == \A t \in Threads : Absent(waiting[s], t)

\* A waiting thread is in its call on that semaphore; a timeout stands for a
\* wait; and if a waiting thread points at a timer, there is one.
WaitOK(t) ==
    /\ \A s \in Semas : ~Absent(waiting[s], t) =>
          call[t].at \in {"suspended", "woken"} /\ call[t].sema = s
    /\ \A i \in DOMAIN timers :
          Pending(timers[i]) /\ timers[i].tcb = t /\ timers[i].kind = "sema" =>
            ~Absent(waiting[timers[i].sema], t)
    /\ timerOf[t] # NULL => WaitsNowhere(t) \/ ~NoAlarm(t)

\* Destroy frees a semaphore only when its list is empty, and from its start
\* nobody joins the list.
SemasInv ==
    /\ \A s \in Semas : phase[s] = "freed" => NobodyWaits(s)
    /\ \A t \in Threads : call[t].at = "freeing" => NobodyWaits(call[t].sema)
    /\ \A t \in Threads : call[t].at \in {"destroying", "freeing"} =>
          phase[call[t].sema] # "live"

\* The thread whose callback has been run has no other timer.
FiredIsQuiet == tick.at = "delete" => NoAlarm(tick.timer.tcb)

WaitsInv == (\A t \in Threads : WaitOK(t)) /\ SemasInv /\ FiredIsQuiet

\* A step leaves the thread on the lists and behind the timer it was.
StaysPut(t) ==
    /\ \A s \in Semas : Absent(waiting'[s], t) <=> Absent(waiting[s], t)
    /\ NoNewAlarm(t)
    /\ NoAlarm(t)' => NoAlarm(t)
    /\ timerOf'[t] = timerOf[t]

\* A thread is ready after the step, or stays where it was.
Kept(t) == ~Absent(ready', t) \/ (Absent(ready, t) /\ StaysPut(t))

\* A waiting thread stays in its call, which the scheduler may find suspended.
CallGoesOn(t) ==
    WaitsNowhere(t) \/ (/\ call[t].at \in {"suspended", "woken"} => call'[t].at \in {"suspended", "woken"}
                        /\ call'[t].sema = call[t].sema)

LEMMA StaysKeeps ==
    ASSUME CoreInv, NEW t \in Threads, WaitOK(t), StaysPut(t), CallGoesOn(t)
    PROVE  WaitOK(t)'
<1>1. ASSUME NEW s \in Semas, ~Absent(waiting'[s], t)
      PROVE  call'[t].at \in {"suspended", "woken"} /\ call'[t].sema = s
  BY <1>1 DEF StaysPut, CallGoesOn, WaitOK, WaitsNowhere
<1>2. ASSUME NEW i \in DOMAIN timers', Pending(timers[i])', timers'[i].tcb = t,
             timers'[i].kind = "sema", Absent(waiting'[timers'[i].sema], t)
      PROVE  FALSE
  <2>1. PICK j \in DOMAIN timers :
            /\ Pending(timers[j]) /\ timers[j].tcb = t
            /\ timers'[i].kind = timers[j].kind /\ timers'[i].sema = timers[j].sema
    BY <1>2 DEF StaysPut, NoNewAlarm
  <2>2. ~Absent(waiting[timers[j].sema], t)
    BY <1>2, <2>1 DEF WaitOK
  <2>3. timers[j].sema \in Semas
    BY <1>2, <2>1, PartsOfCore DEF RightTimers, RightTimer
  <2> QED BY <1>2, <2>1, <2>2, <2>3 DEF StaysPut
<1>3. timerOf'[t] # NULL => WaitsNowhere(t)' \/ ~NoAlarm(t)'
  BY DEF StaysPut, WaitOK, WaitsNowhere
<1> QED BY <1>1, <1>2, <1>3 DEF WaitOK

\* A thread that runs or is ready waits for nothing.
LEMMA SettledWaits ==
    ASSUME NEW t \in Threads, PlaceOK(t)', ~Absent(ready', t) \/ OffLists(t)'
    PROVE  WaitOK(t)' /\ NoAlarm(t)'
<1>1. WaitsNowhere(t)' /\ NoAlarm(t)'
  BY DEF PlaceOK, Nowhere
<1> QED BY <1>1 DEF WaitOK, WaitsNowhere, NoAlarm

LEMMA WaitsOf == ASSUME WaitsInv, NEW t \in Threads PROVE WaitOK(t)
  BY DEF WaitsInv

LEMMA PlacesOfNext == ASSUME PlacesInv', NEW t \in Threads PROVE PlaceOK(t)'
  BY DEF PlacesInv

\* Where the timers are untouched, so are the alarms.
LEMMA AlarmsStay ==
    ASSUME UNCHANGED timers, tick.at # "delete", tick'.at # "delete", NEW t
    PROVE  NoNewAlarm(t) /\ (NoAlarm(t)' => NoAlarm(t))
  BY AllPending, SameTimers DEF NoAlarm

\* The life of a semaphore, where its phase does not change.
LEMMA SemasKeep ==
    ASSUME SemasInv, CallsInv, UNCHANGED phase,
           \A s \in Semas : \/ phase[s] = "live"
                            \/ \A u \in Threads : Absent(waiting[s], u) => Absent(waiting'[s], u),
           \A t \in Threads : call'[t].at \in {"destroying", "freeing"} =>
              call'[t].at = call[t].at /\ call'[t].sema = call[t].sema
    PROVE  SemasInv'
<1>1. \A s \in Semas : phase[s] # "live" /\ NobodyWaits(s) => NobodyWaits(s)'
  BY DEF NobodyWaits
<1>2. ASSUME NEW s \in Semas, phase'[s] = "freed" PROVE NobodyWaits(s)'
  BY <1>1, <1>2 DEF SemasInv
<1>3. ASSUME NEW t \in Threads, call'[t].at \in {"destroying", "freeing"}
      PROVE  phase'[call'[t].sema] # "live"
  BY <1>3 DEF SemasInv
<1>4. ASSUME NEW t \in Threads, call'[t].at = "freeing"
      PROVE  NobodyWaits(call[t].sema)'
  <2>1. call[t].at = "freeing" /\ call'[t].sema = call[t].sema
    BY <1>4
  <2>2. PICK s \in Semas : s = call[t].sema
    BY <2>1 DEF CallsInv
  <2>3. NobodyWaits(s)'
    BY <1>1, <2>1, <2>2 DEF SemasInv
  <2> QED BY <2>1, <2>2, <2>3 DEF NobodyWaits
<1> QED BY <1>2, <1>3, <1>4 DEF SemasInv

\* A step that moves nobody: only a caller goes on in its call.
LEMMA QuietWaits ==
    ASSUME CoreInv, WaitsInv, UNCHANGED <<waiting, timers, timerOf, phase>>,
           tick.at # "delete", tick'.at # "delete",
           \A u \in Threads : CallGoesOn(u),
           \A u \in Threads : call'[u].at \in {"destroying", "freeing"} =>
              call'[u].at = call[u].at /\ call'[u].sema = call[u].sema
    PROVE  WaitsInv'
<1>1. ASSUME NEW u \in Threads PROVE WaitOK(u)'
  <2>1. StaysPut(u)
    BY AlarmsStay DEF StaysPut
  <2> QED BY <2>1, WaitsOf, StaysKeeps
<1>2. SemasInv'
  BY SemasKeep, PartsOfCore DEF WaitsInv, CallsRight
<1> QED BY <1>1, <1>2 DEF WaitsInv, FiredIsQuiet

\* A caller is on no list, so its call may go on as it likes.
LEMMA CallerWaits ==
    ASSUME CoreInv, PlacesInv, WaitsInv, NEW t \in Threads,
           NEW point \in {"app", "woken", "destroying", "freeing"}, At(t, point),
           \A u \in Threads \ {t} : call'[u] = call[u]
    PROVE  /\ \A u \in Threads : CallGoesOn(u)
           /\ tick.at = "off" /\ irq = "off"
<1>1. WaitsNowhere(t) /\ tick.at = "off" /\ irq = "off"
  BY CallerIsNowhere DEF Nowhere
<1> QED BY <1>1 DEF CallGoesOn

-----------------------------------------------------------------------------
(* Threads that sleep and wait. *)

\* timer_create_new leaves the other timers, and its own is in the table.
LEMMA NewTimerLeaves ==
    ASSUME RightTimers(timers), NEW t \in Threads, NEW kind, NEW s, NEW n,
           NewTimer(t, kind, s, n)
    PROVE  /\ \A j \in DOMAIN timers : j \in DOMAIN timers' /\ timers'[j] = timers[j]
           /\ \E i \in DOMAIN timers' : timers'[i].tcb = t
<1>1. PICK b \in Blocks \ LiveBlocks :
        timers' = Append(timers, [id |-> b, kind |-> kind, tcb |-> t, sema |-> s, cnt |-> n])
  BY DEF NewTimer
<1> DEFINE v == [id |-> b, kind |-> kind, tcb |-> t, sema |-> s, cnt |-> n]
           S == TimerRecord \cup {v}
<1>2. v.tcb = t /\ v \in S
  OBVIOUS
<1>3. timers \in Seq(S)
  <2>1. Len(timers) \in Nat /\ timers \in [1 .. Len(timers) -> TimerRecord]
    BY LenProperties, ElementOfSeq DEF RightTimers
  <2>2. timers = [i \in 1 .. Len(timers) |-> timers[i]]
        /\ \A i \in 1 .. Len(timers) : timers[i] \in S
    BY <2>1
  <2> HIDE DEF S
  <2>3. [i \in 1 .. Len(timers) |-> timers[i]] \in Seq(S)
    BY <2>1, <2>2, IsASeq
  <2> QED BY <2>2, <2>3
<1> HIDE DEF v, S
<1>4. Len(timers) \in Nat /\ DOMAIN timers = 1 .. Len(timers)
  BY LenProperties DEF RightTimers
<1>5. /\ timers' = Append(timers, v)
      /\ Append(timers, v) \in Seq(S)
      /\ Len(Append(timers, v)) = Len(timers) + 1
      /\ \A i \in 1 .. Len(timers) : Append(timers, v)[i] = timers[i]
      /\ Append(timers, v)[Len(timers) + 1] = v
  BY <1>1, <1>2, <1>3, AppendProperties DEF v
<1>6. DOMAIN timers' = 1 .. Len(timers) + 1
  BY <1>5, LenProperties
<1>7. Len(timers) + 1 \in 1 .. Len(timers) + 1
      /\ \A i \in 1 .. Len(timers) : i \in 1 .. Len(timers) + 1
  BY <1>4
<1> QED BY <1>2, <1>4, <1>5, <1>6, <1>7

\* A new timer leaves the other threads where they are.
LEMMA NewTimerWaits ==
    ASSUME CoreInv, PlacesInv, NEW t \in Threads, NEW kind, NEW s, NEW n,
           NewTimer(t, kind, s, n), tick.at = "off", tick' = tick
    PROVE  /\ ~NoAlarm(t)'
           /\ \A u \in Threads \ {t} : NoNewAlarm(u) /\ timerOf'[u] = timerOf[u]
           /\ \A u : NoAlarm(u)' => NoAlarm(u)
<1>1. \A u \in Threads \ {t} : NoNewAlarm(u) /\ timerOf'[u] = timerOf[u]
  BY NewTimerPlaces
<1>2. /\ \A j \in DOMAIN timers : j \in DOMAIN timers' /\ timers'[j] = timers[j]
      /\ \E i \in DOMAIN timers' : timers'[i].tcb = t
  BY QueueFacts, NewTimerLeaves
<1> QED BY <1>1, <1>2, AllPending DEF NoAlarm

LEMMA DelayTickWaits ==
    ASSUME CoreInv, PlacesInv, WaitsInv, NEW t \in Threads, NEW n, DelayTick(t, n)
    PROVE  WaitsInv' /\ ~NoAlarm(t)' /\ \A u \in Threads \ {t} : Kept(u)
<1>1. /\ Nowhere(t) /\ tick.at = "off" /\ At(t, "app")
      /\ Goto(t, "resched") /\ NewTimer(t, "delay", NULL, n)
      /\ UNCHANGED <<waiting, phase, tick>>
      /\ ready' = ready
  BY CallerIsNowhere DEF DelayTick, Calling, semaVars, isrVars
<1>2. /\ call'[t].at = "resched" /\ \A u \in Threads \ {t} : call'[u] = call[u]
  BY <1>1, QueueFacts DEF Goto, Calls
<1>3. \A u \in Threads : CallGoesOn(u)
  BY <1>1, <1>2, CallerWaits
<1>4. /\ \A u \in Threads \ {t} : NoNewAlarm(u) /\ timerOf'[u] = timerOf[u]
      /\ \A u : NoAlarm(u)' => NoAlarm(u)
      /\ ~NoAlarm(t)'
  BY <1>1, NewTimerWaits
<1>5. WaitOK(t)'
  <2>1. \A i \in DOMAIN timers' : timers'[i].tcb = t => timers'[i].kind = "delay"
    BY <1>1, NewTimerPlaces DEF Nowhere
  <2>2. \A s \in Semas : Absent(waiting'[s], t)
    BY <1>1 DEF Nowhere, WaitsNowhere
  <2> QED BY <2>1, <2>2 DEF WaitOK, WaitsNowhere
<1>6. ASSUME NEW u \in Threads \ {t} PROVE WaitOK(u)' /\ Kept(u)
  <2>1. StaysPut(u)
    BY <1>1, <1>4 DEF StaysPut
  <2> QED BY <1>1, <1>3, <2>1, WaitsOf, StaysKeeps DEF Kept
<1>7. SemasInv'
  BY <1>1, <1>2, SemasKeep, PartsOfCore DEF WaitsInv, CallsRight
<1> QED BY <1>1, <1>4, <1>5, <1>6, <1>7 DEF WaitsInv, FiredIsQuiet

\* One wait list of all changes.
LEMMA OneListOf ==
    ASSUME CoreInv, PlacesInv, NEW s \in Semas, NEW q, waiting' = [waiting EXCEPT ![s] = q]
    PROVE  waiting'[s] = q /\ \A x \in Semas \ {s} : waiting'[x] = waiting[x]
  BY QueueFacts

LEMMA SemaAcquireWaitWaits ==
    ASSUME CoreInv, PlacesInv, WaitsInv, NEW t \in Threads, NEW s \in Semas, NEW n,
           SemaAcquireWait(t, s, n)
    PROVE  /\ WaitsInv'
           /\ ~Absent(waiting'[s], t) /\ \A x \in Semas \ {s} : waiting'[x] = waiting[x]
           /\ \A u \in Threads \ {t} : Kept(u) /\ StaysPut(u)
<1>1. /\ Nowhere(t) /\ tick.at = "off" /\ phase[s] = "live" /\ At(t, "app")
      /\ waiting' = [waiting EXCEPT ![s] = Push(waiting[s], t)]
      /\ call' = [call EXCEPT ![t].at = "suspended", ![t].sema = s]
      /\ UNCHANGED <<ready, phase, tick>>
  BY CallerIsNowhere DEF SemaAcquireWait, Calling, isrVars
<1>2. /\ call'[t].at = "suspended" /\ call'[t].sema = s
      /\ \A u \in Threads \ {t} : call'[u] = call[u]
  BY <1>1, QueueFacts DEF Calls
<1>3. \A u \in Threads : CallGoesOn(u)
  BY <1>1, <1>2, CallerWaits
<1>4. /\ waiting'[s] = Push(waiting[s], t)
      /\ \A x \in Semas \ {s} : waiting'[x] = waiting[x]
  BY <1>1, OneListOf
<1>5. /\ ~Absent(waiting'[s], t)
      /\ \A u \in Threads \ {t} : Absent(waiting'[s], u) <=> Absent(waiting[s], u)
  BY <1>4, QueueFacts, PushProperties, PushLeaves
<1>6. /\ \A u \in Threads \ {t} : NoNewAlarm(u) /\ timerOf'[u] = timerOf[u]
      /\ \A u \in Threads : NoAlarm(u)' => NoAlarm(u)
      /\ timerOf'[t] # NULL => ~NoAlarm(t)'
      /\ \A i \in DOMAIN timers' : timers'[i].tcb = t => timers'[i].sema = s
  <2>1. CASE NewTimer(t, "sema", s, n)
    BY <1>1, <2>1, NewTimerWaits, NewTimerPlaces DEF Nowhere
  <2>2. CASE timerOf' = [timerOf EXCEPT ![t] = NULL] /\ UNCHANGED timers
    <3>1. \A u \in Threads : NoNewAlarm(u) /\ (NoAlarm(u)' => NoAlarm(u))
      BY <1>1, <2>2, AlarmsStay
    <3>2. \A i \in DOMAIN timers' : timers'[i].tcb # t
      BY <1>1, <2>2, AllPending DEF Nowhere, NoAlarm
    <3>3. timerOf'[t] = NULL /\ \A u \in Threads \ {t} : timerOf'[u] = timerOf[u]
      BY <2>2, QueueFacts
    <3> QED BY <3>1, <3>2, <3>3
  <2> QED BY <2>1, <2>2 DEF SemaAcquireWait
<1>7. WaitOK(t)'
  <2>1. \A x \in Semas \ {s} : Absent(waiting'[x], t)
    BY <1>1, <1>4 DEF Nowhere, WaitsNowhere
  <2> QED BY <1>2, <1>5, <1>6, <2>1 DEF WaitOK
<1>8. ASSUME NEW u \in Threads \ {t} PROVE WaitOK(u)' /\ Kept(u) /\ StaysPut(u)
  <2>1. StaysPut(u)
    BY <1>4, <1>5, <1>6 DEF StaysPut
  <2> QED BY <1>1, <1>3, <2>1, WaitsOf, StaysKeeps DEF Kept
<1>9. SemasInv'
  <2>1. \A x \in Semas : \/ phase[x] = "live"
                         \/ \A u \in Threads : Absent(waiting[x], u) => Absent(waiting'[x], u)
    BY <1>1, <1>4
  <2> QED BY <1>1, <1>2, <2>1, SemasKeep, PartsOfCore DEF WaitsInv, CallsRight
<1> QED BY <1>1, <1>4, <1>5, <1>7, <1>8, <1>9 DEF WaitsInv, FiredIsQuiet

LEMMA SemaAcquireNoTimerWaits ==
    ASSUME CoreInv, PlacesInv, WaitsInv, NEW t \in Threads, NEW s \in Semas,
           SemaAcquireNoTimer(t, s)
    PROVE  WaitsInv' /\ \A u \in Threads \ {t} : StaysPut(u)
<1> DEFINE q == Take(Push(waiting[s], t), t)
<1>1. /\ Nowhere(t) /\ tick.at = "off" /\ phase[s] = "live"
      /\ waiting' = [waiting EXCEPT ![s] = q]
      /\ timerOf' = [timerOf EXCEPT ![t] = NULL]
      /\ UNCHANGED <<call, phase, timers, tick>>
  BY CallerIsNowhere DEF SemaAcquireNoTimer, Calling, isrVars
<1>2. \A u \in Threads \ {t} : Absent(q, u) <=> Absent(waiting[s], u)
  <2>1. /\ Push(waiting[s], t) \in PriorQueue
        /\ \A u \in Threads \ {t} : Absent(waiting[s], u) <=> Absent(Push(waiting[s], t), u)
    BY QueueFacts, PushProperties, PushLeaves
  <2> QED BY <2>1, TakeProperties, TakeLeaves
<1> HIDE DEF q
<1>3. Absent(q, t)
  <2>1. /\ Push(waiting[s], t) \in PriorQueue
        /\ Once(Push(waiting[s], t)) /\ Filed(Push(waiting[s], t))
    BY <1>1, QueueFacts, PushOnce, PushProperties DEF Nowhere, WaitsNowhere
  <2> QED BY <2>1, TakeOnce DEF q
<1>4. waiting'[s] = q /\ \A x \in Semas \ {s} : waiting'[x] = waiting[x]
  BY <1>1, OneListOf
<1>5. \A u \in Threads : StaysPut(u) \/ u = t
  <2>1. \A u \in Threads \ {t} : timerOf'[u] = timerOf[u]
    BY <1>1, QueueFacts
  <2> QED BY <1>1, <1>2, <1>4, <2>1, AlarmsStay DEF StaysPut
<1>6. WaitOK(t)'
  <2>1. WaitsNowhere(t)' /\ \A i \in DOMAIN timers' : timers'[i].tcb # t
    BY <1>1, <1>3, <1>4, AllPending DEF Nowhere, WaitsNowhere, NoAlarm
  <2> QED BY <2>1 DEF WaitOK, WaitsNowhere
<1>7. \A u \in Threads : CallGoesOn(u)
  BY <1>1 DEF CallGoesOn
<1>8. SemasInv'
  <2>1. \A x \in Semas : \/ phase[x] = "live"
                         \/ \A u \in Threads : Absent(waiting[x], u) => Absent(waiting'[x], u)
    BY <1>1, <1>4
  <2> QED BY <1>1, <2>1, SemasKeep, PartsOfCore DEF WaitsInv, CallsRight
<1> QED BY <1>1, <1>5, <1>6, <1>7, <1>8, WaitsOf, StaysKeeps DEF WaitsInv, FiredIsQuiet

-----------------------------------------------------------------------------
(* Threads that are woken. *)

\* What give and destroy have in common: the foremost waiter leaves the list,
\* becomes ready, and its timer, its own and nobody else's, is deleted.
LEMMA WakeWaits ==
    ASSUME CoreInv, PlacesInv, PlacesInv', WaitsInv, NEW s \in Semas, NEW w \in Threads,
           w = Foremost(waiting[s]), tick.at = "off", UNCHANGED <<tick, phase>>,
           waiting' = [waiting EXCEPT ![s] = Pop(waiting[s])],
           ready' = Push(ready, w),
           timers' = IF timerOf[w] = NULL THEN timers ELSE Without(timerOf[w]),
           timerOf' = timerOf \/ timerOf' = [timerOf EXCEPT ![w] = NULL],
           \A u \in Threads : CallGoesOn(u),
           \A u \in Threads : call'[u].at \in {"destroying", "freeing"} =>
              call'[u].at = call[u].at /\ call'[u].sema = call[u].sema
    PROVE  WaitsInv' /\ \A u \in Threads : Kept(u)
<1>1. waiting'[s] = Pop(waiting[s]) /\ \A x \in Semas \ {s} : waiting'[x] = waiting[x]
  BY OneListOf
<1>2. /\ ~Absent(waiting[s], w)
      /\ \A u : Absent(waiting[s], u) => Absent(Pop(waiting[s]), u)
      /\ \A u \in Threads \ {w} : Absent(Pop(waiting[s]), u) => Absent(waiting[s], u)
  BY QueueFacts, PopProperties, PopLeaves
<1>3. WaitOK(w)' /\ Kept(w)
  <2>1. ~Absent(ready', w)
    BY QueueFacts, PushLeaves
  <2> QED BY <2>1, PlacesOfNext, SettledWaits DEF Kept
<1>4. ASSUME NEW u \in Threads \ {w} PROVE NoNewAlarm(u) /\ (NoAlarm(u)' => NoAlarm(u))
  <2>1. CASE timerOf[w] = NULL
    BY <2>1, AlarmsStay
  <2>2. CASE timerOf[w] # NULL
    <3>1. NoNewAlarm(u)
      BY <2>2, WithoutPlaces
    <3>2. PICK k \in DOMAIN timers : timers[k].tcb = w
      BY <1>2, <2>2, WaitsOf DEF WaitOK, WaitsNowhere, NoAlarm
    <3>3. timers[k].id = timerOf[w]
      BY <3>2, AllPending, PlacesOf DEF PlaceOK, AlarmFits
    <3>4. ASSUME NEW j \in DOMAIN timers, timers[j].tcb = u
          PROVE  \E i \in DOMAIN timers' : timers'[i].tcb = u
      <4>1. timers[j].id # timerOf[w]
        BY <3>2, <3>3, <3>4, QueueFacts DEF BlocksDiffer
      <4> QED BY <2>2, <3>4, <4>1, QueueFacts, WithoutLeaves
    <3>5. NoAlarm(u)' => NoAlarm(u)
      BY <3>4, AllPending DEF NoAlarm
    <3> QED BY <3>1, <3>5
  <2> QED BY <2>1, <2>2
<1>5. ASSUME NEW u \in Threads \ {w} PROVE WaitOK(u)' /\ Kept(u)
  <2>1. timerOf'[u] = timerOf[u]
    BY QueueFacts
  <2>2. StaysPut(u)
    BY <1>1, <1>2, <1>4, <2>1 DEF StaysPut
  <2>3. Kept(u)
    BY <2>2, QueueFacts, PushLeaves DEF Kept
  <2> QED BY <2>2, <2>3, WaitsOf, StaysKeeps
<1>6. SemasInv'
  <2>1. \A x \in Semas : \A u \in Threads : Absent(waiting[x], u) => Absent(waiting'[x], u)
    BY <1>1, <1>2
  <2> QED BY <2>1, SemasKeep, PartsOfCore DEF WaitsInv, CallsRight
<1> QED BY <1>3, <1>5, <1>6 DEF WaitsInv, FiredIsQuiet

\* A thread on a wait list is not ready, so there is room for it.
LEMMA WaiterHasRoom ==
    ASSUME FifosHoldAll, CoreInv, PlacesInv, NEW s \in Semas, NEW w \in Threads,
           ~Absent(waiting[s], w)
    PROVE  HasRoom(ready, w)
<1>1. Absent(ready, w)
  BY PlacesOf DEF PlaceOK, WaitsNowhere
<1> QED BY <1>1, QueueFacts, RoomForAll

LEMMA HandOverWaits ==
    ASSUME FifosHoldAll, CoreInv, PlacesInv, PlacesInv', WaitsInv,
           NEW s \in Semas, NEW w \in Threads, HandOver(s, w),
           tick.at = "off", UNCHANGED tick, \A u \in Threads : CallGoesOn(u),
           \A u \in Threads : call'[u].at \in {"destroying", "freeing"} =>
              call'[u].at = call[u].at /\ call'[u].sema = call[u].sema
    PROVE  WaitsInv' /\ \A u \in Threads : Kept(u)
<1>1. HasRoom(ready, w)
  <2>1. ~Absent(waiting[s], w)
    BY QueueFacts, PopProperties DEF HandOver
  <2> QED BY <2>1, WaiterHasRoom
<1>2. /\ w = Foremost(waiting[s])
      /\ waiting' = [waiting EXCEPT ![s] = Pop(waiting[s])]
      /\ ready' = Push(ready, w)
      /\ timers' = IF timerOf[w] = NULL THEN timers ELSE Without(timerOf[w])
      /\ UNCHANGED <<timerOf, phase>>
  BY <1>1 DEF HandOver
<1> QED BY <1>2, WakeWaits

LEMMA SemaGiveWaits ==
    ASSUME FifosHoldAll, CoreInv, PlacesInv, PlacesInv', WaitsInv,
           NEW t \in Threads, NEW s \in Semas, SemaGive(t, s)
    PROVE  WaitsInv' /\ (Increment(s) \/ \A u \in Threads : Kept(u))
<1>1. /\ At(t, "app") /\ call[t].at = "app" /\ tick.at = "off" /\ UNCHANGED <<tick, irq>>
  BY CallerIsNowhere DEF SemaGive, Calling, At, isrVars
<1>2. /\ \A u \in Threads \ {t} : call'[u] = call[u]
      /\ call'[t].at \notin {"destroying", "freeing"}
  <2>1. UNCHANGED call \/ Goto(t, "resched")
    BY DEF SemaGive
  <2> QED BY <1>1, <2>1, QueueFacts DEF Goto, Calls
<1>3. \A u \in Threads : CallGoesOn(u)
  BY <1>1, <1>2, CallerWaits
<1>4. CASE \E w \in Threads : HandOver(s, w)
  BY <1>1, <1>2, <1>3, <1>4, HandOverWaits
<1>5. CASE Increment(s)
  BY <1>1, <1>2, <1>3, <1>5, QuietWaits DEF Increment, tcbVars
<1> QED BY <1>4, <1>5 DEF SemaGive

LEMMA SemaDestroyWakeWaits ==
    ASSUME FifosHoldAll, CoreInv, PlacesInv, PlacesInv', WaitsInv,
           NEW t \in Threads, SemaDestroyWake(t)
    PROVE  WaitsInv' /\ \A u \in Threads : Kept(u)
<1>1. PICK s \in Semas : s = call[t].sema
  BY PartsOfCore DEF SemaDestroyWake, At, CallsRight, CallsInv
<1>2. PICK w \in Threads : w = Foremost(waiting[s])
  BY <1>1, QueueFacts, PopProperties DEF SemaDestroyWake
<1>3. HasRoom(ready, w)
  <2>1. ~Absent(waiting[s], w)
    BY <1>2, QueueFacts, PopProperties
  <2> QED BY <2>1, WaiterHasRoom
<1>4. /\ At(t, "destroying") /\ tick.at = "off"
      /\ waiting' = [waiting EXCEPT ![s] = Pop(waiting[s])]
      /\ ready' = Push(ready, w)
      /\ timers' = IF timerOf[w] = NULL THEN timers ELSE Without(timerOf[w])
      /\ timerOf' = [timerOf EXCEPT ![w] = NULL]
      /\ call' = [call EXCEPT ![t].woke = TRUE]
      /\ UNCHANGED <<tick, phase>>
  BY <1>1, <1>2, <1>3, CallerIsNowhere DEF SemaDestroyWake, isrVars
<1>5. /\ \A u \in Threads \ {t} : call'[u] = call[u]
      /\ call'[t].at = call[t].at /\ call'[t].sema = call[t].sema
  BY <1>4, QueueFacts DEF Calls
<1>6. \A u \in Threads : CallGoesOn(u)
  BY <1>4, <1>5, CallerWaits
<1> QED BY <1>2, <1>4, <1>5, <1>6, WakeWaits

-----------------------------------------------------------------------------
(* The life of a semaphore. *)

LEMMA SemaCreateWaits ==
    ASSUME CoreInv, PlacesInv, WaitsInv, NEW s \in Semas, NEW n, SemaCreate(s, n),
           tick.at = "off"
    PROVE  WaitsInv' /\ \A u \in Threads : StaysPut(u)
<1>1. /\ phase[s] = "freed" /\ \A t \in Threads : call[t].sema # s
      /\ waiting' = [waiting EXCEPT ![s] = EmptyQueue]
      /\ phase' = [phase EXCEPT ![s] = "live"]
      /\ UNCHANGED <<timerOf, call, timers, tick>>
  BY DEF SemaCreate, tcbVars, isrVars
<1>2. waiting'[s] = EmptyQueue /\ \A x \in Semas \ {s} : waiting'[x] = waiting[x]
  BY <1>1, OneListOf
<1>3. \A u \in Threads : Absent(waiting[s], u) /\ Absent(waiting'[s], u)
  BY <1>1, <1>2, EmptyQueueIsRight DEF WaitsInv, SemasInv, NobodyWaits
<1>4. ASSUME NEW u \in Threads PROVE WaitOK(u)' /\ StaysPut(u)
  <2>1. StaysPut(u)
    BY <1>1, <1>2, <1>3, AlarmsStay DEF StaysPut
  <2>2. CallGoesOn(u)
    BY <1>1 DEF CallGoesOn
  <2> QED BY <2>1, <2>2, WaitsOf, StaysKeeps
<1>5. SemasInv'
  <2>1. phase'[s] = "live" /\ \A x \in Semas \ {s} : phase'[x] = phase[x]
    BY <1>1, PartsOfCore DEF CountsRight
  <2>2. \A x \in Semas : phase'[x] = "freed" => NobodyWaits(x)'
    BY <1>2, <2>1 DEF WaitsInv, SemasInv, NobodyWaits
  <2>3. ASSUME NEW t \in Threads, call[t].at \in {"destroying", "freeing"}
        PROVE  /\ phase'[call[t].sema] # "live"
               /\ call[t].at = "freeing" => NobodyWaits(call[t].sema)'
    <3>1. PICK x \in Semas \ {s} : x = call[t].sema
      BY <1>1, <2>3, PartsOfCore DEF CallsRight, CallsInv
    <3> QED BY <1>1, <1>2, <2>1, <2>3, <3>1 DEF WaitsInv, SemasInv, NobodyWaits
  <2> QED BY <1>1, <2>2, <2>3 DEF SemasInv, NobodyWaits
<1> QED BY <1>1, <1>4, <1>5 DEF WaitsInv, FiredIsQuiet

\* Lists, timers and pointers stay what they are, the rest is up to SemasInv.
LEMMA DestroyWaits ==
    ASSUME CoreInv, PlacesInv, WaitsInv, NEW t \in Threads,
           NEW point \in {"app", "destroying", "freeing"}, At(t, point),
           \A u \in Threads \ {t} : call'[u] = call[u],
           UNCHANGED <<waiting, timers, timerOf, tick>>
    PROVE  SemasInv' => WaitsInv'
<1>1. tick.at = "off" /\ \A u \in Threads : CallGoesOn(u)
  BY CallerWaits
<1>2. \A u \in Threads : StaysPut(u)
  BY <1>1, AlarmsStay DEF StaysPut
<1> QED BY <1>1, <1>2, WaitsOf, StaysKeeps DEF WaitsInv, FiredIsQuiet

LEMMA SemaDestroyWaits ==
    ASSUME CoreInv, PlacesInv, WaitsInv, NEW t \in Threads, NEW s \in Semas,
           SemaDestroy(t, s)
    PROVE  WaitsInv'
<1>1. /\ At(t, "app") /\ phase[s] = "live"
      /\ phase' = [phase EXCEPT ![s] = "dying"]
      /\ call' = [call EXCEPT ![t].at = "destroying", ![t].sema = s]
      /\ UNCHANGED <<waiting, timers, timerOf, tick>>
  BY DEF SemaDestroy, Calling, tcbVars, isrVars
<1>2. /\ call'[t].at = "destroying" /\ call'[t].sema = s
      /\ \A u \in Threads \ {t} : call'[u] = call[u]
  BY <1>1, QueueFacts DEF Calls
<1>3. phase'[s] = "dying" /\ \A x \in Semas \ {s} : phase'[x] = phase[x]
  BY <1>1, PartsOfCore DEF CountsRight
<1>4. \A x \in Semas : NobodyWaits(x)' <=> NobodyWaits(x)
  BY <1>1 DEF NobodyWaits
<1>5. SemasInv'
  <2>1. \A x \in Semas : phase'[x] = "freed" => NobodyWaits(x)'
    BY <1>3, <1>4 DEF WaitsInv, SemasInv
  <2>2. ASSUME NEW u \in Threads, call'[u].at \in {"destroying", "freeing"}
        PROVE  /\ phase'[call'[u].sema] # "live"
               /\ call'[u].at = "freeing" => NobodyWaits(call[u].sema)' /\ call'[u].sema = call[u].sema
    <3>1. CASE u = t
      BY <1>2, <1>3, <3>1
    <3>2. CASE u # t
      <4>1. PICK x \in Semas : x = call[u].sema
        BY <1>2, <2>2, <3>2, PartsOfCore DEF CallsRight, CallsInv
      <4> QED BY <1>2, <1>3, <1>4, <2>2, <3>2, <4>1 DEF WaitsInv, SemasInv
    <3> QED BY <3>1, <3>2
  <2> QED BY <2>1, <2>2 DEF SemasInv, NobodyWaits
<1> QED BY <1>1, <1>2, <1>5, DestroyWaits

\* The loop of destroy ends when the list is empty.
LEMMA SemaDestroyNoMoreWaits ==
    ASSUME CoreInv, PlacesInv, WaitsInv, NEW t \in Threads, SemaDestroyNoMore(t)
    PROVE  WaitsInv'
<1>1. /\ At(t, "destroying") /\ call[t].at = "destroying"
      /\ Foremost(waiting[call[t].sema]) = NULL /\ Goto(t, "freeing")
      /\ UNCHANGED <<waiting, timers, timerOf, tick, phase>>
  BY DEF SemaDestroyNoMore, At, tcbVars, semaVars, isrVars
<1>2. /\ call'[t].at = "freeing" /\ call'[t].sema = call[t].sema
      /\ \A u \in Threads \ {t} : call'[u] = call[u]
  BY <1>1, QueueFacts DEF Goto, Calls
<1>3. PICK s \in Semas : s = call[t].sema
  BY <1>1, PartsOfCore DEF CallsRight, CallsInv
<1>4. NobodyWaits(s)
  <2>1. waiting[s] \in PriorQueue /\ HighestIsRight(waiting[s])
    BY PartsOfCore DEF WaitingRight, RightWaiting
  <2>2. \A p \in Priorities : waiting[s].fifo[p] = <<>>
    BY <1>1, <1>3, <2>1, PopProperties
  <2> QED BY <2>2 DEF NobodyWaits, Absent
<1>5. SemasInv'
  BY <1>1, <1>2, <1>3, <1>4 DEF WaitsInv, SemasInv, NobodyWaits
<1> QED BY <1>1, <1>2, <1>5, DestroyWaits

LEMMA SemaDestroyFreeWaits ==
    ASSUME CoreInv, PlacesInv, WaitsInv, NEW t \in Threads, SemaDestroyFree(t)
    PROVE  WaitsInv'
<1>1. PICK s \in Semas : s = call[t].sema
  BY PartsOfCore DEF SemaDestroyFree, At, CallsRight, CallsInv
<1>2. /\ At(t, "freeing") /\ call[t].at = "freeing"
      /\ phase' = [phase EXCEPT ![s] = "freed"]
      /\ Goto(t, "resched") \/ Return(t)
      /\ UNCHANGED <<waiting, timers, timerOf, tick>>
  BY <1>1 DEF SemaDestroyFree, At, tcbVars, isrVars
<1>3. /\ call'[t].at \notin {"destroying", "freeing"}
      /\ \A u \in Threads \ {t} : call'[u] = call[u]
  BY <1>2, QueueFacts DEF Goto, Return, App, Calls
<1>4. phase'[s] = "freed" /\ \A x \in Semas \ {s} : phase'[x] = phase[x]
  BY <1>2, PartsOfCore DEF CountsRight
<1>5. \A x : NobodyWaits(x)' <=> NobodyWaits(x)
  BY <1>2 DEF NobodyWaits
<1>6. SemasInv'
  <2>1. \A x \in Semas : phase'[x] = "freed" => NobodyWaits(x)'
    BY <1>1, <1>2, <1>4, <1>5 DEF WaitsInv, SemasInv
  <2>2. ASSUME NEW u \in Threads \ {t}, call[u].at \in {"destroying", "freeing"}
        PROVE  /\ phase'[call[u].sema] # "live"
               /\ call[u].at = "freeing" => NobodyWaits(call[u].sema)'
    <3>1. PICK x \in Semas : x = call[u].sema
      BY <2>2, PartsOfCore DEF CallsRight, CallsInv
    <3> QED BY <1>3, <1>4, <1>5, <2>2, <3>1 DEF WaitsInv, SemasInv
  <2> QED BY <1>3, <2>1, <2>2 DEF SemasInv, NobodyWaits
<1> QED BY <1>2, <1>3, <1>6, DestroyWaits

-----------------------------------------------------------------------------
(* The tick interrupt. *)

LEMMA TickCountWaits ==
    ASSUME CoreInv, PlacesInv, WaitsInv, TickCount
    PROVE  WaitsInv' /\ \A u \in Threads : StaysPut(u)
<1>1. /\ tick.at \in {"off", "count"} /\ tick'.at \in {"count", "poll"}
      /\ UNCHANGED <<call, waiting, phase, timerOf>>
  BY DEF TickCount, TickIsAt, TickOff, tcbVars, semaVars
<1>2. /\ DOMAIN timers' = DOMAIN timers
      /\ \A i \in DOMAIN timers :
            /\ timers'[i].id = timers[i].id /\ timers'[i].tcb = timers[i].tcb
            /\ timers'[i].kind = timers[i].kind /\ timers'[i].sema = timers[i].sema
  <2>1. \A i \in DOMAIN timers : timers[i] \in TimerRecord
    BY QueueFacts, LenProperties, ElementOfSeq DEF RightTimers
  <2> QED BY <2>1 DEF TickCount, TimerRecord
<1>3. ASSUME NEW u \in Threads PROVE WaitOK(u)' /\ StaysPut(u)
  <2>1. NoNewAlarm(u) /\ (NoAlarm(u)' => NoAlarm(u))
    BY <1>1, <1>2, AllPending DEF NoNewAlarm, NoAlarm
  <2>2. StaysPut(u)
    BY <1>1, <2>1 DEF StaysPut
  <2>3. CallGoesOn(u)
    BY <1>1 DEF CallGoesOn
  <2> QED BY <2>2, <2>3, WaitsOf, StaysKeeps
<1>4. SemasInv'
  BY <1>1, SemasKeep, PartsOfCore DEF WaitsInv, CallsRight
<1> QED BY <1>1, <1>3, <1>4 DEF WaitsInv, FiredIsQuiet

\* The callback makes one thread ready, which has no other timer.
LEMMA CallbackWaits ==
    ASSUME FifosHoldAll, CoreInv, PlacesInv, PlacesInv', WaitsInv, Callback
    PROVE  WaitsInv' /\ \A u \in Threads : Kept(u)
<1>1. PICK k \in DOMAIN timers : timers[k] = tick.timer
  BY DEF Callback, TickIsAt, PlacesInv, AlarmsInv
<1> DEFINE v == timers[k]
<1>2. v \in TimerRecord /\ RightTimer(v) /\ tick.at = "callback"
  BY <1>1, PartsOfCore DEF Callback, TickIsAt, TickRight
<1>3. PICK w \in Threads : w = v.tcb
  BY <1>2 DEF TimerRecord
<1>4. /\ ready' = PushIfRoom(ready, w)
      /\ timerOf' = [timerOf EXCEPT ![w] = NULL]
      /\ IF v.kind = "sema" THEN waiting' = [waiting EXCEPT ![v.sema] = Take(waiting[v.sema], w)]
         ELSE waiting' = waiting
      /\ tick'.at = "delete" /\ tick'.timer = v
      /\ UNCHANGED <<call, phase, timers>>
  <2>1. tick \in [at : TickPoints, idx : Nat \ {0},
                  timer : TimerRecord \cup {NoTimer}]
    BY PartsOfCore DEF TickRight
  <2> QED BY <1>1, <1>3, <2>1 DEF Callback
<1> HIDE DEF v
<1>5. ~Absent(ready', w) /\ \A u : Absent(ready', u) => Absent(ready, u)
  <2>1. Absent(ready, w)
    BY <1>2, <1>3, PlacesOf, AllPending DEF v, PlaceOK, NoAlarm
  <2>2. ready' = Push(ready, w)
    BY <1>4, <2>1, QueueFacts, RoomForAll
  <2> QED BY <2>2, QueueFacts, PushLeaves
<1>6. WaitOK(w)' /\ NoAlarm(w)' /\ Kept(w)
  BY <1>5, PlacesOfNext, SettledWaits DEF Kept
<1>7. /\ \A u, s : s \in Semas /\ Absent(waiting[s], u) => Absent(waiting'[s], u)
      /\ \A u \in Threads \ {w}, s \in Semas : Absent(waiting'[s], u) => Absent(waiting[s], u)
  <2>1. CASE v.kind = "sema"
    <3>1. PICK s \in Semas : s = v.sema
      BY <1>2, <2>1 DEF RightTimer
    <3>2. /\ \A u : Absent(waiting[s], u) => Absent(Take(waiting[s], w), u)
          /\ \A u \in Threads \ {w} : Absent(Take(waiting[s], w), u) => Absent(waiting[s], u)
      BY QueueFacts, TakeProperties, TakeLeaves
    <3>3. /\ \A x \in Semas \ {s} : waiting'[x] = waiting[x]
          /\ waiting'[s] = Take(waiting[s], w)
      BY <1>4, <2>1, <3>1, OneListOf
    <3> QED BY <3>2, <3>3
  <2>2. CASE v.kind # "sema"
    BY <1>4, <2>2
  <2> QED BY <2>1, <2>2
<1>8. ASSUME NEW u \in Threads \ {w} PROVE WaitOK(u)' /\ Kept(u)
  <2>1. NoNewAlarm(u) /\ (NoAlarm(u)' => NoAlarm(u))
    BY <1>2, <1>3, <1>4 DEF NoNewAlarm, NoAlarm, Pending
  <2>2. timerOf'[u] = timerOf[u]
    BY <1>4, QueueFacts
  <2>3. StaysPut(u)
    BY <1>7, <2>1, <2>2 DEF StaysPut
  <2>4. CallGoesOn(u)
    BY <1>4 DEF CallGoesOn
  <2> QED BY <1>5, <2>3, <2>4, WaitsOf, StaysKeeps DEF Kept
<1>9. SemasInv'
  BY <1>4, <1>7, SemasKeep, PartsOfCore DEF WaitsInv, CallsRight
<1>10. FiredIsQuiet'
  BY <1>3, <1>4, <1>6 DEF FiredIsQuiet, NoAlarm
<1> QED BY <1>6, <1>8, <1>9, <1>10 DEF WaitsInv

\* The timer that goes has been called back; the others stay.
LEMMA DeleteTimerWaits ==
    ASSUME CoreInv, PlacesInv, WaitsInv, DeleteTimer
    PROVE  WaitsInv' /\ \A u \in Threads : StaysPut(u)
<1>1. /\ tick.at = "delete" /\ tick'.at = "poll"
      /\ timers' = Without(tick.timer.id)
      /\ UNCHANGED <<call, phase, waiting, timerOf>>
  BY OwnTimerGoes DEF DeleteTimer, TickIsAt, TickOff, tcbVars, semaVars
<1>2. PICK k \in DOMAIN timers : timers[k] = tick.timer
  BY <1>1 DEF PlacesInv, AlarmsInv
<1>3. ASSUME NEW u \in Threads PROVE WaitOK(u)' /\ StaysPut(u)
  <2>1. NoNewAlarm(u)
    <3>1. \A i \in DOMAIN timers' : \E j \in DOMAIN timers :
              timers'[i] = timers[j] /\ timers[j].id # tick.timer.id
      BY <1>1, QueueFacts, WithoutElements
    <3> QED BY <3>1 DEF NoNewAlarm, Pending
  <2>2. ASSUME NEW j \in DOMAIN timers, Pending(timers[j]), timers[j].tcb = u
        PROVE  ~NoAlarm(u)'
    <3>1. timers[j].id # tick.timer.id
      BY <1>1, <1>2, <2>2, QueueFacts DEF Pending, BlocksDiffer
    <3>2. PICK i \in DOMAIN timers' : timers'[i] = timers[j]
      BY <1>1, <3>1, QueueFacts, WithoutLeaves
    <3> QED BY <1>1, <2>2, <3>2 DEF NoAlarm, Pending
  <2>3. StaysPut(u)
    BY <1>1, <2>1, <2>2 DEF StaysPut, NoAlarm
  <2>4. CallGoesOn(u)
    BY <1>1 DEF CallGoesOn
  <2> QED BY <2>3, <2>4, WaitsOf, StaysKeeps
<1>4. SemasInv'
  BY <1>1, SemasKeep, PartsOfCore DEF WaitsInv, CallsRight
<1> QED BY <1>1, <1>3, <1>4 DEF WaitsInv, FiredIsQuiet

-----------------------------------------------------------------------------
(* Every step keeps the invariant. *)

LEMMA InitWaits == Init => WaitsInv
<1> SUFFICES ASSUME Init PROVE WaitsInv
  OBVIOUS
<1>1. /\ \A s \in Semas, t \in Threads : Absent(waiting[s], t)
      /\ DOMAIN timers = {} /\ tick.at = "off"
      /\ \A t \in Threads : call[t].at = "app"
  <2>1. \A s \in Semas : waiting[s] = EmptyQueue
    BY DEF Init
  <2>2. timers = <<>> /\ \A t \in Threads : call[t] = App
    BY DEF Init
  <2> QED BY <2>1, <2>2, EmptyQueueIsRight DEF Init, TickOff, App
<1>2. \A t \in Threads : WaitOK(t)
  BY <1>1 DEF WaitOK, WaitsNowhere
<1> QED BY <1>1, <1>2 DEF WaitsInv, SemasInv, NobodyWaits, FiredIsQuiet

\* A thread's step.
LEMMA ThreadStepWaits ==
    ASSUME FifosHoldAll, CoreInv, PlacesInv, PlacesInv', WaitsInv,
           NEW t \in Threads, ThreadStep(t)
    PROVE  WaitsInv'
<1>1. ASSUME NEW new \in Threads, ThreadCreate(t, new) PROVE WaitsInv'
  <2>1. /\ At(t, "app") /\ Goto(t, "resched")
        /\ UNCHANGED <<waiting, timers, timerOf, phase, tick>>
    BY <1>1 DEF ThreadCreate, Calling, Enqueue, semaVars, isrVars
  <2>2. call'[t].at = "resched" /\ \A u \in Threads \ {t} : call'[u] = call[u]
    BY <2>1, QueueFacts DEF Goto, Calls
  <2>3. tick.at = "off" /\ \A u \in Threads : CallGoesOn(u)
    BY <2>1, <2>2, CallerWaits
  <2> QED BY <2>1, <2>2, <2>3, QuietWaits
<1>2. ASSUME NEW n \in 1 .. MaxTicks, DelayTick(t, n) PROVE WaitsInv'
  BY <1>2, DelayTickWaits
<1>3. CASE DelayTickNoTimer(t)
  <2>1. /\ tick.at = "off" /\ UNCHANGED <<call, waiting, timers, timerOf, phase, tick>>
    BY <1>3, CallerIsNowhere DEF DelayTickNoTimer, Calling, semaVars, isrVars
  <2> QED BY <2>1, QuietWaits DEF CallGoesOn
<1>4. ASSUME NEW s \in Semas, SemaAcquire(t, s) PROVE WaitsInv'
  <2>1. /\ tick.at = "off" /\ UNCHANGED <<call, waiting, timers, timerOf, phase, tick>>
    BY <1>4, CallerIsNowhere DEF SemaAcquire, TakeCount, Calling, tcbVars, isrVars
  <2> QED BY <2>1, QuietWaits DEF CallGoesOn
<1>5. ASSUME NEW s \in Semas, NEW n \in (1 .. MaxTicks) \cup {Forever}, SemaAcquireWait(t, s, n)
      PROVE  WaitsInv'
  BY <1>5, SemaAcquireWaitWaits
<1>6. ASSUME NEW s \in Semas, SemaAcquireNoTimer(t, s) PROVE WaitsInv'
  BY <1>6, SemaAcquireNoTimerWaits
<1>7. CASE SemaAcquireReturn(t)
  <2>1. /\ At(t, "woken") /\ Return(t)
        /\ UNCHANGED <<waiting, timers, timerOf, phase, tick>>
    BY <1>7 DEF SemaAcquireReturn, tcbVars, isrVars
  <2>2. call'[t].at = "app" /\ \A u \in Threads \ {t} : call'[u] = call[u]
    BY <2>1, QueueFacts DEF Return, App
  <2>3. tick.at = "off" /\ \A u \in Threads : CallGoesOn(u)
    BY <2>1, <2>2, CallerWaits
  <2> QED BY <2>1, <2>2, <2>3, QuietWaits
<1>8. ASSUME NEW s \in Semas, SemaGive(t, s) PROVE WaitsInv'
  BY <1>8, SemaGiveWaits
<1>9. ASSUME NEW s \in Semas, SemaDestroy(t, s) PROVE WaitsInv'
  BY <1>9, SemaDestroyWaits
<1>10. CASE SemaDestroyWake(t)
  BY <1>10, SemaDestroyWakeWaits
<1>11. CASE SemaDestroyNoMore(t)
  BY <1>11, SemaDestroyNoMoreWaits
<1>12. CASE SemaDestroyFree(t)
  BY <1>12, SemaDestroyFreeWaits
<1>13. CASE Reschedule(t)
  <2>1. /\ tick.at = "off" /\ UNCHANGED <<waiting, timers, timerOf, phase, tick>>
        /\ call[t].at \in {"resched", "suspended"}
        /\ IF call[t].at = "suspended" THEN Goto(t, "woken") ELSE Return(t)
    BY <1>13 DEF Reschedule, InThread, semaVars, isrVars
  <2>2. /\ \A u \in Threads \ {t} : call'[u] = call[u]
        /\ call'[t].at \in {"woken", "app"}
        /\ call[t].at = "suspended" => call'[t].at = "woken" /\ call'[t].sema = call[t].sema
    BY <2>1, QueueFacts DEF Goto, Return, App, Calls
  <2>3. CallGoesOn(t)
    BY <2>1, <2>2, WaitsOf DEF WaitOK, CallGoesOn, WaitsNowhere
  <2>4. \A u \in Threads : CallGoesOn(u)
    BY <2>2, <2>3 DEF CallGoesOn
  <2> QED BY <2>1, <2>2, <2>4, QuietWaits
<1> QED BY <1>1, <1>2, <1>3, <1>4, <1>5, <1>6, <1>7, <1>8, <1>9, <1>10, <1>11, <1>12, <1>13
        DEF ThreadStep

LEMMA StepWaits ==
    ASSUME ~Nested, FifosHoldAll, CoreInv, PlacesInv, PlacesInv', WaitsInv, [Next]_vars
    PROVE  WaitsInv'
<1>1. ASSUME UNCHANGED <<call, waiting, timers, timerOf, phase>>,
             tick.at # "delete", tick'.at # "delete"
      PROVE  WaitsInv'
  BY <1>1, QuietWaits DEF CallGoesOn
<1>2. CASE Boot
  <2>1. /\ tick.at = "off" /\ UNCHANGED <<call, waiting, timers, timerOf, phase, tick>>
    BY <1>2, PartsOfCore DEF Boot, CreateBeforeStart, KernelStart, Enqueue, TickRight,
                             tcbVars, semaVars, isrVars
  <2> QED BY <1>1, <2>1
<1>3. CASE \E t \in Threads : ThreadStep(t)
  BY <1>3, ThreadStepWaits
<1>4. ASSUME NEW s \in Semas, NEW n \in 0 .. MaxCount, SemaCreate(s, n) PROVE WaitsInv'
  <2>1. tick.at = "off"
    BY <1>4, PartsOfCore DEF SemaCreate, Calling, At, InThread, TickRight
  <2> QED BY <1>4, <2>1, SemaCreateWaits
<1>5. CASE Tick
  <2>1. CASE PollTimer
    <3>1. tick.at = "poll" /\ tick'.at \in {"poll", "callback"}
      <4>1. tick \in [at : TickPoints, idx : Nat \ {0},
                      timer : TimerRecord \cup {NoTimer}]
        BY PartsOfCore DEF TickRight
      <4> QED BY <2>1, <4>1 DEF PollTimer, TickIsAt
    <3> QED BY <1>1, <2>1, <3>1 DEF PollTimer, tcbVars, semaVars
  <2>2. CASE TickExit
    BY <1>1, <2>2 DEF TickExit, TickIsAt, TickOff, semaVars
  <2> QED BY <1>5, <2>1, <2>2, TickCountWaits, CallbackWaits, DeleteTimerWaits DEF Tick
<1>6. CASE Irq
  <2>1. ASSUME NEW s \in Semas, IrqGive(s) PROVE WaitsInv'
    <3>1. tick.at = "off" /\ UNCHANGED <<call, tick>>
      BY <2>1 DEF IrqGive, DeviceMayInterrupt
    <3>2. CASE Increment(s)
      BY <1>1, <3>1, <3>2 DEF Increment, tcbVars
    <3>3. ASSUME NEW w \in Threads, HandOver(s, w) PROVE WaitsInv'
      BY <3>1, <3>3, HandOverWaits DEF CallGoesOn
    <3> QED BY <2>1, <3>2, <3>3 DEF IrqGive
  <2>2. ASSUME NEW s \in Semas, IrqAcquire(s) PROVE WaitsInv'
    BY <1>1, <2>2 DEF IrqAcquire, DeviceMayInterrupt, TakeCount, tcbVars
  <2>3. CASE IrqExit
    <3>1. tick.at = "off" /\ UNCHANGED <<call, waiting, timers, timerOf, phase, tick>>
      BY <2>3 DEF IrqExit, PlacesInv, AlarmsInv, semaVars
    <3> QED BY <1>1, <3>1
  <2> QED BY <1>6, <2>1, <2>2, <2>3 DEF Irq
<1>7. CASE UNCHANGED vars
  <2>1. UNCHANGED <<call, waiting, timers, timerOf, phase, tick>>
    BY <1>7 DEF vars, tcbVars, semaVars, isrVars
  <2> QED BY <2>1 DEF WaitsInv, WaitOK, WaitsNowhere, NoAlarm, Pending, SemasInv, NobodyWaits,
                      FiredIsQuiet
<1> QED BY <1>2, <1>3, <1>4, <1>5, <1>6, <1>7 DEF Next

THEOREM WaitsInvariant ==
    ASSUME IdleAlone, ~Nested, FifosHoldAll
    PROVE  Spec => [](CoreInv /\ PlacesInv /\ WaitsInv)
<1>1. CoreInv /\ PlacesInv /\ [Next]_vars => PlacesInv'
  BY StepPlaces
<1>2. CoreInv /\ PlacesInv /\ PlacesInv' /\ WaitsInv /\ [Next]_vars => WaitsInv'
  BY StepWaits
<1> QED BY CoreInvariant, InitPlaces, InitWaits, <1>1, <1>2, PTL DEF Spec

-----------------------------------------------------------------------------
(* Timeouts, freed semaphores and wake statuses. *)

LEMMA WaitsIsThere ==
    ASSUME CoreInv, PlacesInv, NEW t, NEW s \in Semas
    PROVE  Waits(t, s) <=> ~Absent(waiting[s], t)
  BY QueueFacts, QueuedOrAbsent DEF Waits

\* A timed wait has exactly one timer, the one that suspend_timer points at,
\* and a timer of a wait has a waiting thread: give and destroy cancel the
\* timeout of the thread they wake.  TimersMatchWaits of the runs.
THEOREM TimeoutsAreOfWaits ==
    ASSUME IdleAlone, ~Nested, FifosHoldAll
    PROVE  Spec => []TimersMatchWaits
<1>1. ASSUME CoreInv, PlacesInv, WaitsInv PROVE TimersMatchWaits
  <2>1. \A i \in DOMAIN timers : timers[i] \in TimerRecord
    BY <1>1, QueueFacts, LenProperties, ElementOfSeq DEF RightTimers
  <2>2. ASSUME NEW i \in DOMAIN timers, Pending(timers[i])
        PROVE  LET v == timers[i] IN
               /\ AlarmFits(v.tcb, v)
               /\ v.kind = "sema" => Waits(v.tcb, v.sema)
    <3>1. PICK t \in Threads : t = timers[i].tcb
      BY <2>1 DEF TimerRecord
    <3>2. AlarmFits(t, timers[i])
      BY <1>1, <2>2, <3>1, PlacesOf DEF PlaceOK
    <3>3. ASSUME timers[i].kind = "sema" PROVE Waits(t, timers[i].sema)
      <4>1. timers[i].sema \in Semas
        BY <1>1, <3>3, PartsOfCore DEF RightTimers, RightTimer
      <4> QED BY <1>1, <2>2, <3>1, <3>3, <4>1, WaitsOf, WaitsIsThere DEF WaitOK
    <3> QED BY <3>1, <3>2, <3>3
  <2>3. ASSUME NEW i \in DOMAIN timers, NEW j \in DOMAIN timers,
               timers[i].id = timers[j].id \/ timers[i].tcb = timers[j].tcb
        PROVE  i = j
    <3>1. timers[i].id = timers[j].id
      <4>1. CASE Pending(timers[i]) /\ Pending(timers[j])
        BY <2>2, <2>3, <4>1 DEF AlarmFits
      <4>2. CASE ~Pending(timers[i]) /\ ~Pending(timers[j])
        BY <4>2 DEF Pending
      <4>3. CASE Pending(timers[i]) # Pending(timers[j])
        <5>1. FiredIsQuiet
          BY <1>1 DEF WaitsInv
        <5> QED BY <2>3, <4>3, <5>1 DEF Pending, FiredIsQuiet, NoAlarm
      <4> QED BY <4>1, <4>2, <4>3
    <3> QED BY <1>1, <3>1, QueueFacts DEF BlocksDiffer
  <2>4. ASSUME NEW t \in Threads, NEW s \in Semas, Waits(t, s), timerOf[t] # NULL
        PROVE  HasTimer(t, "sema")
    <3>1. ~Absent(waiting[s], t)
      BY <1>1, <2>4, WaitsIsThere
    <3>2. PICK i \in DOMAIN timers : Pending(timers[i]) /\ timers[i].tcb = t
      BY <1>1, <2>4, <3>1, WaitsOf DEF WaitOK, WaitsNowhere, NoAlarm
    <3>3. timers[i].kind = "sema"
      BY <2>2, <3>1, <3>2 DEF AlarmFits
    <3> QED BY <3>2, <3>3 DEF HasTimer
  <2>5. \A i \in DOMAIN timers :
           LET v == timers[i] IN
           \/ tick.at = "delete" /\ tick.timer = v
           \/ timerOf[v.tcb] = v.id /\ (v.kind = "sema" => Waits(v.tcb, v.sema))
    BY <2>2 DEF Pending, AlarmFits
  <2> QED BY <2>3, <2>4, <2>5 DEF TimersMatchWaits
<1> QED BY WaitsInvariant, <1>1, PTL

\* Nobody is left waiting on a semaphore whose memory is released, and no
\* timeout refers to it.  NothingLeftOnFreed of the runs.
THEOREM FreedIsUnused ==
    ASSUME IdleAlone, ~Nested, FifosHoldAll
    PROVE  Spec => []NothingLeftOnFreed
<1>1. ASSUME CoreInv, PlacesInv, WaitsInv PROVE NothingLeftOnFreed
  <2>1. ASSUME NEW s \in Semas, phase[s] = "freed"
        PROVE  /\ IsEmpty(waiting[s])
               /\ \A i \in DOMAIN timers : timers[i].kind = "sema" =>
                      timers[i].sema # s \/ (tick.at = "delete" /\ tick.timer = timers[i])
    <3>1. \A t \in Threads : Absent(waiting[s], t)
      BY <1>1, <2>1 DEF WaitsInv, SemasInv, NobodyWaits
    <3>2. ASSUME NEW p \in Priorities PROVE waiting[s].fifo[p] = <<>>
      <4> DEFINE f == waiting[s].fifo[p]
      <4>1. f \in Seq(Threads)
        BY <1>1, QueueFacts DEF PriorQueue
      <4>2. \A i \in DOMAIN f : f[i] \in Threads /\ f[i] \notin Threads
        BY <3>1, <4>1, LenProperties, ElementOfSeq DEF Absent
      <4> HIDE DEF f
      <4>3. Len(f) \in Nat /\ DOMAIN f = 1 .. Len(f) /\ DOMAIN f = {}
        BY <4>1, <4>2, LenProperties
      <4>4. Len(f) = 0
        BY <4>3
      <4>5. f = <<>>
        BY <4>1, <4>4, EmptySeq
      <4> QED BY <4>5 DEF f
    <3>3. ASSUME NEW i \in DOMAIN timers, timers[i].kind = "sema", timers[i].sema = s,
                 Pending(timers[i])
          PROVE  FALSE
      <4>0. timers[i] \in TimerRecord
        BY <1>1, QueueFacts, LenProperties, ElementOfSeq DEF RightTimers
      <4>1. timers[i].tcb \in Threads
        BY <4>0 DEF TimerRecord
      <4> QED BY <1>1, <3>1, <3>3, <4>1, WaitsOf DEF WaitOK
    <3> QED BY <3>2, <3>3 DEF IsEmpty, Pending
  <2> QED BY <2>1 DEF NothingLeftOnFreed
<1> QED BY WaitsInvariant, <1>1, PTL

\* A status changes only with the wait that it ends.
LEMMA WakeFollowsWait ==
    ASSUME CoreInv, CoreInv', PlacesInv, PlacesInv', WaitsInv, ~Nested, [Next]_vars,
           NEW t \in Threads, wake'[t] # wake[t]
    PROVE  \E s \in Semas : Waits(t, s) /\ ~Waits(t, s)'
<1>0. wake \in [Threads -> {"INVALID", "OK", "DELETED", "TIMEOUT"}]
  BY PartsOfCore DEF ThreadsRight
<1>1. ASSUME NEW s \in Semas, ~Absent(waiting[s], t), Absent(waiting'[s], t)
      PROVE  \E x \in Semas : Waits(t, x) /\ ~Waits(t, x)'
  <2>1. Waits(t, s)
    BY <1>1, WaitsIsThere
  <2>2. ~Waits(t, s)'
    <3>1. waiting'[s] \in PriorQueue
      BY DEF CoreInv, TypeOK
    <3> QED BY <1>1, <3>1, QueuedOrAbsent DEF Waits
  <2> QED BY <2>1, <2>2
<1>2. ASSUME NEW s \in Semas, t = Foremost(waiting[s]),
             waiting' = [waiting EXCEPT ![s] = Pop(waiting[s])]
      PROVE  \E x \in Semas : Waits(t, x) /\ ~Waits(t, x)'
  <2>1. ~Absent(waiting[s], t) /\ Absent(Pop(waiting[s]), t)
    BY <1>2, QueueFacts, PopProperties, PopOnce, QueueAssumption
  <2>2. waiting'[s] = Pop(waiting[s])
    BY <1>2, OneListOf
  <2> QED BY <1>1, <2>1, <2>2
<1>3. ASSUME NEW s \in Semas, NEW w \in Threads, HandOver(s, w)
      PROVE  \E x \in Semas : Waits(t, x) /\ ~Waits(t, x)'
  <2>1. /\ w = Foremost(waiting[s]) /\ waiting' = [waiting EXCEPT ![s] = Pop(waiting[s])]
        /\ wake' = wake \/ wake' = [wake EXCEPT ![w] = "OK"]
    BY <1>3 DEF HandOver
  <2>2. w = t
    BY <1>0, <2>1
  <2> QED BY <1>2, <2>1, <2>2
<1>4. ASSUME NEW u \in Threads, SemaDestroyWake(u)
      PROVE  \E x \in Semas : Waits(t, x) /\ ~Waits(t, x)'
  <2>1. PICK s \in Semas : s = call[u].sema
    BY <1>4, PartsOfCore DEF SemaDestroyWake, At, CallsRight, CallsInv
  <2>2. /\ waiting' = [waiting EXCEPT ![s] = Pop(waiting[s])]
        /\ wake' = [wake EXCEPT ![Foremost(waiting[s])] = "DELETED"]
    BY <1>4, <2>1 DEF SemaDestroyWake
  <2>3. t = Foremost(waiting[s])
    BY <1>0, <2>2
  <2> QED BY <1>2, <2>2, <2>3
<1>5. CASE Callback
  <2>1. PICK k \in DOMAIN timers : timers[k] = tick.timer
    BY <1>5 DEF Callback, TickIsAt, PlacesInv, AlarmsInv
  <2> DEFINE v == timers[k]
  <2>2. v \in TimerRecord /\ RightTimer(v) /\ tick.at = "callback"
    BY <1>5, <2>1, PartsOfCore DEF Callback, TickIsAt, TickRight
  <2>3. /\ v.kind = "sema"
        /\ wake' = [wake EXCEPT ![v.tcb] = "TIMEOUT"]
        /\ waiting' = [waiting EXCEPT ![v.sema] = Take(waiting[v.sema], v.tcb)]
    BY <1>5, <2>1 DEF Callback
  <2>4. v.tcb = t
    BY <1>0, <2>3
  <2>5. PICK s \in Semas : s = v.sema
    BY <2>2, <2>3 DEF RightTimer
  <2>6. ~Absent(waiting[s], t)
    BY <2>2, <2>3, <2>4, <2>5, AllPending, WaitsOf DEF WaitOK
  <2> HIDE DEF v
  <2>7. waiting'[s] = Take(waiting[s], t)
    BY <2>3, <2>4, <2>5, OneListOf
  <2>8. Absent(Take(waiting[s], t), t)
    BY QueueFacts, TakeOnce
  <2> QED BY <1>1, <2>6, <2>7, <2>8
<1>6. ASSUME NEW u \in Threads, ThreadStep(u)
      PROVE  \/ wake' = wake \/ SemaDestroyWake(u)
             \/ \E s \in Semas, w \in Threads : HandOver(s, w)
  BY <1>6 DEF ThreadStep, ThreadCreate, Enqueue, DelayTick, DelayTickNoTimer, SemaAcquire,
              SemaAcquireWait, SemaAcquireNoTimer, SemaAcquireReturn, SemaGive, Increment,
              SemaDestroy, SemaDestroyNoMore, SemaDestroyFree, Reschedule, tcbVars
<1>7. CASE Boot \/ (\E s \in Semas, n \in 0 .. MaxCount : SemaCreate(s, n)) \/ UNCHANGED vars
  BY <1>7 DEF Boot, CreateBeforeStart, KernelStart, Enqueue, SemaCreate, tcbVars, vars
<1>8. CASE Tick
  BY <1>5, <1>8 DEF Tick, TickCount, PollTimer, DeleteTimer, TickExit, tcbVars
<1>9. CASE Irq
  BY <1>3, <1>9 DEF Irq, IrqGive, Increment, IrqAcquire, IrqExit, tcbVars
<1> QED BY <1>3, <1>4, <1>6, <1>7, <1>8, <1>9 DEF Next

\* No late timeout overwrites what a give or a destroy has told the thread, nor
\* the other way round.  WokenOnce of the runs.
THEOREM WokenOnceOnly ==
    ASSUME IdleAlone, ~Nested, FifosHoldAll
    PROVE  Spec => WokenOnce
<1>1. ASSUME CoreInv, PlacesInv, WaitsInv, CoreInv', PlacesInv', [Next]_vars
      PROVE  [\A t \in Threads : wake'[t] # wake[t] =>
                 \E s \in Semas : Waits(t, s) /\ ~Waits(t, s)']_vars
  BY <1>1, WakeFollowsWait
<1> QED BY WaitsInvariant, <1>1, PTL DEF Spec, WokenOnce

-----------------------------------------------------------------------------
(* Nobody is lost. *)

Runs(t) == current = t /\ state[t] # "SUSPEND"

\* A created thread is somewhere.
Found(t) ==
    \/ state[t] = "NONE"
    \/ Runs(t)
    \/ ~Absent(ready, t)
    \/ ~WaitsNowhere(t)
    \/ ~NoAlarm(t)

FoundInv ==
    /\ \A t \in Threads : Found(t)
    /\ ~started => \A t \in Threads : state[t] # "SUSPEND"

LEMMA KeptIsFound ==
    ASSUME NEW t \in Threads, Found(t), Kept(t), Runs(t) => Runs(t)',
           state'[t] = state[t]
    PROVE  Found(t)'
<1>1. CASE ~Absent(ready', t)
  BY <1>1 DEF Found
<1>2. CASE Absent(ready, t) /\ StaysPut(t)
  <2>1. WaitsNowhere(t)' => WaitsNowhere(t)
    BY <1>2 DEF StaysPut, WaitsNowhere
  <2> QED BY <1>2, <2>1 DEF Found, StaysPut
<1> QED BY <1>1, <1>2 DEF Kept

LEMMA FoundOf == ASSUME FoundInv, NEW t \in Threads PROVE Found(t)
  BY DEF FoundInv

\* A step that switches no thread and moves none out of sight.
LEMMA KeptFound ==
    ASSUME FoundInv, UNCHANGED <<current, state>>, started' = started,
           \A u \in Threads : Kept(u)
    PROVE  FoundInv'
<1>1. ASSUME NEW u \in Threads PROVE Found(u)'
  BY FoundOf, KeptIsFound DEF Runs
<1> QED BY <1>1 DEF FoundInv

LEMMA SameReadyKept ==
    ASSUME UNCHANGED ready, NEW u, StaysPut(u)
    PROVE  Kept(u)
  BY DEF Kept

\* Nothing moves.
LEMMA QuietKept ==
    ASSUME UNCHANGED <<ready, waiting, timers, timerOf>>,
           tick.at # "delete", tick'.at # "delete"
    PROVE  \A u \in Threads : Kept(u)
  BY AlarmsStay, SameReadyKept DEF StaysPut

\* There is always a timer for a thread that has none.
LEMMA TimerToBeHad ==
    ASSUME TimersForAll, CoreInv, PlacesInv, tick.at # "delete",
           NEW t \in Threads \ {Idle}, NoAlarm(t)
    PROVE  Len(timers) # TimerCap
<1> DEFINE S == (Threads \ {Idle}) \ {t}
           s == [i \in 1 .. Len(timers) |-> timers[i].tcb]
<1>1. Len(timers) \in Nat /\ DOMAIN timers = 1 .. Len(timers)
  BY QueueFacts, LenProperties DEF RightTimers
<1>2. \A i \in 1 .. Len(timers) : timers[i].tcb \in S
  <2>1. \A i \in 1 .. Len(timers) : timers[i] \in TimerRecord
    BY QueueFacts, LenProperties, ElementOfSeq DEF RightTimers
  <2>2. \A i \in 1 .. Len(timers) : timers[i].tcb # Idle /\ timers[i].tcb # t
    BY <1>1, QueueFacts, AllPending DEF RightTimers, RightTimer, NoAlarm
  <2> QED BY <2>1, <2>2 DEF TimerRecord
<1>3. ASSUME NEW i \in 1 .. Len(timers), NEW j \in 1 .. Len(timers),
             timers[i].tcb = timers[j].tcb
      PROVE  i = j
  <2>1. PICK u \in Threads : u = timers[i].tcb
    BY <1>2
  <2>2. timerOf[u] = timers[i].id /\ timerOf[u] = timers[j].id
    BY <1>1, <1>3, <2>1, PlacesOf, AllPending DEF PlaceOK, AlarmFits
  <2> QED BY <1>1, <2>2, QueueFacts DEF BlocksDiffer
<1>4. /\ IsFiniteSet(S) /\ Cardinality(Threads \ {Idle}) \in Nat
      /\ Cardinality(S) = Cardinality(Threads \ {Idle}) - 1
  BY QueueAssumption, FS_RemoveElement, FS_CardinalityType
<1>5. Len(timers) <= Cardinality(S)
  <2>1. DOMAIN s = 1 .. Len(timers) /\ AllDiffer(s) /\ \A i \in 1 .. Len(timers) : s[i] \in S
    BY <1>2, <1>3 DEF AllDiffer
  <2> HIDE DEF s, S
  <2> QED BY <1>1, <1>4, <2>1, DifferFit
<1>6. TimerCap \in Nat /\ Cardinality(Threads \ {Idle}) <= TimerCap
  BY KernelAssumption DEF TimersForAll
<1> HIDE DEF S, s
<1>7. Cardinality(S) < TimerCap
  BY <1>4, <1>6
<1>8. \A l, c, b \in Int : l <= c /\ c < b => l # b
  OBVIOUS
<1>9. Len(timers) \in Int /\ Cardinality(S) \in Int /\ TimerCap \in Int
  BY <1>1, <1>4, <1>6
<1> QED BY <1>5, <1>7, <1>8, <1>9

\* The scheduler loses nobody: who does not get the core stays ready, and who
\* gives it up becomes ready.
LEMMA SchedulerLeaves ==
    ASSUME IdleAlone, FifosHoldAll, CoreInv, PlacesInv, NEW b \in BOOLEAN, Scheduler(b),
           current \in Threads
    PROVE  /\ state'[current'] # "SUSPEND"
           /\ \A u \in Threads : u # current' /\ ~Absent(ready, u) => ~Absent(ready', u)
           /\ current' # current /\ state[current] # "SUSPEND" => ~Absent(ready', current)
           /\ \A u \in Threads : u # current /\ u # current' => state'[u] = state[u]
<1> DEFINE f == Foremost(ready)
           c == current
<1>1. current' \in Threads
  BY SchedulerMoves
<1>2. f # NULL => f \in Threads /\ Pop(ready) \in PriorQueue /\ Once(Pop(ready))
                  /\ Filed(Pop(ready)) /\ Absent(Pop(ready), f)
  BY QueueFacts, PopOnce, PopProperties
<1>3. \A u : u # f /\ Absent(Pop(ready), u) => Absent(ready, u)
  BY QueueFacts, PopLeaves
<1>4. ASSUME f # NULL, NEW x \in Threads, Absent(Pop(ready), x)
      PROVE  /\ ~Absent(PushIfRoom(Pop(ready), x), x)
             /\ \A u : u # f /\ Absent(PushIfRoom(Pop(ready), x), u) => Absent(ready, u)
  <2>1. PushIfRoom(Pop(ready), x) = Push(Pop(ready), x)
    BY <1>2, <1>4, RoomForAll
  <2> QED BY <1>2, <1>3, <1>4, <2>1, PushLeaves
<1>5. CASE SwitchFromSuspended
  <2>1. ready' = Pop(ready) /\ SwitchTo(f) /\ current' = f /\ state[c] = "SUSPEND"
    BY <1>5 DEF SwitchFromSuspended, SwitchTo
  <2> HIDE DEF f
  <2> QED BY <1>1, <1>3, <2>1 DEF SwitchTo
<1>6. CASE Preempt(b)
  <2>1. /\ f # NULL /\ state[c] # "SUSPEND"
        /\ ready' = PushIfRoom(Pop(ready), c) /\ SwitchTo(f) /\ current' = f
    BY <1>6 DEF Preempt, SwitchTo
  <2>2. Absent(Pop(ready), c)
    BY <2>1, QueueFacts, PopProperties, PlacesOf DEF PlaceOK, OffLists, Nowhere
  <2> HIDE DEF f
  <2> QED BY <1>1, <1>4, <2>1, <2>2 DEF SwitchTo
<1>7. CASE KeepCurrent(b)
  <2>1. current' = c /\ state' = state /\ state[c] # "SUSPEND"
    BY <1>7 DEF KeepCurrent
  <2>2. CASE f = NULL
    BY <1>7, <2>1, <2>2 DEF KeepCurrent
  <2>3. CASE f # NULL
    <3>1. ready' = PushIfRoom(Pop(ready), f)
      BY <1>7, <2>3 DEF KeepCurrent
    <3> HIDE DEF f
    <3> QED BY <1>2, <1>4, <2>1, <2>3, <3>1
  <2> QED BY <2>2, <2>3
<1> QED BY <1>5, <1>6, <1>7 DEF Scheduler

LEMMA SchedulerFound ==
    ASSUME IdleAlone, FifosHoldAll, CoreInv, PlacesInv, FoundInv, NEW b \in BOOLEAN,
           Scheduler(b), started, UNCHANGED <<started, waiting, timers>>,
           tick.at # "delete", tick'.at # "delete"
    PROVE  FoundInv'
<1>0. current \in Threads
  BY DEF CoreInv, CoreOwned
<1>1. /\ state'[current'] # "SUSPEND"
      /\ \A u \in Threads : u # current' /\ ~Absent(ready, u) => ~Absent(ready', u)
      /\ current' # current /\ state[current] # "SUSPEND" => ~Absent(ready', current)
      /\ \A u \in Threads : u # current /\ u # current' => state'[u] = state[u]
  BY <1>0, SchedulerLeaves
<1>2. \A u \in Threads : (WaitsNowhere(u)' => WaitsNowhere(u)) /\ (NoAlarm(u)' => NoAlarm(u))
  BY AlarmsStay DEF WaitsNowhere
<1>3. ASSUME NEW u \in Threads PROVE Found(u)'
  <2>1. CASE u = current'
    BY <1>1, <2>1 DEF Found, Runs
  <2>2. CASE u # current' /\ u # current
    BY <1>1, <1>2, <2>2, FoundOf DEF Found, Runs
  <2>3. CASE u # current' /\ u = current
    BY <1>1, <1>2, <2>3, FoundOf DEF Found, Runs
  <2> QED BY <2>1, <2>2, <2>3
<1> QED BY <1>3 DEF FoundInv

\* A caller that suspends itself is behind a timer or on a wait list then.
LEMMA CallerFound ==
    ASSUME CoreInv, FoundInv, started, started' = started, NEW t \in Threads,
           UNCHANGED current, Found(t)',
           \A u \in Threads \ {t} : state'[u] = state[u] /\ Kept(u)
    PROVE  FoundInv'
<1>1. ASSUME NEW u \in Threads \ {t} PROVE Found(u)'
  BY FoundOf, KeptIsFound DEF Runs
<1> QED BY <1>1 DEF FoundInv

\* A new thread is ready.
LEMMA EnqueueFound ==
    ASSUME CoreInv, PlacesInv, FoundInv, NEW t \in Threads, Enqueue(t), tick.at # "delete"
    PROVE  FoundInv'
<1>1. /\ ready' = Push(ready, t)
      /\ state' = [state EXCEPT ![t] = NewState(t)]
      /\ UNCHANGED <<started, current, timerOf, waiting, timers, tick>>
  BY DEF Enqueue, semaVars, isrVars
<1>2. state'[t] \in {"INVALID", "READY"} /\ \A u \in Threads \ {t} : state'[u] = state[u]
  BY <1>1, QueueFacts DEF NewState
<1>3. ~Absent(ready', t) /\ \A u : Absent(ready', u) => Absent(ready, u)
  BY <1>1, QueueFacts, PushLeaves
<1>4. ASSUME NEW u \in Threads \ {t} PROVE Found(u)'
  <2>1. StaysPut(u)
    BY <1>1, AlarmsStay DEF StaysPut
  <2>2. Kept(u)
    BY <1>3, <2>1 DEF Kept
  <2> QED BY <1>1, <1>2, <2>2, FoundOf, KeptIsFound DEF Runs
<1>5. Found(t)'
  BY <1>3 DEF Found
<1> QED BY <1>1, <1>2, <1>4, <1>5 DEF FoundInv

LEMMA KernelStartFound ==
    ASSUME IdleAlone, CoreInv, PlacesInv, FoundInv, KernelStart
    PROVE  FoundInv'
<1>1. /\ current = NULL /\ tick.at = "off" /\ started'
      /\ current' = Foremost(ready) /\ ready' = Pop(ready)
      /\ \A u \in Threads : state[u] # "SUSPEND"
      /\ UNCHANGED <<state, timerOf, waiting, timers, tick>>
  BY DEF KernelStart, CoreInv, CoreOwned, FoundInv, tcbVars, semaVars, isrVars
<1>2. \A u : u # current' /\ Absent(ready', u) => Absent(ready, u)
  BY <1>1, QueueFacts, PopLeaves
<1>3. ASSUME NEW u \in Threads PROVE Found(u)'
  <2>1. CASE u = current'
    BY <1>1, <2>1 DEF Found, Runs
  <2>2. CASE u # current'
    <3>1. StaysPut(u) /\ ~Runs(u)
      BY <1>1, AlarmsStay, QueueAssumption DEF StaysPut, Runs
    <3>2. Kept(u)
      BY <1>2, <2>2, <3>1 DEF Kept
    <3> QED BY <1>1, <3>1, <3>2, FoundOf, KeptIsFound
  <2> QED BY <2>1, <2>2
<1> QED BY <1>1, <1>3 DEF FoundInv

LEMMA ThreadStepFound ==
    ASSUME IdleAlone, FifosHoldAll, TimersForAll, CoreInv, PlacesInv, PlacesInv', WaitsInv,
           FoundInv, NEW t \in Threads, ThreadStep(t)
    PROVE  FoundInv'
<1>1. ASSUME NEW new \in Threads, ThreadCreate(t, new) PROVE FoundInv'
  <2>1. Enqueue(new) /\ tick.at # "delete"
    BY <1>1 DEF ThreadCreate, Calling, At, InThread
  <2> QED BY <2>1, EnqueueFound
<1>2. ASSUME NEW n \in 1 .. MaxTicks, DelayTick(t, n) PROVE FoundInv'
  <2>1. ~NoAlarm(t)' /\ \A u \in Threads \ {t} : Kept(u)
    BY <1>2, DelayTickWaits
  <2>2. /\ started /\ UNCHANGED <<started, current>>
        /\ \A u \in Threads \ {t} : state'[u] = state[u]
    BY <1>2, QueueFacts DEF DelayTick, Calling, At, InThread
  <2> QED BY <2>1, <2>2, CallerFound DEF Found
<1>3. ASSUME NEW s, DelayTickNoTimer(t) \/ SemaAcquireNoTimer(t, s) PROVE FALSE
  <2>1. Len(timers) = TimerCap /\ Calling(t)
    BY <1>3 DEF DelayTickNoTimer, SemaAcquireNoTimer
  <2>2. t # Idle /\ NoAlarm(t) /\ tick.at = "off"
    BY <2>1, CallerIsNowhere DEF Calling, Nowhere
  <2> QED BY <2>1, <2>2, TimerToBeHad
<1>4. ASSUME NEW s \in Semas, SemaAcquire(t, s) PROVE FoundInv'
  <2>1. /\ tick.at = "off"
        /\ UNCHANGED <<started, current, state, ready, waiting, timers, timerOf, tick>>
    BY <1>4 DEF SemaAcquire, TakeCount, Calling, At, InThread, tcbVars, isrVars
  <2> QED BY <2>1, QuietKept, KeptFound
<1>5. ASSUME NEW s \in Semas, NEW n \in (1 .. MaxTicks) \cup {Forever}, SemaAcquireWait(t, s, n)
      PROVE  FoundInv'
  <2>1. ~Absent(waiting'[s], t) /\ \A u \in Threads \ {t} : Kept(u)
    BY <1>5, SemaAcquireWaitWaits
  <2>2. /\ started /\ UNCHANGED <<started, current>>
        /\ \A u \in Threads \ {t} : state'[u] = state[u]
    BY <1>5, QueueFacts DEF SemaAcquireWait, Calling, At, InThread
  <2> QED BY <2>1, <2>2, CallerFound DEF Found, WaitsNowhere
<1>6. CASE SemaAcquireReturn(t)
  <2>1. /\ tick.at = "off"
        /\ UNCHANGED <<started, current, state, ready, waiting, timers, timerOf, tick>>
    BY <1>6 DEF SemaAcquireReturn, At, InThread, tcbVars, isrVars
  <2> QED BY <2>1, QuietKept, KeptFound
<1>7. ASSUME NEW s \in Semas, SemaGive(t, s) PROVE FoundInv'
  <2>1. UNCHANGED <<started, current, state>>
    BY <1>7 DEF SemaGive, HandOver, Increment, tcbVars
  <2>2. CASE Increment(s)
    <3>1. tick.at = "off" /\ UNCHANGED <<ready, waiting, timers, timerOf, tick>>
      BY <1>7, <2>2 DEF SemaGive, Increment, Calling, At, InThread, tcbVars, isrVars
    <3> QED BY <2>1, <3>1, QuietKept, KeptFound
  <2>3. CASE \A u \in Threads : Kept(u)
    BY <2>1, <2>3, KeptFound
  <2> QED BY <1>7, <2>2, <2>3, SemaGiveWaits
<1>8. ASSUME NEW s \in Semas, SemaDestroy(t, s) PROVE FoundInv'
  <2>1. /\ tick.at = "off"
        /\ UNCHANGED <<started, current, state, ready, waiting, timers, timerOf, tick>>
    BY <1>8 DEF SemaDestroy, Calling, At, InThread, tcbVars, isrVars
  <2> QED BY <2>1, QuietKept, KeptFound
<1>9. CASE SemaDestroyWake(t)
  <2>1. UNCHANGED <<started, current, state>>
    BY <1>9 DEF SemaDestroyWake
  <2> QED BY <1>9, <2>1, SemaDestroyWakeWaits, KeptFound
<1>10. CASE SemaDestroyNoMore(t)
  <2>1. /\ tick.at = "off"
        /\ UNCHANGED <<started, current, state, ready, waiting, timers, timerOf, tick>>
    BY <1>10 DEF SemaDestroyNoMore, At, InThread, tcbVars, semaVars, isrVars
  <2> QED BY <2>1, QuietKept, KeptFound
<1>11. CASE SemaDestroyFree(t)
  <2>1. /\ tick.at = "off"
        /\ UNCHANGED <<started, current, state, ready, waiting, timers, timerOf, tick>>
    BY <1>11 DEF SemaDestroyFree, At, InThread, tcbVars, isrVars
  <2> QED BY <2>1, QuietKept, KeptFound
<1>12. CASE Reschedule(t)
  <2>1. /\ started /\ Scheduler(FALSE) /\ tick.at = "off"
        /\ UNCHANGED <<started, waiting, timers, tick>>
    BY <1>12 DEF Reschedule, InThread, semaVars, isrVars
  <2> QED BY <2>1, SchedulerFound
<1> QED BY <1>1, <1>2, <1>3, <1>4, <1>5, <1>6, <1>7, <1>8, <1>9, <1>10, <1>11, <1>12
        DEF ThreadStep

LEMMA StepFound ==
    ASSUME IdleAlone, ~Nested, FifosHoldAll, TimersForAll, CoreInv, PlacesInv, PlacesInv',
           WaitsInv, FoundInv, [Next]_vars
    PROVE  FoundInv'
<1>1. ASSUME UNCHANGED <<started, current, state, ready, waiting, timers, timerOf>>,
             tick.at # "delete", tick'.at # "delete"
      PROVE  FoundInv'
  BY <1>1, QuietKept, KeptFound
<1>2. CASE Boot
  <2>1. ASSUME NEW t \in Threads, CreateBeforeStart(t) PROVE FoundInv'
    <3>1. Enqueue(t) /\ tick.at # "delete"
      BY <2>1, PartsOfCore DEF CreateBeforeStart, TickRight
    <3> QED BY <3>1, EnqueueFound
  <2> QED BY <1>2, <2>1, KernelStartFound DEF Boot
<1>3. CASE \E t \in Threads : ThreadStep(t)
  BY <1>3, ThreadStepFound
<1>4. ASSUME NEW s \in Semas, NEW n \in 0 .. MaxCount, SemaCreate(s, n) PROVE FoundInv'
  <2>1. tick.at = "off"
    BY <1>4, PartsOfCore DEF SemaCreate, Calling, At, InThread, TickRight
  <2>2. \A u \in Threads : StaysPut(u)
    BY <1>4, <2>1, SemaCreateWaits
  <2>3. UNCHANGED <<started, current, state, ready>>
    BY <1>4 DEF SemaCreate, tcbVars
  <2> QED BY <2>2, <2>3, SameReadyKept, KeptFound
<1>5. CASE Tick
  <2>1. CASE TickCount
    <3>1. UNCHANGED <<started, current, state, ready>>
      BY <2>1 DEF TickCount, tcbVars
    <3> QED BY <2>1, <3>1, TickCountWaits, SameReadyKept, KeptFound
  <2>2. CASE PollTimer
    <3>1. tick.at = "poll" /\ tick'.at \in {"poll", "callback"}
      <4>1. tick \in [at : TickPoints, idx : Nat \ {0},
                      timer : TimerRecord \cup {NoTimer}]
        BY PartsOfCore DEF TickRight
      <4> QED BY <2>2, <4>1 DEF PollTimer, TickIsAt
    <3> QED BY <1>1, <2>2, <3>1 DEF PollTimer, tcbVars, semaVars
  <2>3. CASE Callback
    <3>1. UNCHANGED <<started, current, state>>
      BY <2>3 DEF Callback
    <3> QED BY <2>3, <3>1, CallbackWaits, KeptFound
  <2>4. CASE DeleteTimer
    <3>1. UNCHANGED <<started, current, state, ready>>
      BY <2>4 DEF DeleteTimer, tcbVars
    <3> QED BY <2>4, <3>1, DeleteTimerWaits, SameReadyKept, KeptFound
  <2>5. CASE TickExit
    <3>1. /\ started /\ Scheduler(TRUE) /\ tick.at = "poll" /\ tick'.at = "off"
          /\ UNCHANGED <<started, waiting, timers>>
      BY <2>5, PartsOfCore DEF TickExit, TickIsAt, TickOff, TickRight, semaVars
    <3> QED BY <3>1, SchedulerFound
  <2> QED BY <1>5, <2>1, <2>2, <2>3, <2>4, <2>5 DEF Tick
<1>6. CASE Irq
  <2>1. ASSUME NEW s \in Semas, IrqGive(s) PROVE FoundInv'
    <3>1. tick.at = "off" /\ UNCHANGED <<call, tick>>
      BY <2>1 DEF IrqGive, DeviceMayInterrupt
    <3>2. CASE Increment(s)
      BY <1>1, <3>1, <3>2 DEF Increment, tcbVars
    <3>3. ASSUME NEW w \in Threads, HandOver(s, w) PROVE FoundInv'
      <4>1. \A u \in Threads : Kept(u)
        BY <3>1, <3>3, HandOverWaits DEF CallGoesOn
      <4> QED BY <3>3, <4>1, KeptFound DEF HandOver
    <3> QED BY <2>1, <3>2, <3>3 DEF IrqGive
  <2>2. ASSUME NEW s \in Semas, IrqAcquire(s) PROVE FoundInv'
    BY <1>1, <2>2 DEF IrqAcquire, DeviceMayInterrupt, TakeCount, tcbVars
  <2>3. CASE IrqExit
    <3>1. /\ started /\ Scheduler(FALSE) /\ tick.at = "off"
          /\ UNCHANGED <<started, waiting, timers, tick>>
      BY <2>3, PartsOfCore DEF IrqExit, TickRight, PlacesInv, AlarmsInv, semaVars
    <3> QED BY <3>1, SchedulerFound
  <2> QED BY <1>6, <2>1, <2>2, <2>3 DEF Irq
<1>7. CASE UNCHANGED vars
  <2>1. UNCHANGED <<started, current, state, ready, waiting, timers, timerOf, tick>>
    BY <1>7 DEF vars, tcbVars, semaVars, isrVars
  <2> QED BY <2>1 DEF FoundInv, Found, Runs, WaitsNowhere, NoAlarm, Pending
<1> QED BY <1>2, <1>3, <1>4, <1>5, <1>6, <1>7 DEF Next

LEMMA InitFound == Init => FoundInv
<1> SUFFICES ASSUME Init PROVE FoundInv
  OBVIOUS
<1>1. ~Absent(ready, Idle)
  BY EmptyQueueIsRight, IdleFacts, PushLeaves DEF Init
<1>2. /\ \A t \in Threads \ {Idle} : state[t] = "NONE"
      /\ \A t \in Threads : state[t] # "SUSPEND"
  BY DEF Init
<1> QED BY <1>1, <1>2 DEF FoundInv, Found

\* A created thread runs, is ready, waits or sleeps, at every interleaving of
\* calls and interrupts, if there is room for it wherever it goes.
\* NoThreadLost of the runs.
THEOREM NobodyLost ==
    ASSUME IdleAlone, ~Nested, FifosHoldAll, TimersForAll
    PROVE  Spec => []NoThreadLost
<1>1. CoreInv /\ PlacesInv /\ PlacesInv' /\ WaitsInv /\ FoundInv /\ [Next]_vars => FoundInv'
  BY StepFound
<1>2. ASSUME CoreInv, PlacesInv, WaitsInv, FoundInv PROVE NoThreadLost
  <2>1. ASSUME NEW t \in Threads, state[t] # "NONE" PROVE Places(t) # {}
    <3>1. CASE Runs(t)
      BY <3>1 DEF Runs, Places, Suspending
    <3>2. CASE ~Absent(ready, t)
      BY <1>2, <3>2, QueueFacts, QueuedOrAbsent DEF Places
    <3>3. CASE ~WaitsNowhere(t)
      BY <1>2, <3>3, WaitsIsThere DEF Places, WaitsNowhere
    <3>4. ASSUME NEW i \in DOMAIN timers, Pending(timers[i]), timers[i].tcb = t
          PROVE  Places(t) # {}
      <4>1. CASE timers[i].kind = "delay"
        BY <3>4, <4>1 DEF Places, Delayed, Pending
      <4>2. CASE timers[i].kind = "sema"
        <5>1. timers[i].sema \in Semas /\ ~Absent(waiting[timers[i].sema], t)
          BY <1>2, <3>4, <4>2, PartsOfCore, WaitsOf DEF RightTimers, RightTimer, WaitOK
        <5> QED BY <3>3, <5>1 DEF WaitsNowhere
      <4>3. timers[i] \in TimerRecord
        BY <1>2, QueueFacts, LenProperties, ElementOfSeq DEF RightTimers
      <4> QED BY <4>1, <4>2, <4>3 DEF TimerRecord
    <3> QED BY <1>2, <2>1, <3>1, <3>2, <3>3, <3>4, FoundOf DEF Found, NoAlarm
  <2> QED BY <2>1 DEF NoThreadLost
<1> QED BY WaitsInvariant, InitFound, <1>1, <1>2, PTL DEF Spec

-----------------------------------------------------------------------------
(* Who holds a token. *)

InAcquire(t) == call[t].at \in {"suspended", "woken"}

\* The thread has been handed a token of s and has not yet returned with it.
Holds(t, s) ==
    InAcquire(t) /\ call[t].sema = s /\ wake[t] = "OK" /\ Absent(waiting[s], t)

HoldersOf(s) == {t \in Threads : Holds(t, s)}

TokensOK(s) == phase[s] = "live" => tokens[s] = count[s] + Cardinality(HoldersOf(s))

TokensInv == \A s \in Semas : TokensOK(s)

\* The thread is in acquire after the step if it was before, on the same one.
SameAcquire(t) ==
    /\ InAcquire(t)' <=> InAcquire(t)
    /\ InAcquire(t) => call'[t].sema = call[t].sema

\* A step that leaves the thread as it is, as far as tokens go.
SameHold(t, s) == Holds(t, s)' <=> Holds(t, s)

LEMMA HoldStays ==
    ASSUME NEW t \in Threads, NEW s \in Semas, SameAcquire(t), wake'[t] = wake[t],
           Absent(waiting'[s], t) <=> Absent(waiting[s], t)
    PROVE  SameHold(t, s)
  BY DEF SameHold, Holds, SameAcquire

LEMMA HoldersCount ==
    ASSUME NEW s \in Semas
    PROVE  /\ IsFiniteSet(HoldersOf(s)) /\ Cardinality(HoldersOf(s)) \in Nat
           /\ \A t : Cardinality(HoldersOf(s) \cup {t}) =
                IF t \in HoldersOf(s) THEN Cardinality(HoldersOf(s))
                                      ELSE Cardinality(HoldersOf(s)) + 1
           /\ \A t : Cardinality(HoldersOf(s) \ {t}) =
                IF t \in HoldersOf(s) THEN Cardinality(HoldersOf(s)) - 1
                                      ELSE Cardinality(HoldersOf(s))
<1>1. HoldersOf(s) \in SUBSET Threads
  BY DEF HoldersOf
<1>2. IsFiniteSet(HoldersOf(s))
  BY <1>1, QueueAssumption, FS_Subset
<1> QED BY <1>2, FS_CardinalityType, FS_AddElement, FS_RemoveElement

\* The holders stay, and what was put in, taken and counted agrees.
LEMMA TokenStays ==
    ASSUME CoreInv, TokensInv, NEW s \in Semas, phase[s] = "live",
           \A u \in Threads : SameHold(u, s),
           NEW d \in Int, tokens'[s] = tokens[s] + d, count'[s] = count[s] + d
    PROVE  TokensOK(s)'
<1>1. HoldersOf(s)' = HoldersOf(s)
  BY DEF HoldersOf, SameHold
<1>2. tokens[s] = count[s] + Cardinality(HoldersOf(s))
  BY DEF TokensInv, TokensOK
<1>3. tokens[s] \in Int /\ count[s] \in Int /\ Cardinality(HoldersOf(s)) \in Int
  BY HoldersCount, PartsOfCore, KernelAssumption DEF CountsRight
<1> DEFINE c == Cardinality(HoldersOf(s))
<1>4. Cardinality(HoldersOf(s)') = c
  BY <1>1
<1> HIDE DEF c
<1>5. tokens'[s] = count'[s] + c
  BY <1>2, <1>3 DEF c
<1> QED BY <1>4, <1>5 DEF TokensOK

\* Most steps change no count.
LEMMA TokensStay ==
    ASSUME CoreInv, TokensInv, UNCHANGED <<tokens, count>>,
           \A s \in Semas : phase'[s] = "live" => phase[s] = "live",
           \A s \in Semas : phase[s] = "live" => \A u \in Threads : SameHold(u, s)
    PROVE  TokensInv'
<1>1. ASSUME NEW s \in Semas, phase'[s] = "live" PROVE TokensOK(s)'
  <2>1. tokens[s] \in Int /\ count[s] \in Int
    BY PartsOfCore, KernelAssumption DEF CountsRight
  <2>2. tokens'[s] = tokens[s] + 0 /\ count'[s] = count[s] + 0
    BY <2>1
  <2>3. phase[s] = "live" /\ (\A u \in Threads : SameHold(u, s)) /\ 0 \in Int
    BY <1>1
  <2> QED BY <2>2, <2>3, TokenStays
<1>2. ASSUME NEW s \in Semas, phase'[s] # "live" PROVE TokensOK(s)'
  BY <1>2 DEF TokensOK
<1> QED BY <1>1, <1>2 DEF TokensInv

\* Nobody is told anything, and nobody joins or leaves a list.
LEMMA QuietTokens ==
    ASSUME CoreInv, TokensInv, UNCHANGED <<tokens, count, wake, waiting>>,
           \A s \in Semas : phase'[s] = "live" => phase[s] = "live",
           \A u \in Threads : SameAcquire(u)
    PROVE  TokensInv'
<1>1. \A s \in Semas : \A u \in Threads : SameHold(u, s)
  BY HoldStays
<1> QED BY <1>1, TokensStay

\* Taking from the count, or adding to it.
LEMMA CountTokens ==
    ASSUME CoreInv, TokensInv, UNCHANGED <<wake, waiting, phase>>,
           \A u \in Threads : SameAcquire(u),
           NEW s \in Semas, phase[s] = "live", NEW d \in Int,
           tokens' = [tokens EXCEPT ![s] = tokens[s] + d],
           count' = [count EXCEPT ![s] = count[s] + d]
    PROVE  TokensInv'
<1>1. \A x \in Semas : \A u \in Threads : SameHold(u, x)
  BY HoldStays
<1>2. TokensOK(s)'
  <2>1. tokens'[s] = tokens[s] + d /\ count'[s] = count[s] + d
    BY PartsOfCore DEF CountsRight
  <2> QED BY <1>1, <2>1, TokenStays
<1>3. ASSUME NEW x \in Semas \ {s}, phase'[x] = "live" PROVE TokensOK(x)'
  <2>1. tokens[x] \in Int /\ count[x] \in Int
    BY PartsOfCore, KernelAssumption DEF CountsRight
  <2>2. tokens'[x] = tokens[x] + 0 /\ count'[x] = count[x] + 0
    BY <2>1, PartsOfCore DEF CountsRight
  <2>3. phase[x] = "live"
    BY <1>3
  <2> QED BY <1>1, <2>2, <2>3, TokenStays
<1>4. ASSUME NEW x \in Semas, phase'[x] # "live" PROVE TokensOK(x)'
  BY <1>4 DEF TokensOK
<1> QED BY <1>2, <1>3, <1>4 DEF TokensInv

\* TakeCount and Increment, by a thread or an interrupt.
LEMMA TakeCountTokens ==
    ASSUME CoreInv, TokensInv, NEW s \in Semas, TakeCount(s), UNCHANGED <<call, wake>>
    PROVE  TokensInv'
<1>1. tokens[s] \in Int /\ count[s] \in Int
  BY PartsOfCore, KernelAssumption DEF CountsRight
<1>2. /\ tokens' = [tokens EXCEPT ![s] = tokens[s] + (-1)]
      /\ count' = [count EXCEPT ![s] = count[s] + (-1)]
  <2>1. tokens[s] - 1 = tokens[s] + (-1) /\ count[s] - 1 = count[s] + (-1)
    BY <1>1
  <2> QED BY <2>1 DEF TakeCount
<1>3. /\ -1 \in Int /\ phase[s] = "live"
      /\ UNCHANGED <<wake, waiting, phase>>
  BY DEF TakeCount
<1>4. \A u \in Threads : SameAcquire(u)
  BY DEF SameAcquire, InAcquire
<1> QED BY <1>2, <1>3, <1>4, CountTokens

LEMMA IncrementTokens ==
    ASSUME CoreInv, TokensInv, NEW s \in Semas, Increment(s),
           \A u \in Threads : SameAcquire(u)
    PROVE  TokensInv'
<1>1. /\ 1 \in Int /\ phase[s] = "live"
      /\ tokens' = [tokens EXCEPT ![s] = tokens[s] + 1]
      /\ count' = [count EXCEPT ![s] = count[s] + 1]
      /\ UNCHANGED <<wake, waiting, phase>>
  BY DEF Increment, tcbVars
<1> QED BY <1>1, CountTokens

\* The thread that is handed the token was waiting, and now holds it.
LEMMA HandOverTokens ==
    ASSUME FifosHoldAll, CoreInv, PlacesInv, WaitsInv, TokensInv,
           NEW s \in Semas, NEW w \in Threads, HandOver(s, w),
           \A u \in Threads : SameAcquire(u)
    PROVE  TokensInv'
<1>1. ~Absent(waiting[s], w)
  BY QueueFacts, PopProperties DEF HandOver
<1>2. HasRoom(ready, w)
  BY <1>1, WaiterHasRoom
<1>3. /\ w = Foremost(waiting[s]) /\ phase[s] = "live"
      /\ waiting' = [waiting EXCEPT ![s] = Pop(waiting[s])]
      /\ wake' = [wake EXCEPT ![w] = "OK"]
      /\ tokens' = [tokens EXCEPT ![s] = tokens[s] + 1]
      /\ UNCHANGED <<count, phase>>
  BY <1>2 DEF HandOver
<1>4. /\ waiting'[s] = Pop(waiting[s])
      /\ \A x \in Semas \ {s} : waiting'[x] = waiting[x]
  BY <1>3, OneListOf
<1>5. wake'[w] = "OK" /\ \A u \in Threads \ {w} : wake'[u] = wake[u]
  BY <1>3, PartsOfCore DEF ThreadsRight
<1>6. InAcquire(w) /\ call[w].sema = s
  BY <1>1, WaitsOf DEF WaitOK, InAcquire
<1>7. w \in HoldersOf(s)' /\ w \notin HoldersOf(s)
  <2>1. Absent(waiting'[s], w)
    BY <1>3, <1>4, QueueFacts, PopOnce, QueueAssumption
  <2> QED BY <1>1, <1>5, <1>6, <2>1 DEF HoldersOf, Holds, SameAcquire
<1>8. ASSUME NEW u \in Threads \ {w} PROVE SameHold(u, s)
  <2>1. Absent(Pop(waiting[s]), u) <=> Absent(waiting[s], u)
    BY <1>3, QueueFacts, PopProperties, PopLeaves
  <2> QED BY <1>4, <1>5, <2>1, HoldStays
<1>9. HoldersOf(s)' = HoldersOf(s) \cup {w}
  BY <1>7, <1>8 DEF HoldersOf, SameHold
<1>10. TokensOK(s)'
  <2> DEFINE c == Cardinality(HoldersOf(s))
  <2>1. tokens[s] = count[s] + c
    BY <1>3 DEF TokensInv, TokensOK
  <2>2. tokens[s] \in Int /\ count[s] \in Int /\ c \in Int
    BY HoldersCount, PartsOfCore, KernelAssumption DEF CountsRight
  <2>3. Cardinality(HoldersOf(s)') = c + 1
    BY <1>7, <1>9, HoldersCount
  <2>4. tokens'[s] = tokens[s] + 1 /\ count'[s] = count[s]
    BY <1>3, PartsOfCore DEF CountsRight
  <2> HIDE DEF c
  <2>5. tokens'[s] = count'[s] + (c + 1)
    BY <2>1, <2>2, <2>4
  <2> QED BY <2>3, <2>5 DEF TokensOK
<1>11. ASSUME NEW x \in Semas \ {s}, phase'[x] = "live" PROVE TokensOK(x)'
  <2>1. ASSUME NEW u \in Threads PROVE SameHold(u, x)
    <3>1. CASE u = w
      BY <1>6, <3>1 DEF SameHold, Holds, SameAcquire
    <3>2. CASE u # w
      BY <1>4, <1>5, <3>2, HoldStays
    <3> QED BY <3>1, <3>2
  <2>2. tokens[x] \in Int /\ count[x] \in Int
    BY PartsOfCore, KernelAssumption DEF CountsRight
  <2>3. tokens'[x] = tokens[x] + 0 /\ count'[x] = count[x] + 0
    BY <1>3, <2>2, PartsOfCore DEF CountsRight
  <2>4. phase[x] = "live" /\ (\A u \in Threads : SameHold(u, x)) /\ 0 \in Int
    BY <1>3, <1>11, <2>1
  <2> QED BY <2>3, <2>4, TokenStays
<1>12. ASSUME NEW x \in Semas, phase'[x] # "live" PROVE TokensOK(x)'
  BY <1>12 DEF TokensOK
<1> QED BY <1>10, <1>11, <1>12 DEF TokensInv

-----------------------------------------------------------------------------
(* The calls of threads. *)

\* A thread that the call is of was in acquire neither before nor after.
LEMMA CallerTokens ==
    ASSUME NEW t \in Threads, ~InAcquire(t), ~InAcquire(t)',
           \A u \in Threads \ {t} : call'[u] = call[u]
    PROVE  \A u \in Threads : SameAcquire(u)
  BY DEF SameAcquire, InAcquire

LEMMA SemaAcquireWaitTokens ==
    ASSUME CoreInv, PlacesInv, WaitsInv, TokensInv, NEW t \in Threads, NEW s \in Semas, NEW n,
           SemaAcquireWait(t, s, n)
    PROVE  TokensInv'
<1>1. /\ ~InAcquire(t)
      /\ call' = [call EXCEPT ![t].at = "suspended", ![t].sema = s]
      /\ UNCHANGED <<wake, count, phase, tokens>>
  BY DEF SemaAcquireWait, Calling, At, InAcquire
<1>2. /\ call'[t].sema = s
      /\ \A u \in Threads \ {t} : call'[u] = call[u]
  BY <1>1, QueueFacts DEF Calls
<1>3. ~Absent(waiting'[s], t) /\ \A u \in Threads \ {t} : StaysPut(u)
  BY SemaAcquireWaitWaits
<1>4. ASSUME NEW x \in Semas, NEW u \in Threads PROVE SameHold(u, x)
  <2>1. CASE u = t
    BY <1>1, <1>2, <1>3, <2>1 DEF SameHold, Holds
  <2>2. CASE u # t
    BY <1>1, <1>2, <1>3, <2>2 DEF SameHold, Holds, InAcquire, StaysPut
  <2> QED BY <2>1, <2>2
<1> QED BY <1>1, <1>4, TokensStay

LEMMA SemaAcquireNoTimerTokens ==
    ASSUME CoreInv, PlacesInv, WaitsInv, TokensInv, NEW t \in Threads, NEW s \in Semas,
           SemaAcquireNoTimer(t, s)
    PROVE  TokensInv'
<1>1. ~InAcquire(t) /\ UNCHANGED <<call, wake, count, phase, tokens>>
  BY DEF SemaAcquireNoTimer, Calling, At, InAcquire
<1>2. \A u \in Threads \ {t} : StaysPut(u)
  BY SemaAcquireNoTimerWaits
<1>3. ASSUME NEW x \in Semas, NEW u \in Threads PROVE SameHold(u, x)
  <2>1. CASE u = t
    BY <1>1, <2>1 DEF SameHold, Holds, InAcquire
  <2>2. CASE u # t
    BY <1>1, <1>2, <2>2 DEF SameHold, Holds, InAcquire, StaysPut
  <2> QED BY <2>1, <2>2
<1> QED BY <1>1, <1>3, TokensStay

\* The thread takes the token it was handed with it.
LEMMA SemaAcquireReturnTokens ==
    ASSUME CoreInv, PlacesInv, WaitsInv, TokensInv, NEW t \in Threads, SemaAcquireReturn(t)
    PROVE  TokensInv'
<1>1. /\ At(t, "woken") /\ call[t].at = "woken" /\ call' = [call EXCEPT ![t] = App]
      /\ tokens' = IF wake[t] = "OK" THEN [tokens EXCEPT ![call[t].sema] = tokens[call[t].sema] - 1]
                   ELSE tokens
      /\ UNCHANGED <<wake, count, waiting, phase>>
  BY DEF SemaAcquireReturn, At, Return, tcbVars
<1>2. PICK s \in Semas : s = call[t].sema
  BY <1>1, PartsOfCore DEF CallsRight, CallsInv
<1>3. ~InAcquire(t)' /\ \A u \in Threads \ {t} : call'[u] = call[u]
  BY <1>1, QueueFacts DEF App, InAcquire
<1>4. \A x \in Semas : \A u \in Threads \ {t} : SameHold(u, x)
  BY <1>1, <1>3 DEF SameHold, Holds, InAcquire
<1>5. ASSUME NEW x \in Semas, x # s \/ wake[t] # "OK", phase'[x] = "live" PROVE TokensOK(x)'
  <2>1. SameHold(t, x)
    BY <1>2, <1>3, <1>5 DEF SameHold, Holds
  <2>2. tokens[x] \in Int /\ count[x] \in Int
    BY PartsOfCore, KernelAssumption DEF CountsRight
  <2>3. tokens'[x] = tokens[x] + 0 /\ count'[x] = count[x] + 0
    BY <1>1, <1>2, <1>5, <2>2, PartsOfCore DEF CountsRight
  <2>4. phase[x] = "live" /\ (\A u \in Threads : SameHold(u, x)) /\ 0 \in Int
    BY <1>1, <1>4, <1>5, <2>1
  <2> QED BY <2>3, <2>4, TokenStays
<1>6. ASSUME wake[t] = "OK", phase'[s] = "live" PROVE TokensOK(s)'
  <2> DEFINE c == Cardinality(HoldersOf(s))
  <2>1. t \in HoldersOf(s) /\ t \notin HoldersOf(s)'
    <3>1. Absent(waiting[s], t)
      BY <1>1, CallerIsNowhere DEF Nowhere, WaitsNowhere
    <3> QED BY <1>1, <1>2, <1>3, <1>6, <3>1 DEF HoldersOf, Holds, InAcquire
  <2>2. HoldersOf(s)' = HoldersOf(s) \ {t}
    BY <1>4, <2>1 DEF HoldersOf, SameHold
  <2>3. tokens[s] = count[s] + c
    BY <1>1, <1>6 DEF TokensInv, TokensOK
  <2>4. tokens[s] \in Int /\ count[s] \in Int /\ c \in Int
    BY HoldersCount, PartsOfCore, KernelAssumption DEF CountsRight
  <2>5. Cardinality(HoldersOf(s)') = c - 1
    BY <2>1, <2>2, HoldersCount
  <2>6. tokens'[s] = tokens[s] - 1 /\ count'[s] = count[s]
    BY <1>1, <1>2, <1>6, PartsOfCore DEF CountsRight
  <2> HIDE DEF c
  <2>7. tokens'[s] = count'[s] + (c - 1)
    BY <2>3, <2>4, <2>6
  <2> QED BY <2>5, <2>7 DEF TokensOK
<1>7. ASSUME NEW x \in Semas, phase'[x] # "live" PROVE TokensOK(x)'
  BY <1>7 DEF TokensOK
<1> QED BY <1>5, <1>6, <1>7 DEF TokensInv

\* A new semaphore has its count and no holder: nobody is in a call on it.
LEMMA SemaCreateTokens ==
    ASSUME CoreInv, PlacesInv, TokensInv, NEW s \in Semas, NEW n \in 0 .. MaxCount,
           SemaCreate(s, n)
    PROVE  TokensInv'
<1>1. /\ \A t \in Threads : call[t].sema # s
      /\ phase' = [phase EXCEPT ![s] = "live"]
      /\ count' = [count EXCEPT ![s] = n] /\ tokens' = [tokens EXCEPT ![s] = n]
      /\ waiting' = [waiting EXCEPT ![s] = EmptyQueue]
      /\ UNCHANGED <<call, wake>>
  BY DEF SemaCreate, tcbVars
<1>2. TokensOK(s)'
  <2>1. HoldersOf(s)' = {}
    BY <1>1 DEF HoldersOf, Holds
  <2>2. Cardinality(HoldersOf(s)') = 0
    BY <2>1, FS_EmptySet
  <2>3. tokens'[s] = n /\ count'[s] = n /\ n \in Int
    BY <1>1, PartsOfCore, KernelAssumption DEF CountsRight
  <2> QED BY <2>2, <2>3 DEF TokensOK
<1>3. ASSUME NEW x \in Semas \ {s}, phase'[x] = "live" PROVE TokensOK(x)'
  <2>1. \A u \in Threads : SameHold(u, x)
    <3>1. waiting'[x] = waiting[x]
      BY <1>1, OneListOf
    <3> QED BY <1>1, <3>1, HoldStays DEF SameAcquire, InAcquire
  <2>2. tokens[x] \in Int /\ count[x] \in Int
    BY PartsOfCore, KernelAssumption DEF CountsRight
  <2>3. tokens'[x] = tokens[x] + 0 /\ count'[x] = count[x] + 0
    BY <1>1, <2>2, PartsOfCore DEF CountsRight
  <2>4. phase[x] = "live" /\ 0 \in Int
    BY <1>1, <1>3, PartsOfCore DEF CountsRight
  <2> QED BY <2>1, <2>3, <2>4, TokenStays
<1>4. ASSUME NEW x \in Semas, phase'[x] # "live" PROVE TokensOK(x)'
  BY <1>4 DEF TokensOK
<1> QED BY <1>2, <1>3, <1>4 DEF TokensInv

\* Who is woken by destroy holds nothing of another semaphore.
LEMMA SemaDestroyWakeTokens ==
    ASSUME CoreInv, PlacesInv, WaitsInv, TokensInv, NEW t \in Threads, SemaDestroyWake(t)
    PROVE  TokensInv'
<1>1. PICK s \in Semas : s = call[t].sema
  BY PartsOfCore DEF SemaDestroyWake, At, CallsRight, CallsInv
<1>2. PICK w \in Threads : w = Foremost(waiting[s])
  BY <1>1, QueueFacts, PopProperties DEF SemaDestroyWake
<1>3. /\ call[t].at = "destroying"
      /\ waiting' = [waiting EXCEPT ![s] = Pop(waiting[s])]
      /\ wake' = [wake EXCEPT ![w] = "DELETED"]
      /\ call' = [call EXCEPT ![t].woke = TRUE] \/ Goto(t, "freeing")
      /\ UNCHANGED <<count, phase, tokens>>
  BY <1>1, <1>2 DEF SemaDestroyWake, At
<1>4. \A u \in Threads : SameAcquire(u)
  <2>1. call'[t].at \in {"destroying", "freeing"} /\ \A u \in Threads \ {t} : call'[u] = call[u]
    BY <1>3, QueueFacts DEF Goto, Calls
  <2> QED BY <1>3, <2>1, CallerTokens DEF InAcquire
<1>5. phase[s] # "live"
  BY <1>1, <1>3 DEF WaitsInv, SemasInv
<1>6. InAcquire(w) /\ call[w].sema = s
  <2>1. ~Absent(waiting[s], w)
    BY <1>2, QueueFacts, PopProperties
  <2> QED BY <2>1, WaitsOf DEF WaitOK, InAcquire
<1>7. ASSUME NEW x \in Semas \ {s}, NEW u \in Threads PROVE SameHold(u, x)
  <2>1. CASE u = w
    BY <1>4, <1>6, <2>1 DEF SameHold, Holds, SameAcquire
  <2>2. CASE u # w
    <3>1. waiting'[x] = waiting[x]
      BY <1>3, OneListOf
    <3>2. wake'[u] = wake[u]
      BY <1>3, <2>2, PartsOfCore DEF ThreadsRight
    <3> QED BY <1>4, <3>1, <3>2, HoldStays
  <2> QED BY <2>1, <2>2
<1> QED BY <1>3, <1>5, <1>7, TokensStay

\* Who times out was waiting, and holds nothing before or after.
LEMMA CallbackTokens ==
    ASSUME CoreInv, PlacesInv, WaitsInv, TokensInv, Callback
    PROVE  TokensInv'
<1>1. PICK k \in DOMAIN timers : timers[k] = tick.timer
  BY DEF Callback, TickIsAt, PlacesInv, AlarmsInv
<1> DEFINE v == timers[k]
<1>2. v \in TimerRecord /\ RightTimer(v) /\ tick.at = "callback"
  BY <1>1, PartsOfCore DEF Callback, TickIsAt, TickRight
<1>3. PICK w \in Threads : w = v.tcb
  BY <1>2 DEF TimerRecord
<1>4. /\ UNCHANGED <<call, count, phase, tokens>>
      /\ IF v.kind = "sema"
         THEN /\ wake' = [wake EXCEPT ![w] = "TIMEOUT"]
              /\ waiting' = [waiting EXCEPT ![v.sema] = Take(waiting[v.sema], w)]
         ELSE UNCHANGED <<wake, waiting>>
  BY <1>1, <1>3 DEF Callback
<1>5. \A u \in Threads : SameAcquire(u)
  BY <1>4 DEF SameAcquire, InAcquire
<1>6. CASE v.kind # "sema"
  BY <1>4, <1>5, <1>6, QuietTokens
<1>7. CASE v.kind = "sema"
  <2>1. PICK s \in Semas : s = v.sema
    BY <1>2, <1>7 DEF RightTimer
  <2>2. ~Absent(waiting[s], w)
    BY <1>2, <1>3, <1>7, <2>1, AllPending, WaitsOf DEF WaitOK
  <2> HIDE DEF v
  <2>3. /\ waiting'[s] = Take(waiting[s], w)
        /\ \A x \in Semas \ {s} : waiting'[x] = waiting[x]
    BY <1>4, <1>7, <2>1, OneListOf
  <2>4. wake'[w] = "TIMEOUT" /\ \A u \in Threads \ {w} : wake'[u] = wake[u]
    BY <1>4, <1>7, PartsOfCore DEF ThreadsRight
  <2>5. ASSUME NEW x \in Semas, NEW u \in Threads PROVE SameHold(u, x)
    <3>1. CASE u = w
      <4>1. call[w].sema = s
        BY <2>2, WaitsOf DEF WaitOK
      <4> QED BY <2>2, <2>4, <3>1, <4>1 DEF SameHold, Holds
    <3>2. CASE u # w
      <4>1. Absent(waiting'[x], u) <=> Absent(waiting[x], u)
        <5>1. CASE x = s
          BY <2>3, <3>2, <5>1, QueueFacts, TakeProperties, TakeLeaves
        <5>2. CASE x # s
          BY <2>3, <5>2
        <5> QED BY <5>1, <5>2
      <4> QED BY <1>5, <2>4, <3>2, <4>1, HoldStays
    <3> QED BY <3>1, <3>2
  <2> QED BY <1>4, <2>5, TokensStay
<1> QED BY <1>6, <1>7

-----------------------------------------------------------------------------
(* Every step. *)

LEMMA ThreadStepTokens ==
    ASSUME FifosHoldAll, CoreInv, PlacesInv, WaitsInv, TokensInv,
           NEW t \in Threads, ThreadStep(t)
    PROVE  TokensInv'
<1>1. ASSUME ~InAcquire(t), ~InAcquire(t)', \A u \in Threads \ {t} : call'[u] = call[u],
             UNCHANGED <<tokens, count, wake, waiting>>,
             \A s \in Semas : phase'[s] = "live" => phase[s] = "live"
      PROVE  TokensInv'
  BY <1>1, CallerTokens, QuietTokens
<1>2. ASSUME NEW new \in Threads, ThreadCreate(t, new) PROVE TokensInv'
  <2>1. /\ call[t].at = "app" /\ Goto(t, "resched")
        /\ UNCHANGED <<tokens, count, wake, waiting, phase>>
    BY <1>2 DEF ThreadCreate, Calling, At, Enqueue, semaVars
  <2>2. call'[t].at = "resched" /\ \A u \in Threads \ {t} : call'[u] = call[u]
    BY <2>1, QueueFacts DEF Goto, Calls
  <2> QED BY <1>1, <2>1, <2>2 DEF InAcquire
<1>3. ASSUME NEW n \in 1 .. MaxTicks, DelayTick(t, n) PROVE TokensInv'
  <2>1. /\ call[t].at = "app" /\ Goto(t, "resched")
        /\ UNCHANGED <<tokens, count, wake, waiting, phase>>
    BY <1>3 DEF DelayTick, Calling, At, semaVars
  <2>2. call'[t].at = "resched" /\ \A u \in Threads \ {t} : call'[u] = call[u]
    BY <2>1, QueueFacts DEF Goto, Calls
  <2> QED BY <1>1, <2>1, <2>2 DEF InAcquire
<1>4. CASE DelayTickNoTimer(t)
  BY <1>4, QuietTokens DEF DelayTickNoTimer, semaVars, SameAcquire, InAcquire
<1>5. ASSUME NEW s \in Semas, SemaAcquire(t, s) PROVE TokensInv'
  BY <1>5, TakeCountTokens DEF SemaAcquire, tcbVars
<1>6. ASSUME NEW s \in Semas, NEW n \in (1 .. MaxTicks) \cup {Forever}, SemaAcquireWait(t, s, n)
      PROVE  TokensInv'
  BY <1>6, SemaAcquireWaitTokens
<1>7. ASSUME NEW s \in Semas, SemaAcquireNoTimer(t, s) PROVE TokensInv'
  BY <1>7, SemaAcquireNoTimerTokens
<1>8. CASE SemaAcquireReturn(t)
  BY <1>8, SemaAcquireReturnTokens
<1>9. ASSUME NEW s \in Semas, SemaGive(t, s) PROVE TokensInv'
  <2>1. call[t].at = "app" /\ (UNCHANGED call \/ Goto(t, "resched"))
    BY <1>9 DEF SemaGive, Calling, At
  <2>2. call'[t].at \in {"app", "resched"} /\ \A u \in Threads \ {t} : call'[u] = call[u]
    BY <2>1, QueueFacts DEF Goto, Calls
  <2>3. \A u \in Threads : SameAcquire(u)
    BY <2>1, <2>2, CallerTokens DEF InAcquire
  <2> QED BY <1>9, <2>3, HandOverTokens, IncrementTokens DEF SemaGive
<1>10. ASSUME NEW s \in Semas, SemaDestroy(t, s) PROVE TokensInv'
  <2>1. /\ call[t].at = "app" /\ phase' = [phase EXCEPT ![s] = "dying"]
        /\ call' = [call EXCEPT ![t].at = "destroying", ![t].sema = s]
        /\ UNCHANGED <<tokens, count, wake, waiting>>
    BY <1>10 DEF SemaDestroy, Calling, At, tcbVars
  <2>2. call'[t].at = "destroying" /\ \A u \in Threads \ {t} : call'[u] = call[u]
    BY <2>1, QueueFacts DEF Calls
  <2>3. \A x \in Semas : phase'[x] = "live" => phase[x] = "live"
    BY <2>1, PartsOfCore DEF CountsRight
  <2> QED BY <1>1, <2>1, <2>2, <2>3 DEF InAcquire
<1>11. CASE SemaDestroyWake(t)
  BY <1>11, SemaDestroyWakeTokens
<1>12. CASE SemaDestroyNoMore(t)
  <2>1. /\ call[t].at = "destroying" /\ Goto(t, "freeing")
        /\ UNCHANGED <<tokens, count, wake, waiting, phase>>
    BY <1>12 DEF SemaDestroyNoMore, At, tcbVars, semaVars
  <2>2. call'[t].at = "freeing" /\ \A u \in Threads \ {t} : call'[u] = call[u]
    BY <2>1, QueueFacts DEF Goto, Calls
  <2> QED BY <1>1, <2>1, <2>2 DEF InAcquire
<1>13. CASE SemaDestroyFree(t)
  <2>1. /\ call[t].at = "freeing" /\ phase' = [phase EXCEPT ![call[t].sema] = "freed"]
        /\ Goto(t, "resched") \/ Return(t)
        /\ UNCHANGED <<tokens, count, wake, waiting>>
    BY <1>13 DEF SemaDestroyFree, At, tcbVars
  <2>2. call'[t].at \in {"resched", "app"} /\ \A u \in Threads \ {t} : call'[u] = call[u]
    BY <2>1, QueueFacts DEF Goto, Return, App, Calls
  <2>3. \A x \in Semas : phase'[x] = "live" => phase[x] = "live"
    BY <2>1, PartsOfCore DEF CountsRight
  <2> QED BY <1>1, <2>1, <2>2, <2>3 DEF InAcquire
<1>14. CASE Reschedule(t)
  <2>1. /\ call[t].at \in {"resched", "suspended"}
        /\ IF call[t].at = "suspended" THEN Goto(t, "woken") ELSE Return(t)
        /\ UNCHANGED <<tokens, count, wake, waiting, phase>>
    BY <1>14 DEF Reschedule, semaVars
  <2>2. /\ \A u \in Threads \ {t} : call'[u] = call[u]
        /\ call[t].at = "suspended" => call'[t].at = "woken" /\ call'[t].sema = call[t].sema
        /\ call[t].at = "resched" => call'[t].at = "app"
    BY <2>1, QueueFacts DEF Goto, Return, App, Calls
  <2>3. \A u \in Threads : SameAcquire(u)
    BY <2>1, <2>2 DEF SameAcquire, InAcquire
  <2> QED BY <2>1, <2>3, QuietTokens
<1> QED BY <1>2, <1>3, <1>4, <1>5, <1>6, <1>7, <1>8, <1>9, <1>10, <1>11, <1>12, <1>13, <1>14
        DEF ThreadStep

LEMMA StepTokens ==
    ASSUME FifosHoldAll, CoreInv, PlacesInv, WaitsInv, TokensInv, [Next]_vars
    PROVE  TokensInv'
<1>1. ASSUME UNCHANGED <<call, tokens, count, wake, waiting, phase>> PROVE TokensInv'
  BY <1>1, QuietTokens DEF SameAcquire, InAcquire
<1>2. CASE Boot
  BY <1>1, <1>2 DEF Boot, CreateBeforeStart, KernelStart, Enqueue, tcbVars, semaVars
<1>3. CASE \E t \in Threads : ThreadStep(t)
  BY <1>3, ThreadStepTokens
<1>4. CASE \E s \in Semas, n \in 0 .. MaxCount : SemaCreate(s, n)
  BY <1>4, SemaCreateTokens
<1>5. CASE Tick
  BY <1>1, <1>5, CallbackTokens DEF Tick, TickCount, PollTimer, DeleteTimer, TickExit,
                                    tcbVars, semaVars
<1>6. CASE Irq
  <2>1. ASSUME NEW s \in Semas, IrqGive(s) PROVE TokensInv'
    <3>1. \A u \in Threads : SameAcquire(u)
      BY <2>1 DEF IrqGive, SameAcquire, InAcquire
    <3> QED BY <2>1, <3>1, HandOverTokens, IncrementTokens DEF IrqGive
  <2>2. ASSUME NEW s \in Semas, IrqAcquire(s) PROVE TokensInv'
    BY <2>2, TakeCountTokens DEF IrqAcquire, tcbVars
  <2>3. CASE IrqExit
    BY <1>1, <2>3 DEF IrqExit, tcbVars, semaVars
  <2> QED BY <1>6, <2>1, <2>2, <2>3 DEF Irq
<1>7. CASE UNCHANGED vars
  BY <1>1, <1>7 DEF vars, tcbVars, semaVars
<1> QED BY <1>2, <1>3, <1>4, <1>5, <1>6, <1>7 DEF Next

\* What was put into a live semaphore and not yet taken is its count and the
\* tokens handed over, whoever gives, times out or is interrupted in between.
\* TokensConserved of the runs.
THEOREM TokensAreKept ==
    ASSUME IdleAlone, ~Nested, FifosHoldAll
    PROVE  Spec => []TokensConserved
<1>1. Init => TokensInv
  BY DEF Init, TokensInv, TokensOK
<1>2. CoreInv /\ PlacesInv /\ WaitsInv /\ TokensInv /\ [Next]_vars => TokensInv'
  BY StepTokens
<1>3. ASSUME CoreInv, PlacesInv, TokensInv PROVE TokensConserved
  <2>1. ASSUME NEW s \in Semas PROVE HoldersOf(s) = Holders(s)
    <3>1. \A t \in Threads : Waits(t, s) <=> ~Absent(waiting[s], t)
      BY <1>3, WaitsIsThere
    <3> QED BY <3>1 DEF HoldersOf, Holds, Holders, InAcquire
  <2> QED BY <1>3, <2>1 DEF TokensConserved, TokensInv, TokensOK
<1> QED BY WaitsInvariant, <1>1, <1>2, <1>3, PTL DEF Spec
=============================================================================
