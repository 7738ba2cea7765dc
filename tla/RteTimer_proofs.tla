-------------------------- MODULE RteTimer_proofs ---------------------------
(***************************************************************************)
(* For any blocks, users, capacities and configurations, where no callback *)
(* deletes the timer that calls it: every property of RteTimer.            *)
(*                                                                         *)
(* The table is right (TableOK) because each call that changes it keeps    *)
(* places and indices inverse to each other; what the poll may rely on     *)
(* (PollOK) is that callbacks move timers only towards the front.          *)
(***************************************************************************)
EXTENDS RteTimer, FiniteSetTheorems, TLAPS

\* Places and indices are inverse to each other: IndexIsPlace, from both sides.
TableOK ==
    /\ capacity \in Capacities
    /\ length \in 0 .. capacity
    /\ slot \in [0 .. capacity - 1 -> Blocks \cup {NULL}]
    /\ timer \in [Blocks -> TimerRecord \cup {NULL}]
    /\ \A b \in Live : timer[b].cnt <= timer[b].arr
    /\ \A i \in 0 .. length - 1 : slot[i] \in Live /\ timer[slot[i]].index = i
    /\ \A b \in Live : timer[b].index \in 0 .. length - 1 /\ slot[timer[b].index] = b

-----------------------------------------------------------------------------
(* The calls on the table. *)

LEMMA CapacityIsPositive == ASSUME TableOK PROVE capacity \in Nat /\ capacity > 0
  BY TimerAssumption DEF TableOK

LEMMA AtIsSlot ==
    ASSUME TableOK
    PROVE  /\ \A i \in 0 .. length - 1 : At(i) = slot[i]
           /\ \A i \in Nat : At(i) \in Blocks \cup {NULL}
<1>1. capacity \in Nat /\ capacity > 0 /\ length \in 0 .. capacity
  BY CapacityIsPositive DEF TableOK
<1>2. \A i \in 0 .. capacity - 1 : i % capacity = i
  BY <1>1
<1>3. \A i \in Nat : i % capacity \in 0 .. capacity - 1
  BY <1>1
<1> QED BY <1>1, <1>2, <1>3 DEF At, TableOK

LEMMA LiveTimers ==
    ASSUME TableOK, NEW b \in Live
    PROVE  b \in Blocks /\ timer[b] \in TimerRecord
  BY DEF TableOK, Live

\* timer_create_new moves no timer and puts its own behind them all.
LEMMA CreateTable ==
    ASSUME TableOK, UNCHANGED capacity, NEW config \in Configs, Create(config)
    PROVE  /\ TableOK'
           /\ \A b \in Live : b \in Live' /\ timer'[b] = timer[b]
           /\ \A b \in Live' : b \in Live \/ timer'[b].index = length
           /\ length' \in Nat /\ length <= length'
           /\ \A i \in 0 .. length - 1 : slot'[i] = slot[i]
<1>1. CASE UNCHANGED tableVars
  BY <1>1 DEF TableOK, tableVars, Live
<1>2. ASSUME length < capacity, NEW b \in Blocks \ Live,
             timer' = [timer EXCEPT ![b] = NewTimer(config)],
             slot' = [slot EXCEPT ![length] = b], length' = length + 1
      PROVE  /\ TableOK'
             /\ \A c \in Live : c \in Live' /\ timer'[c] = timer[c]
             /\ \A c \in Live' : c \in Live \/ timer'[c].index = length
             /\ length' \in Nat /\ length <= length'
             /\ \A i \in 0 .. length - 1 : slot'[i] = slot[i]
  <2>1. /\ length \in Nat /\ capacity \in Nat
        /\ length \in 0 .. capacity - 1
    BY <1>2, CapacityIsPositive DEF TableOK
  <2>2. /\ NewTimer(config) \in TimerRecord /\ NewTimer(config) # NULL
        /\ NewTimer(config).index = length
        /\ NewTimer(config).cnt <= NewTimer(config).arr
    BY <2>1, TimerAssumption DEF NewTimer, TimerRecord
  <2>3. /\ timer'[b] = NewTimer(config)
        /\ \A c \in Blocks \ {b} : timer'[c] = timer[c]
        /\ timer' \in [Blocks -> TimerRecord \cup {NULL}]
    BY <1>2, <2>2 DEF TableOK
  <2>4. /\ slot'[length] = b
        /\ \A i \in 0 .. length - 1 : slot'[i] = slot[i]
        /\ slot' \in [0 .. capacity - 1 -> Blocks \cup {NULL}]
    BY <1>2, <2>1 DEF TableOK
  <2>5. /\ \A c \in Live : c # b /\ c \in Live' /\ timer'[c] = timer[c]
        /\ b \in Live'
        /\ \A c \in Live' : c = b \/ c \in Live
    BY <1>2, <2>2, <2>3 DEF Live
  <2>6. \A i \in 0 .. length' - 1 : i = length \/ i \in 0 .. length - 1
    BY <1>2, <2>1
  <2>7. \A i \in 0 .. length' - 1 : slot'[i] \in Live' /\ timer'[slot'[i]].index = i
    BY <2>2, <2>3, <2>4, <2>5, <2>6 DEF TableOK
  <2>8. \A c \in Live' : timer'[c].index \in 0 .. length' - 1 /\ slot'[timer'[c].index] = c
    <3>1. length \in 0 .. length' - 1 /\ \A i \in 0 .. length - 1 : i \in 0 .. length' - 1
      BY <1>2, <2>1
    <3> QED BY <2>2, <2>3, <2>4, <2>5, <3>1 DEF TableOK
  <2>9. \A c \in Live' : timer'[c].cnt <= timer'[c].arr
    BY <2>2, <2>3, <2>5 DEF TableOK
  <2>10. length' \in 0 .. capacity /\ length' \in Nat /\ length <= length'
    BY <1>2, <2>1
  <2> QED BY <2>2, <2>3, <2>4, <2>5, <2>7, <2>8, <2>9, <2>10 DEF TableOK
<1> QED BY <1>1, <1>2 DEF Create

\* timer_delete: the timer at the place goes, those behind it move up by one.
MovesUp(b, i) ==
    /\ b \in Live'
    /\ timer'[b] = [timer[b] EXCEPT !.index = timer'[b].index]
    /\ timer'[b].index = IF timer[b].index > i THEN timer[b].index - 1 ELSE timer[b].index

LEMMA DeleteTable ==
    ASSUME TableOK, UNCHANGED capacity, NEW i \in Nat, Delete(i)
    PROVE  /\ TableOK'
           /\ i < length \/ UNCHANGED tableVars
           /\ i < length => /\ length' = length - 1
                            /\ slot[i] \in Live \ Live'
                            /\ \A b \in Live \ {slot[i]} : MovesUp(b, i)
                            /\ \A b \in Live' : b \in Live \ {slot[i]}
                            /\ \A j \in 0 .. i - 1 : slot'[j] = slot[j]
<1>1. CASE i >= length
  <2>1. UNCHANGED tableVars /\ ~(i < length)
    BY <1>1, CapacityIsPositive DEF Delete, TableOK
  <2> QED BY <2>1 DEF TableOK, tableVars, Live
<1>2. CASE i < length
  <2>1. length \in Nat /\ capacity \in Nat /\ length <= capacity /\ i \in 0 .. length - 1
    BY <1>2, CapacityIsPositive DEF TableOK
  <2>2. /\ slot' = [j \in 0 .. capacity - 1 |->
                      IF j \in i .. length - 2 THEN slot[j + 1] ELSE slot[j]]
        /\ length' = length - 1
        /\ timer' = [b \in Blocks |-> IF b = slot[i] \/ timer[b] = NULL THEN NULL
                                      ELSE Renumbered(b, i)]
    BY <1>2 DEF Delete, TableOK
  <2>3. ASSUME NEW b \in Live, b # slot[i]
        PROVE  Renumbered(b, i) =
                 [timer[b] EXCEPT !.index = IF timer[b].index > i THEN timer[b].index - 1
                                            ELSE timer[b].index]
    <3>1. timer[b] \in TimerRecord /\ timer[b].index \in 0 .. length - 1 /\ slot[timer[b].index] = b
      BY <2>3, LiveTimers DEF TableOK
    <3>2. (\E j \in i + 1 .. length - 1 : slot[j] = b) <=> timer[b].index > i
      <4>1. ASSUME NEW j \in i + 1 .. length - 1, slot[j] = b PROVE timer[b].index > i
        <5>1. j \in 0 .. length - 1 /\ j > i
          BY <2>1
        <5> QED BY <4>1, <5>1 DEF TableOK
      <4>2. ASSUME timer[b].index > i PROVE \E j \in i + 1 .. length - 1 : slot[j] = b
        <5>1. timer[b].index \in i + 1 .. length - 1
          BY <2>1, <3>1, <4>2
        <5> QED BY <3>1, <5>1
      <4> QED BY <4>1, <4>2
    <3>3. [timer[b] EXCEPT !.index = timer[b].index] = timer[b]
      BY <3>1 DEF TimerRecord
    <3> QED BY <3>2, <3>3 DEF Renumbered
  <2>4. ASSUME NEW b \in Live, b # slot[i]
        PROVE  MovesUp(b, i) /\ timer'[b] \in TimerRecord
    <3>1. timer[b] \in TimerRecord /\ b \in Blocks /\ timer[b] # NULL
          /\ timer[b].index \in 0 .. length - 1
      BY <2>4, LiveTimers DEF TableOK, Live
    <3> DEFINE n == IF timer[b].index > i THEN timer[b].index - 1 ELSE timer[b].index
    <3>2. timer'[b] = [timer[b] EXCEPT !.index = n]
      BY <2>2, <2>3, <2>4, <3>1
    <3>3. n \in Nat
      BY <2>1, <3>1
    <3> HIDE DEF n
    <3>4. timer'[b] \in TimerRecord /\ timer'[b].index = n
      BY <3>1, <3>2, <3>3 DEF TimerRecord
    <3>5. b \in Live'
      BY <3>1, <3>4, TimerAssumption DEF Live
    <3> QED BY <3>2, <3>4, <3>5 DEF MovesUp, n
  <2>5. /\ slot[i] \in Live
        /\ \A b \in Live' : b \in Live \ {slot[i]}
    BY <2>1, <2>2 DEF TableOK, Live
  <2>6. timer' \in [Blocks -> TimerRecord \cup {NULL}]
    <3>1. ASSUME NEW b \in Blocks PROVE timer'[b] \in TimerRecord \cup {NULL}
      <4>1. CASE b \in Live \ {slot[i]}
        BY <2>4, <4>1
      <4>2. CASE b \notin Live \ {slot[i]}
        BY <2>2, <4>2 DEF Live
      <4> QED BY <4>1, <4>2
    <3> QED BY <2>2, <3>1
  <2>7. slot' \in [0 .. capacity - 1 -> Blocks \cup {NULL}]
    <3>1. ASSUME NEW j \in 0 .. capacity - 1 PROVE slot'[j] \in Blocks \cup {NULL}
      <4>1. j \in i .. length - 2 => j + 1 \in 0 .. capacity - 1
        BY <2>1
      <4> QED BY <2>2, <4>1 DEF TableOK
    <3> QED BY <2>2, <3>1
  <2>8. ASSUME NEW j \in 0 .. length' - 1
        PROVE  /\ slot'[j] = IF j < i THEN slot[j] ELSE slot[j + 1]
               /\ slot'[j] \in Live' /\ timer'[slot'[j]].index = j
    <3> DEFINE k == IF j < i THEN j ELSE j + 1
    <3>1. /\ k \in 0 .. length - 1 /\ k # i
          /\ j = (IF k > i THEN k - 1 ELSE k)
          /\ j \in 0 .. capacity - 1 /\ (j \in i .. length - 2 <=> ~(j < i))
      BY <2>1, <2>2
    <3>2. slot'[j] = slot[k]
      BY <2>2, <3>1
    <3> HIDE DEF k
    <3>3. slot[k] \in Live /\ timer[slot[k]].index = k /\ timer[slot[i]].index = i
      BY <2>1, <3>1 DEF TableOK
    <3>4. slot[k] # slot[i]
      BY <3>1, <3>3
    <3>5. MovesUp(slot[k], i)
      BY <2>4, <3>3, <3>4
    <3>6. slot'[j] \in Live' /\ timer'[slot'[j]].index = j
      BY <3>1, <3>2, <3>3, <3>5 DEF MovesUp
    <3> QED BY <3>2, <3>6 DEF k
  <2>9. ASSUME NEW b \in Live'
        PROVE  /\ timer'[b].index \in 0 .. length' - 1 /\ slot'[timer'[b].index] = b
               /\ timer'[b].cnt <= timer'[b].arr
    <3>1. b \in Live \ {slot[i]} /\ MovesUp(b, i) /\ timer[b] \in TimerRecord
      BY <2>4, <2>5, LiveTimers
    <3>2. /\ timer[b].index \in 0 .. length - 1 /\ slot[timer[b].index] = b
          /\ timer[b].cnt <= timer[b].arr /\ timer[b].index # i
      BY <3>1 DEF TableOK
    <3> DEFINE n == timer'[b].index
    <3>3. /\ n \in 0 .. length' - 1
          /\ timer[b].index = IF n < i THEN n ELSE n + 1
      BY <2>1, <2>2, <3>1, <3>2 DEF MovesUp
    <3>4. slot'[n] = b
      BY <2>8, <3>2, <3>3
    <3>5. timer'[b].cnt = timer[b].cnt /\ timer'[b].arr = timer[b].arr
      BY <3>1 DEF MovesUp, TimerRecord
    <3> QED BY <3>2, <3>3, <3>4, <3>5
  <2>10. \A j \in 0 .. i - 1 : slot'[j] = slot[j]
    <3>1. \A j \in 0 .. i - 1 : j \in 0 .. length' - 1 /\ j < i
      BY <2>1, <2>2
    <3> QED BY <2>8, <3>1
  <2>11. length' \in 0 .. capacity
    BY <2>1, <2>2
  <2> QED BY <1>2, <2>2, <2>4, <2>5, <2>6, <2>7, <2>8, <2>9, <2>10, <2>11 DEF TableOK
<1>3. length \in Nat
  BY CapacityIsPositive DEF TableOK
<1> QED BY <1>1, <1>2, <1>3

\* timer_pause and timer_resume touch `running' of one timer at most.
LEMMA SetRunningTable ==
    ASSUME TableOK, UNCHANGED capacity, NEW i \in Nat, NEW r \in BOOLEAN, SetRunning(i, r)
    PROVE  /\ TableOK' /\ Live' = Live /\ UNCHANGED <<slot, length>>
           /\ \A b \in Live : timer'[b] = timer[b]
                           \/ (b = At(i) /\ timer'[b] = [timer[b] EXCEPT !.running = r])
<1>1. CASE At(i) \notin Live
  <2>1. UNCHANGED <<slot, length, timer>>
    BY <1>1 DEF SetRunning
  <2>2. Live' = Live
    BY <2>1 DEF Live
  <2>3. TableOK'
    BY <2>1, <2>2 DEF TableOK
  <2> QED BY <2>1, <2>2, <2>3
<1>2. CASE At(i) \in Live
  <2> DEFINE b == At(i)
  <2>1. b \in Blocks /\ timer[b] \in TimerRecord
    BY <1>2, LiveTimers
  <2>2. timer' = [timer EXCEPT ![b].running = r] /\ UNCHANGED <<slot, length>>
    BY <1>2 DEF SetRunning
  <2> HIDE DEF b
  <2>3. /\ timer'[b] = [timer[b] EXCEPT !.running = r]
        /\ \A c \in Blocks \ {b} : timer'[c] = timer[c]
        /\ DOMAIN timer' = Blocks
    BY <2>1, <2>2 DEF TableOK
  <2>4. /\ timer'[b] \in TimerRecord
        /\ timer'[b].index = timer[b].index /\ timer'[b].cnt = timer[b].cnt
        /\ timer'[b].arr = timer[b].arr
    BY <2>1, <2>3 DEF TimerRecord
  <2>5. timer' \in [Blocks -> TimerRecord \cup {NULL}]
    BY <2>2, <2>3, <2>4 DEF TableOK
  <2>6. Live' = Live
    BY <1>2, <2>1, <2>3, <2>4, TimerAssumption DEF Live, b
  <2>7. \A c \in Live : /\ timer'[c].index = timer[c].index /\ timer'[c].cnt = timer[c].cnt
                        /\ timer'[c].arr = timer[c].arr
    BY <2>3, <2>4 DEF Live
  <2>8. TableOK'
    BY <2>2, <2>5, <2>6, <2>7 DEF TableOK
  <2>9. \A c \in Live : timer'[c] = timer[c]
                       \/ (c = b /\ timer'[c] = [timer[c] EXCEPT !.running = r])
    BY <2>3 DEF Live
  <2> QED BY <2>2, <2>6, <2>8, <2>9 DEF b
<1> QED BY <1>1, <1>2

-----------------------------------------------------------------------------
(* The invariant of the poll. *)

\* The poll is beyond the timer's place, or has just called it there.
Passed(b) ==
    timer[b].index < poll.i \/ (poll.at = "called" /\ timer[b].index = poll.i)

PollOK ==
    /\ poll \in [at : {"idle", "counted", "check", "called"}, i : 0 .. capacity,
                 timer : Blocks \cup {NULL}]
    /\ called \subseteq Live /\ movedUp \in Nat
    /\ Unlocked => called = {} /\ poll.i = 0
    /\ poll.at = "called" => poll.timer \in called /\ poll.i < capacity
    /\ \A b \in called : Passed(b)

\* A paused timer that has been called waits for its reload, or is at a count
\* that no longer goes down.
LateOK ==
    \A b \in late :
        /\ b \in Live /\ ~timer[b].running
        /\ \/ timer[b].arr = 0 \/ timer[b].cnt > 0
           \/ poll.at = "called" /\ poll.timer = b

\* An index is at its timer, or known to be stale.
HeldOK ==
    /\ held \in [Users -> IndexRead \cup {NULL}]
    /\ \A u \in Users : held[u] # NULL =>
        /\ held[u].index < capacity
        /\ held[u].stale \/ (held[u].index < length /\ slot[held[u].index] = held[u].timer)

\* Expired timers that this poll will not call any more.
Skipped == {b \in Live : Passed(b) /\ timer[b].cnt = 0 /\ b \notin called}

SkippedOK == Cardinality(Skipped) <= movedUp

TimerInv == TableOK /\ PollOK /\ LateOK /\ HeldOK /\ SkippedOK

\* A timer that is still there after a step, at its place or nearer the front.
Steady(b) ==
    /\ timer'[b].index <= timer[b].index
    /\ timer'[b].cnt = timer[b].cnt /\ timer'[b].arr = timer[b].arr
    /\ timer'[b].running => timer[b].running

\* As many live timers as places: each to its own.
LEMMA LiveCount ==
    ASSUME TableOK
    PROVE  IsFiniteSet(Live) /\ Cardinality(Live) = length
<1> DEFINE P == 0 .. length - 1
           f == [i \in P |-> slot[i]]
<1>1. length \in Nat
  BY CapacityIsPositive DEF TableOK
<1>2. IsFiniteSet(P) /\ Cardinality(P) = length
  <2>1. 0 \in Int /\ length - 1 \in Int /\ (IF 0 > length - 1 THEN 0 ELSE length - 1 - 0 + 1) = length
    BY <1>1
  <2> QED BY <2>1, FS_Interval
<1>3. \A i \in P : slot[i] \in Live /\ timer[slot[i]].index = i
  BY DEF TableOK
<1>4. \A b \in Live : timer[b].index \in P /\ slot[timer[b].index] = b
  BY DEF TableOK
<1> HIDE DEF P
<1>5. f \in Bijection(P, Live)
  BY <1>3, <1>4 DEF Bijection, Injection, Surjection, IsInjective
<1>6. ExistsBijection(P, Live)
  BY <1>5 DEF ExistsBijection
<1> QED BY <1>2, <1>6, FS_Bijection

LEMMA SkippedCount ==
    ASSUME TableOK
    PROVE  IsFiniteSet(Skipped) /\ Cardinality(Skipped) \in Nat
<1>1. Skipped \in SUBSET Live
  BY DEF Skipped
<1> QED BY <1>1, LiveCount, FS_Subset, FS_CardinalityType

\* What is skipped grows by the one timer that moves past the index.
LEMMA SkippedGrows ==
    ASSUME TableOK, SkippedOK, movedUp \in Nat,
           \/ Skipped' \subseteq Skipped /\ movedUp' = movedUp
           \/ (\E b : Skipped' \subseteq Skipped \cup {b}) /\ movedUp' = movedUp + 1
    PROVE  SkippedOK'
<1> DEFINE S == Skipped
           n == Cardinality(S)
<1>1. IsFiniteSet(S) /\ n \in Nat /\ n <= movedUp
  BY SkippedCount DEF SkippedOK
<1>2. CASE Skipped' \subseteq Skipped /\ movedUp' = movedUp
  <2>1. Cardinality(Skipped') <= n /\ Cardinality(Skipped') \in Nat
    BY <1>1, <1>2, FS_Subset, FS_CardinalityType
  <2> HIDE DEF n
  <2> QED BY <1>1, <1>2, <2>1 DEF SkippedOK
<1>3. ASSUME NEW b, Skipped' \subseteq Skipped \cup {b}, movedUp' = movedUp + 1
      PROVE  SkippedOK'
  <2>1. IsFiniteSet(S \cup {b}) /\ Cardinality(S \cup {b}) = IF b \in S THEN n ELSE n + 1
    BY <1>1, FS_AddElement
  <2>2. /\ Cardinality(Skipped') <= Cardinality(S \cup {b})
        /\ Cardinality(Skipped') \in Nat
    BY <1>3, <2>1, FS_Subset, FS_CardinalityType
  <2> HIDE DEF n
  <2> QED BY <1>1, <1>3, <2>1, <2>2 DEF SkippedOK
<1> QED BY <1>2, <1>3

\* Before the poll nothing is passed, so nothing is skipped.
LEMMA NothingSkipped ==
    ASSUME TableOK', PollOK', poll'.i = 0, poll'.at # "called"
    PROVE  SkippedOK'
<1>1. Skipped' = {}
  <2>1. ASSUME NEW b \in Live', Passed(b)' PROVE FALSE
    <3>1. timer'[b].index \in 0 .. length' - 1
      BY <2>1 DEF TableOK
    <3> QED BY <2>1, <3>1 DEF Passed
  <2> QED BY <2>1 DEF Skipped
<1> QED BY <1>1, FS_EmptySet DEF SkippedOK, PollOK

\* Deletion makes stale the indices of the timers that go or move.
LEMMA HeldMoved ==
    ASSUME TableOK, TableOK', HeldOK, UNCHANGED capacity, NEW i \in Nat, Delete(i),
           NEW h, h = Moved(i)
    PROVE  /\ h \in [Users -> IndexRead \cup {NULL}]
           /\ \A u \in Users : h[u] # NULL =>
                /\ h[u].index < capacity
                /\ h[u].stale \/ (h[u].index < length' /\ slot'[h[u].index] = h[u].timer)
<1>1. ASSUME NEW u \in Users
      PROVE  /\ h[u] \in IndexRead \cup {NULL}
             /\ h[u] # NULL =>
                  /\ h[u].index < capacity
                  /\ h[u].stale \/ (h[u].index < length' /\ slot'[h[u].index] = h[u].timer)
  <2>1. h[u] = IF held[u] # NULL /\ i < length /\ i <= held[u].index
               THEN [held[u] EXCEPT !.stale = TRUE] ELSE held[u]
    BY DEF Moved
  <2>2. CASE held[u] = NULL
    BY <2>1, <2>2
  <2>3. CASE held[u] # NULL
    <3>1. /\ held[u] \in IndexRead /\ held[u].index \in Nat /\ held[u].index < capacity
          /\ held[u].stale \/ (held[u].index < length /\ slot[held[u].index] = held[u].timer)
      BY <2>3 DEF HeldOK, IndexRead
    <3>2. CASE i < length /\ i <= held[u].index
      <4>1. h[u] = [held[u] EXCEPT !.stale = TRUE]
        BY <2>1, <2>3, <3>2
      <4>2. h[u] \in IndexRead /\ h[u].index = held[u].index /\ h[u].stale
        BY <3>1, <4>1 DEF IndexRead
      <4> QED BY <3>1, <4>2
    <3>3. CASE i >= length
      <4>1. UNCHANGED tableVars /\ h[u] = held[u]
        BY <2>1, <3>3, DeleteTable, CapacityIsPositive DEF TableOK
      <4> QED BY <3>1, <4>1 DEF tableVars
    <3>4. CASE i < length /\ held[u].index < i
      <4>1. h[u] = held[u]
        BY <2>1, <3>1, <3>4
      <4>2. /\ length' = length - 1 /\ held[u].index \in 0 .. i - 1
            /\ \A j \in 0 .. i - 1 : slot'[j] = slot[j]
        BY <3>1, <3>4, DeleteTable
      <4>3. held[u].index < length'
        BY <3>1, <3>4, <4>2, CapacityIsPositive DEF TableOK
      <4> QED BY <3>1, <4>1, <4>2, <4>3
    <3>5. length \in Nat
      BY CapacityIsPositive DEF TableOK
    <3> QED BY <3>1, <3>2, <3>3, <3>4, <3>5
  <2> QED BY <2>2, <2>3
<1>2. DOMAIN h = Users /\ h = [u \in Users |-> h[u]]
  BY DEF Moved
<1> QED BY <1>1, <1>2

\* Where the table keeps what it has, so do the indices.
LEMMA HeldStays ==
    ASSUME TableOK, HeldOK, UNCHANGED capacity, UNCHANGED held, length' \in Nat, length <= length',
           \A i \in 0 .. length - 1 : slot'[i] = slot[i]
    PROVE  HeldOK'
<1>1. length \in Nat
  BY CapacityIsPositive DEF TableOK
<1>2. ASSUME NEW u \in Users, held[u] # NULL, ~held[u].stale
      PROVE  held[u].index < length' /\ slot'[held[u].index] = held[u].timer
  <2>1. held[u].index \in Nat /\ held[u].index < length /\ slot[held[u].index] = held[u].timer
    BY <1>2 DEF HeldOK, IndexRead
  <2>2. held[u].index \in 0 .. length - 1
    BY <1>1, <2>1
  <2> QED BY <1>1, <2>1, <2>2
<1> QED BY <1>2 DEF HeldOK

\* Paused timers that a step leaves alone.
LEMMA LateStays ==
    ASSUME LateOK, poll.at # "called",
           \A b \in late' : b \in late /\ b \in Live' /\ Steady(b)
    PROVE  LateOK'
  BY DEF LateOK, Steady

\* Deletion moves timers to the front, and no one's count or state.
LEMMA DeleteSteady ==
    ASSUME TableOK, UNCHANGED capacity, NEW i \in Nat, Delete(i), NEW b \in Live' \cap Live
    PROVE  Steady(b)
<1>1. CASE i >= length
  <2>1. timer' = timer
    BY <1>1, DeleteTable, CapacityIsPositive DEF TableOK, tableVars
  <2>2. timer[b].index \in Nat
    BY LiveTimers DEF TimerRecord
  <2> QED BY <2>1, <2>2 DEF Steady
<1>2. CASE i < length
  <2>1. MovesUp(b, i) /\ timer[b] \in TimerRecord
    BY <1>2, DeleteTable, LiveTimers
  <2> QED BY <2>1 DEF MovesUp, Steady, TimerRecord
<1>3. length \in Nat
  BY CapacityIsPositive DEF TableOK
<1> QED BY <1>1, <1>2, <1>3

-----------------------------------------------------------------------------
(* The steps of users, outside the poll. *)

\* What a step outside the poll leaves of it.
LEMMA UserPoll ==
    ASSUME PollOK, Unlocked, UNCHANGED <<poll, called, movedUp, capacity>>
    PROVE  PollOK' /\ poll.i = 0 /\ poll.at # "called" /\ called = {}
<1>1. called = {} /\ poll.i = 0 /\ poll.at # "called"
  BY DEF PollOK, Unlocked
<1> QED BY <1>1 DEF PollOK, Unlocked

LEMMA UserCreateInv == ASSUME TimerInv, UserCreate PROVE TimerInv'
<1>1. PICK config \in Configs : Create(config)
  BY DEF UserCreate
<1>2. Unlocked /\ UNCHANGED <<capacity, group0, poll, held, called, movedUp, late>>
  BY DEF UserCreate, history
<1>3. /\ TableOK'
      /\ \A b \in Live : b \in Live' /\ timer'[b] = timer[b]
      /\ length' \in Nat /\ length <= length'
      /\ \A i \in 0 .. length - 1 : slot'[i] = slot[i]
  BY <1>1, <1>2, CreateTable DEF TimerInv
<1>4. PollOK' /\ poll.i = 0 /\ poll.at # "called" /\ called = {}
  BY <1>2, UserPoll DEF TimerInv
<1>5. LateOK'
  BY <1>2, <1>3 DEF TimerInv, LateOK
<1>6. HeldOK'
  BY <1>2, <1>3, HeldStays DEF TimerInv
<1>7. SkippedOK'
  BY <1>2, <1>3, <1>4, NothingSkipped
<1> QED BY <1>3, <1>4, <1>5, <1>6, <1>7 DEF TimerInv

LEMMA ReadIndexInv ==
    ASSUME TimerInv, NEW u \in Users, NEW b \in Blocks, ReadIndex(u, b)
    PROVE  TimerInv'
<1>1. UNCHANGED <<capacity, slot, length, timer, poll, called, movedUp, late>>
  BY DEF ReadIndex, tableVars, history
<1>2. TableOK' /\ PollOK' /\ LateOK' /\ SkippedOK'
  <2>1. Live' = Live
    BY <1>1 DEF Live
  <2>2. Skipped' = Skipped
    BY <1>1, <2>1 DEF Skipped, Passed
  <2> QED BY <1>1, <2>1, <2>2 DEF TimerInv, TableOK, PollOK, LateOK, SkippedOK, Passed, Unlocked
<1>3. HeldOK'
  <2> DEFINE r == [timer |-> b, index |-> timer[b].index, stale |-> FALSE]
  <2>1. held' = [held EXCEPT ![u] = r]
    BY DEF ReadIndex
  <2>2. b \in Live /\ timer[b].index \in 0 .. length - 1 /\ slot[timer[b].index] = b
    BY DEF ReadIndex, TimerInv, TableOK
  <2>3. r \in IndexRead /\ r.index = timer[b].index /\ r.timer = b
    BY <2>2 DEF IndexRead
  <2>4. length <= capacity /\ length \in Nat /\ capacity \in Nat
    BY CapacityIsPositive DEF TimerInv, TableOK
  <2>5. r.index < length /\ r.index < capacity
    BY <2>2, <2>3, <2>4
  <2> HIDE DEF r
  <2>6. /\ held' \in [Users -> IndexRead \cup {NULL}]
        /\ held'[u] = r /\ \A v \in Users \ {u} : held'[v] = held[v]
    BY <2>1, <2>3 DEF TimerInv, HeldOK
  <2>7. ASSUME NEW v \in Users, held'[v] # NULL
        PROVE  /\ held'[v].index < capacity'
               /\ held'[v].stale \/ (held'[v].index < length' /\ slot'[held'[v].index] = held'[v].timer)
    <3>1. CASE v = u
      BY <1>1, <2>2, <2>3, <2>5, <2>6, <3>1
    <3>2. CASE v # u
      BY <1>1, <2>6, <2>7, <3>2 DEF TimerInv, HeldOK
    <3> QED BY <3>1, <3>2
  <2> QED BY <2>6, <2>7 DEF HeldOK
<1> QED BY <1>2, <1>3 DEF TimerInv

\* What a user holds is a number, and a call takes it away.
LEMMA HeldIndex ==
    ASSUME HeldOK, NEW u \in Users, held[u] # NULL
    PROVE  held[u].index \in Nat
  BY DEF HeldOK, IndexRead

LEMMA HeldDropped ==
    ASSUME NEW u \in Users, NEW h, held' = [h EXCEPT ![u] = NULL],
           h \in [Users -> IndexRead \cup {NULL}],
           \A v \in Users : h[v] # NULL =>
               /\ h[v].index < capacity'
               /\ h[v].stale \/ (h[v].index < length' /\ slot'[h[v].index] = h[v].timer)
    PROVE  HeldOK'
<1>1. held' \in [Users -> IndexRead \cup {NULL}]
  OBVIOUS
<1>2. held'[u] = NULL /\ \A v \in Users \ {u} : held'[v] = h[v]
  OBVIOUS
<1> QED BY <1>1, <1>2 DEF HeldOK

LEMMA UserDeleteInv == ASSUME TimerInv, NEW u \in Users, UserDelete(u) PROVE TimerInv'
<1> DEFINE i == held[u].index
           h == Moved(i)
<1>1. /\ Unlocked /\ held[u] # NULL /\ Delete(i)
      /\ held' = [h EXCEPT ![u] = NULL]
      /\ late' = {b \in late : timer'[b] # NULL}
      /\ UNCHANGED <<capacity, group0, poll, called, movedUp>>
  BY DEF UserDelete
<1>2. i \in Nat
  BY <1>1, HeldIndex DEF TimerInv
<1> HIDE DEF i
<1>3. TableOK'
  BY <1>1, <1>2, DeleteTable DEF TimerInv
<1>4. PollOK' /\ poll.i = 0 /\ poll.at # "called" /\ called = {}
  BY <1>1, UserPoll DEF TimerInv
<1>5. LateOK'
  <2>1. ASSUME NEW b \in late' PROVE b \in late /\ b \in Live' /\ Steady(b)
    <3>1. b \in late /\ b \in Live /\ b \in Live'
      BY <1>1, <2>1 DEF TimerInv, LateOK, Live
    <3> QED BY <1>1, <1>2, <3>1, DeleteSteady DEF TimerInv
  <2> QED BY <1>1, <1>4, <2>1, LateStays DEF TimerInv
<1>6. HeldOK'
  <2>1. /\ h \in [Users -> IndexRead \cup {NULL}]
        /\ \A v \in Users : h[v] # NULL =>
             /\ h[v].index < capacity
             /\ h[v].stale \/ (h[v].index < length' /\ slot'[h[v].index] = h[v].timer)
    BY <1>1, <1>2, <1>3, HeldMoved DEF TimerInv
  <2> HIDE DEF h
  <2> QED BY <1>1, <2>1, HeldDropped
<1>7. SkippedOK'
  BY <1>1, <1>3, <1>4, NothingSkipped
<1> QED BY <1>3, <1>4, <1>5, <1>6, <1>7 DEF TimerInv

\* Pausing or resuming: late timers that stay late are not touched.
LEMMA UserSetInv ==
    ASSUME TimerInv, NEW u \in Users, NEW r \in BOOLEAN, Unlocked, held[u] # NULL,
           SetRunning(held[u].index, r), held' = [held EXCEPT ![u] = NULL],
           UNCHANGED <<capacity, group0, poll, called, movedUp>>,
           \A b \in late' : b \in late /\ timer'[b] = timer[b]
    PROVE  TimerInv'
<1>1. held[u].index \in Nat
  BY HeldIndex DEF TimerInv
<1>2. TableOK' /\ Live' = Live /\ UNCHANGED <<slot, length>>
  BY <1>1, SetRunningTable DEF TimerInv
<1>3. PollOK' /\ poll.i = 0 /\ poll.at # "called" /\ called = {}
  <2>1. PollOK /\ UNCHANGED <<poll, called, movedUp, capacity>>
    BY DEF TimerInv
  <2> QED BY <2>1, UserPoll
<1>4. LateOK'
  BY <1>2 DEF TimerInv, LateOK
<1>5. HeldOK'
  <2>1. HeldOK
    BY DEF TimerInv
  <2> QED BY <1>2, <2>1, HeldDropped DEF HeldOK
<1>6. SkippedOK'
  BY <1>2, <1>3, NothingSkipped
<1> QED BY <1>2, <1>3, <1>4, <1>5, <1>6 DEF TimerInv

LEMMA UserPauseInv == ASSUME TimerInv, NEW u \in Users, UserPause(u) PROVE TimerInv'
<1>1. /\ Unlocked /\ held[u] # NULL /\ SetRunning(held[u].index, FALSE)
      /\ held' = [held EXCEPT ![u] = NULL]
      /\ late' = late \ {b \in Blocks : timer'[b] # timer[b]}
      /\ UNCHANGED <<capacity, group0, poll, called, movedUp>>
  BY DEF UserPause
<1>2. \A b \in late' : b \in late /\ timer'[b] = timer[b]
  BY <1>1 DEF TimerInv, LateOK, Live
<1> QED BY <1>1, <1>2, UserSetInv

LEMMA UserResumeInv == ASSUME TimerInv, NEW u \in Users, UserResume(u) PROVE TimerInv'
<1>1. /\ Unlocked /\ held[u] # NULL /\ SetRunning(held[u].index, TRUE)
      /\ held' = [held EXCEPT ![u] = NULL]
      /\ late' = late \ {At(held[u].index)}
      /\ UNCHANGED <<capacity, group0, poll, called, movedUp>>
  BY DEF UserResume
<1>2. \A b \in late' : b \in late /\ timer'[b] = timer[b]
  <2>1. held[u].index \in Nat
    BY <1>1, HeldIndex DEF TimerInv
  <2>2. \A b \in Live : b = At(held[u].index) \/ timer'[b] = timer[b]
    BY <1>1, <2>1, SetRunningTable DEF TimerInv
  <2> QED BY <1>1, <2>2 DEF TimerInv, LateOK
<1> QED BY <1>1, <1>2, UserSetInv

-----------------------------------------------------------------------------
(* The tick and the poll. *)

LEMMA TickCountInv == ASSUME TimerInv, TickCount PROVE TimerInv'
<1>1. /\ poll.at = "idle" /\ Unlocked
      /\ timer' = [b \in Blocks |-> IF CountsDown(b) THEN [timer[b] EXCEPT !.cnt = timer[b].cnt - 1]
                                    ELSE timer[b]]
      /\ poll' = poll \/ poll' = [poll EXCEPT !.at = "counted"]
      /\ UNCHANGED <<capacity, slot, length, held, called, movedUp, late>>
  BY DEF TickCount, history, Unlocked
<1>2. ASSUME NEW b \in Live
      PROVE  /\ b \in Live' /\ timer'[b] \in TimerRecord
             /\ timer'[b].index = timer[b].index /\ timer'[b].arr = timer[b].arr
             /\ timer'[b].cnt <= timer[b].cnt
             /\ timer[b].running \/ timer'[b] = timer[b]
  <2>1. b \in Blocks /\ timer[b] \in TimerRecord /\ timer[b].cnt \in Nat
    BY LiveTimers DEF TimerInv, TimerRecord
  <2>2. CASE CountsDown(b)
    <3> DEFINE n == timer[b].cnt - 1
    <3>1. timer'[b] = [timer[b] EXCEPT !.cnt = n] /\ timer[b].running
      BY <1>1, <2>1, <2>2 DEF CountsDown
    <3>2. n \in Nat /\ n <= timer[b].cnt
      BY <2>1, <2>2 DEF CountsDown
    <3> HIDE DEF n
    <3>3. /\ timer'[b] \in TimerRecord
          /\ timer'[b].index = timer[b].index /\ timer'[b].arr = timer[b].arr
          /\ timer'[b].cnt = n
      BY <2>1, <3>1, <3>2 DEF TimerRecord
    <3> QED BY <2>1, <3>1, <3>2, <3>3, TimerAssumption DEF Live
  <2>3. CASE ~CountsDown(b)
    <3>1. timer'[b] = timer[b]
      BY <1>1, <2>1, <2>3
    <3> QED BY <2>1, <3>1 DEF Live
  <2> QED BY <2>2, <2>3
<1>3. ASSUME NEW b \in Blocks, b \notin Live PROVE timer'[b] = NULL
  <2>1. ~InTable(b)
    BY <1>3 DEF InTable, TimerInv, TableOK
  <2> QED BY <1>1, <1>3, <2>1 DEF CountsDown, Live
<1>4. Live' = Live
  BY <1>2, <1>3 DEF Live
<1>5. TableOK'
  <2>1. timer' \in [Blocks -> TimerRecord \cup {NULL}]
    BY <1>1, <1>2, <1>3
  <2>2. \A b \in Live : timer'[b].cnt <= timer'[b].arr
    BY <1>2, LiveTimers DEF TimerInv, TableOK, TimerRecord
  <2>3. \A i \in 0 .. length - 1 : slot[i] \in Live /\ timer'[slot[i]].index = i
    BY <1>2 DEF TimerInv, TableOK
  <2>4. \A b \in Live : timer'[b].index \in 0 .. length - 1 /\ slot[timer'[b].index] = b
    BY <1>2 DEF TimerInv, TableOK
  <2> QED BY <1>1, <1>4, <2>1, <2>2, <2>3, <2>4 DEF TimerInv, TableOK
<1>6. PollOK' /\ poll'.i = 0 /\ poll'.at \in {"idle", "counted"} /\ called' = {}
  <2>1. poll' \in [at : {"idle", "counted", "check", "called"}, i : 0 .. capacity,
                   timer : Blocks \cup {NULL}] /\ poll'.i = 0 /\ called = {}
        /\ poll'.at \in {"idle", "counted"}
    BY <1>1 DEF TimerInv, PollOK
  <2> QED BY <1>1, <1>4, <2>1 DEF TimerInv, PollOK, Unlocked
<1>7. LateOK'
  BY <1>1, <1>4, <1>2 DEF TimerInv, LateOK
<1>8. HeldOK'
  BY <1>1 DEF TimerInv, HeldOK
<1>9. SkippedOK'
  BY <1>5, <1>6, NothingSkipped
<1> QED BY <1>5, <1>6, <1>7, <1>8, <1>9 DEF TimerInv

\* Where the table is left alone, only the poll's record matters.
LEMMA TableStays ==
    ASSUME TimerInv, UNCHANGED <<capacity, slot, length, timer, held, late>>,
           poll.at # "called"
    PROVE  TableOK' /\ Live' = Live /\ LateOK' /\ HeldOK'
<1>1. Live' = Live
  BY DEF Live
<1> QED BY <1>1 DEF TimerInv, TableOK, LateOK, HeldOK

LEMMA PollStartInv == ASSUME TimerInv, PollStart PROVE TimerInv'
<1>1. /\ Unlocked /\ poll.at # "called"
      /\ poll' = [at |-> "check", i |-> 0, timer |-> NULL]
      /\ UNCHANGED <<capacity, slot, length, timer, held, called, movedUp, late>>
  BY DEF PollStart, Unlocked, tableVars, history
<1>2. TableOK' /\ Live' = Live /\ LateOK' /\ HeldOK'
  BY <1>1, TableStays
<1>3. PollOK'
  <2>1. 0 \in 0 .. capacity
    BY CapacityIsPositive DEF TimerInv
  <2> QED BY <1>1, <1>2, <2>1 DEF TimerInv, PollOK, Unlocked
<1>4. SkippedOK'
  BY <1>1, <1>2, <1>3, NothingSkipped
<1> QED BY <1>2, <1>3, <1>4 DEF TimerInv

LEMMA PollEndInv == ASSUME TimerInv, PollEnd PROVE TimerInv'
<1>1. /\ poll.at = "check" /\ poll' = NotPolling /\ called' = {} /\ movedUp' = 0
      /\ UNCHANGED <<capacity, slot, length, timer, held, late>>
  BY DEF PollEnd, tableVars
<1>2. TableOK' /\ Live' = Live /\ LateOK' /\ HeldOK'
  BY <1>1, TableStays
<1>3. PollOK'
  <2>1. 0 \in 0 .. capacity
    BY CapacityIsPositive DEF TimerInv
  <2> QED BY <1>1, <1>2, <2>1 DEF TimerInv, PollOK, Unlocked, NotPolling
<1>4. SkippedOK'
  BY <1>1, <1>2, <1>3, NothingSkipped DEF NotPolling
<1> QED BY <1>2, <1>3, <1>4 DEF TimerInv

LEMMA PollPassInv == ASSUME TimerInv, PollPass PROVE TimerInv'
<1>1. /\ poll.at = "check" /\ poll.i < length /\ timer[At(poll.i)].cnt > 0
      /\ poll' = [poll EXCEPT !.i = poll.i + 1]
      /\ UNCHANGED <<capacity, slot, length, timer, held, called, movedUp, late>>
  BY DEF PollPass, tableVars, history
<1>2. TableOK' /\ Live' = Live /\ LateOK' /\ HeldOK'
  BY <1>1, TableStays
<1>3. /\ poll.i \in Nat /\ length \in Nat /\ capacity \in Nat /\ length <= capacity
      /\ poll.i \in 0 .. length - 1 /\ poll.i + 1 \in 0 .. capacity
  BY <1>1, CapacityIsPositive DEF TimerInv, TableOK, PollOK
<1>4. /\ poll'.at = "check" /\ poll'.i = poll.i + 1
      /\ poll' \in [at : {"idle", "counted", "check", "called"}, i : 0 .. capacity,
                    timer : Blocks \cup {NULL}]
  BY <1>1, <1>3 DEF TimerInv, PollOK
<1>5. \A b \in Live : /\ timer[b].index \in 0 .. length - 1 /\ slot[timer[b].index] = b
                      /\ timer[b].index \in Nat
  BY DEF TimerInv, TableOK
<1>6. PollOK'
  <2>1. \A b \in called : Passed(b)'
    <3>1. \A b \in called : timer[b].index < poll.i /\ b \in Live
      BY <1>1 DEF TimerInv, PollOK, Passed
    <3> QED BY <1>1, <1>3, <1>4, <1>5, <3>1 DEF Passed
  <2> QED BY <1>1, <1>2, <1>4, <2>1 DEF TimerInv, PollOK, Unlocked
<1>7. SkippedOK'
  <2>1. ASSUME NEW b \in Skipped' PROVE b \in Skipped
    <3>1. b \in Live /\ timer[b].index < poll.i + 1 /\ timer[b].cnt = 0 /\ b \notin called
      BY <1>1, <1>2, <1>4, <2>1 DEF Skipped, Passed
    <3>2. timer[b].index # poll.i
      BY <1>1, <1>3, <1>5, <3>1, AtIsSlot DEF TimerInv
    <3> QED BY <1>3, <1>5, <3>1, <3>2 DEF Skipped, Passed
  <2> QED BY <1>1, <2>1, SkippedGrows DEF TimerInv, PollOK
<1> QED BY <1>2, <1>6, <1>7 DEF TimerInv

\* The timer that the poll is at, and what is the same for every callback.
LEMMA TimerAtPoll ==
    ASSUME TimerInv, poll.at = "check", poll.i < length
    PROVE  LET b == At(poll.i) IN
           /\ poll.i \in 0 .. length - 1 /\ poll.i < capacity /\ poll.i \in Nat
           /\ b \in Live /\ b \in Blocks /\ timer[b] \in TimerRecord
           /\ timer[b].index = poll.i
<1>1. poll.i \in Nat /\ length \in Nat /\ capacity \in Nat /\ length <= capacity
  BY CapacityIsPositive DEF TimerInv, TableOK, PollOK
<1>2. poll.i \in 0 .. length - 1 /\ poll.i < capacity
  BY <1>1
<1>3. At(poll.i) = slot[poll.i]
  BY <1>2, AtIsSlot DEF TimerInv
<1> QED BY <1>1, <1>2, <1>3, LiveTimers DEF TimerInv, TableOK

\* A timer that is before the poll's next place after the step, and not at the
\* place of the timer b that was called, was there before; or it is in M, moved
\* past the index.
OnlyMoved(b, M) ==
    \A c \in Live' : timer'[c].index <= poll.i =>
        c = b \/ c \in M \/ (c \in Live /\ timer[c].index < poll.i)

\* What any callback but one that deletes its own timer does to the table.
CallbackKeeps(b) ==
    /\ TableOK' /\ b \in Live' /\ HeldOK' /\ movedUp' \in Nat
    /\ \A c \in Live \cap Live' : Steady(c)
    /\ \/ OnlyMoved(b, {}) /\ movedUp' = movedUp
       \/ (\E c : OnlyMoved(b, {c})) /\ movedUp' = movedUp + 1

\* Deleting at a place that is not b's moves one timer at most past b's.
LEMMA DeleteMoves ==
    ASSUME TableOK, UNCHANGED capacity, NEW i \in 0 .. length - 1, Delete(i),
           NEW b \in Live, timer[b].index = poll.i, poll.i \in Nat, poll.i # i
    PROVE  /\ i > poll.i => OnlyMoved(b, {})
           /\ OnlyMoved(b, {slot[poll.i + 1]})
<1>1. length \in Nat /\ i \in Nat /\ i < length
  BY CapacityIsPositive DEF TableOK
<1>2. ASSUME NEW c \in Live', timer'[c].index <= poll.i
      PROVE  /\ c \in Live
             /\ c = b \/ timer[c].index < poll.i \/ (i < poll.i /\ c = slot[poll.i + 1])
  <2>1. c \in Live /\ MovesUp(c, i) /\ timer[c] \in TimerRecord
    BY <1>1, <1>2, DeleteTable, LiveTimers
  <2>2. /\ timer[c].index \in Nat /\ slot[timer[c].index] = c /\ slot[timer[b].index] = b
        /\ timer'[c].index = IF timer[c].index > i THEN timer[c].index - 1 ELSE timer[c].index
    BY <2>1 DEF TableOK, MovesUp, TimerRecord
  <2>3. CASE timer[c].index = poll.i
    BY <2>1, <2>2, <2>3
  <2>4. CASE timer[c].index < poll.i
    BY <2>1, <2>4
  <2>5. CASE timer[c].index > poll.i
    <3>1. timer[c].index = poll.i + 1 /\ i < poll.i
      BY <1>1, <1>2, <2>2, <2>5
    <3> QED BY <2>1, <2>2, <3>1
  <2> QED BY <2>2, <2>3, <2>4, <2>5
<1> QED BY <1>1, <1>2 DEF OnlyMoved

\* Nobody moves, and new timers are behind the poll.
Unmoved ==
    /\ TableOK' /\ HeldOK' /\ movedUp' = movedUp
    /\ \A c \in Live : c \in Live' /\ Steady(c) /\ timer'[c].index = timer[c].index
    /\ \A c \in Live' : c \in Live \/ timer'[c].index = length

LEMMA UnmovedKeeps ==
    ASSUME TableOK, NEW b \in Live, timer[b].index = poll.i, poll.i \in 0 .. length - 1,
           movedUp \in Nat, Unmoved
    PROVE  CallbackKeeps(b)
<1>1. length \in Nat /\ poll.i \in Nat /\ poll.i < length /\ slot[poll.i] = b
  BY CapacityIsPositive DEF TableOK
<1>2. ASSUME NEW c \in Live', timer'[c].index <= poll.i
      PROVE  c = b \/ (c \in Live /\ timer[c].index < poll.i)
  <2>1. c \in Live
    BY <1>1, <1>2 DEF Unmoved
  <2>2. /\ timer[c].index = timer'[c].index /\ timer[c].index \in 0 .. length - 1
        /\ slot[timer[c].index] = c
    BY <2>1 DEF Unmoved, TableOK
  <2>3. timer[c].index < poll.i \/ timer[c].index = poll.i
    BY <1>1, <1>2, <2>2
  <2> QED BY <1>1, <2>1, <2>2, <2>3
<1>3. OnlyMoved(b, {})
  BY <1>2 DEF OnlyMoved
<1>4. \A c \in Live \cap Live' : Steady(c)
  BY DEF Unmoved
<1>5. TableOK' /\ HeldOK' /\ movedUp' = movedUp /\ b \in Live'
  BY DEF Unmoved
<1> QED BY <1>3, <1>4, <1>5 DEF CallbackKeeps

LEMMA CallbackKept ==
    ASSUME TimerInv, UNCHANGED capacity, ~SelfDelete, poll.at = "check", poll.i < length,
           CallbackEffect(At(poll.i))
    PROVE  CallbackKeeps(At(poll.i))
<1> DEFINE b == At(poll.i)
<1>1. /\ poll.i \in 0 .. length - 1 /\ poll.i \in Nat
      /\ b \in Live /\ timer[b] \in TimerRecord /\ timer[b].index = poll.i
      /\ length \in Nat /\ TableOK /\ HeldOK /\ movedUp \in Nat
  BY TimerAtPoll, CapacityIsPositive DEF TimerInv, TableOK, PollOK
<1>2. \A c \in Live : /\ c \in Blocks /\ timer[c] \in TimerRecord
                      /\ timer[c].index \in 0 .. length - 1 /\ timer[c].index \in Nat
                      /\ slot[timer[c].index] = c
  BY <1>1, LiveTimers DEF TableOK
<1> SUFFICES CallbackKeeps(b)
  OBVIOUS
<1> HIDE DEF b
<1>3. Unmoved => CallbackKeeps(b)
  BY <1>1, UnmovedKeeps
<1>4. CASE timer[b].callback = "create"
  <2>1. PICK config \in Configs : Create(config)
    BY <1>4 DEF CallbackEffect, b
  <2>2. UNCHANGED <<held, movedUp>>
    BY <1>4 DEF CallbackEffect, b
  <2>3. /\ TableOK' /\ length' \in Nat /\ length <= length'
        /\ \A c \in Live : c \in Live' /\ timer'[c] = timer[c]
        /\ \A c \in Live' : c \in Live \/ timer'[c].index = length
        /\ \A i \in 0 .. length - 1 : slot'[i] = slot[i]
    BY <1>1, <2>1, CreateTable
  <2>4. HeldOK'
    BY <1>1, <2>2, <2>3, HeldStays
  <2>5. \A c \in Live : Steady(c)
    BY <1>2, <2>3 DEF Steady
  <2>6. \A c \in Live : timer'[c].index = timer[c].index
    BY <2>3
  <2>7. Unmoved
    BY <2>2, <2>3, <2>4, <2>5, <2>6 DEF Unmoved
  <2> QED BY <1>3, <2>7
<1>5. CASE timer[b].callback = "pause"
  <2>1. SetRunning(poll.i, FALSE) /\ UNCHANGED <<held, movedUp>>
    BY <1>1, <1>5 DEF CallbackEffect, b
  <2>2. /\ TableOK' /\ Live' = Live /\ UNCHANGED <<slot, length>>
        /\ \A c \in Live : timer'[c] = timer[c]
                          \/ (c = At(poll.i) /\ timer'[c] = [timer[c] EXCEPT !.running = FALSE])
    BY <1>1, <2>1, SetRunningTable
  <2>3. ASSUME NEW c \in Live
        PROVE  Steady(c) /\ timer'[c].index = timer[c].index
    <3>1. timer[c] \in TimerRecord
      BY <1>2
    <3>2. CASE timer'[c] = timer[c]
      BY <3>1, <3>2 DEF Steady, TimerRecord
    <3>3. CASE timer'[c] = [timer[c] EXCEPT !.running = FALSE]
      <4>1. /\ timer'[c].index = timer[c].index /\ timer'[c].cnt = timer[c].cnt
            /\ timer'[c].arr = timer[c].arr /\ timer'[c].running = FALSE
        BY <3>1, <3>3 DEF TimerRecord
      <4>2. timer[c].index \in Nat
        BY <3>1 DEF TimerRecord
      <4> QED BY <4>1, <4>2 DEF Steady
    <3> QED BY <2>2, <3>2, <3>3
  <2>4. HeldOK'
    BY <1>1, <2>1, <2>2 DEF HeldOK
  <2>5. Unmoved
    BY <2>1, <2>2, <2>3, <2>4 DEF Unmoved
  <2> QED BY <1>3, <2>5
<1>6. CASE timer[b].callback = "delete" /\ Live \ {b} # {}
  <2>1. PICK c \in Live \ {b} :
            /\ Delete(timer[c].index)
            /\ held' = Moved(timer[c].index)
            /\ movedUp' = movedUp + (IF timer[c].index <= poll.i THEN 1 ELSE 0)
    BY <1>6 DEF CallbackEffect, b
  <2> DEFINE i == timer[c].index
  <2>2. i \in 0 .. length - 1 /\ i \in Nat /\ i # poll.i /\ slot[i] = c /\ i < length
    BY <1>1, <1>2
  <2> HIDE DEF i
  <2>3. Delete(i) /\ held' = Moved(i) /\ movedUp' = movedUp + (IF i <= poll.i THEN 1 ELSE 0)
    BY <2>1 DEF i
  <2>4. /\ TableOK' /\ b \in Live'
        /\ \A d \in Live \cap Live' : Steady(d)
    BY <1>1, <2>1, <2>2, <2>3, DeleteTable, DeleteSteady DEF MovesUp
  <2>5. HeldOK'
    <3> DEFINE h == Moved(i)
    <3>1. /\ h \in [Users -> IndexRead \cup {NULL}]
          /\ \A u \in Users : h[u] # NULL =>
               /\ h[u].index < capacity
               /\ h[u].stale \/ (h[u].index < length' /\ slot'[h[u].index] = h[u].timer)
      BY <1>1, <2>2, <2>3, <2>4, HeldMoved
    <3> HIDE DEF h
    <3>2. held' = h
      BY <2>3 DEF h
    <3> QED BY <3>1, <3>2 DEF HeldOK
  <2>6. /\ i > poll.i => OnlyMoved(b, {})
        /\ OnlyMoved(b, {slot[poll.i + 1]})
    BY <1>1, <2>2, <2>3, DeleteMoves
  <2>7. CASE i > poll.i
    <3>1. movedUp' = movedUp /\ OnlyMoved(b, {})
      BY <1>1, <2>2, <2>3, <2>6, <2>7
    <3> QED BY <1>1, <2>4, <2>5, <3>1 DEF CallbackKeeps
  <2>8. CASE i <= poll.i
    <3>1. movedUp' = movedUp + 1
      BY <2>3, <2>8
    <3>2. movedUp' \in Nat
      BY <1>1, <3>1
    <3> QED BY <2>4, <2>5, <2>6, <3>1, <3>2 DEF CallbackKeeps
  <2> QED BY <1>1, <2>2, <2>7, <2>8
<1>7. CASE UNCHANGED <<tableVars, held, movedUp>>
  <2>1. Live' = Live /\ UNCHANGED <<slot, length, timer, held, movedUp>>
    BY <1>7 DEF Live, tableVars
  <2>2. TableOK' /\ HeldOK'
    BY <1>1, <2>1 DEF TableOK, HeldOK
  <2>3. \A c \in Live : Steady(c) /\ timer'[c].index = timer[c].index
    BY <1>2, <2>1 DEF Steady
  <2>4. Unmoved
    BY <2>1, <2>2, <2>3 DEF Unmoved
  <2> QED BY <1>3, <2>4
<1>8. \/ timer[b].callback \in {"create", "pause"}
      \/ timer[b].callback = "delete" /\ Live \ {b} # {}
      \/ UNCHANGED <<tableVars, held, movedUp>>
  BY DEF CallbackEffect, b
<1> QED BY <1>4, <1>5, <1>6, <1>7, <1>8

\* What the callback did is what the poll may rely on.
LEMMA PollCallInv == ASSUME TimerInv, ~SelfDelete, PollCall PROVE TimerInv'
<1> DEFINE b == At(poll.i)
<1>1. /\ poll.at = "check" /\ poll.i < length /\ timer[b].cnt = 0
      /\ CallbackEffect(b)
      /\ poll' = [poll EXCEPT !.at = "called", !.timer = b]
      /\ called' = {c \in called \cup {b} : timer'[c] # NULL}
      /\ late' = {c \in late \cup (IF timer[b].running THEN {} ELSE {b}) : timer'[c] # NULL}
      /\ UNCHANGED <<capacity, group0>>
  BY DEF PollCall
<1>2. CallbackKeeps(b)
  BY <1>1, CallbackKept
<1>3. /\ poll.i \in 0 .. length - 1 /\ poll.i < capacity /\ poll.i \in Nat
      /\ b \in Live /\ b \in Blocks /\ timer[b].index = poll.i
  BY <1>1, TimerAtPoll
<1> HIDE DEF b
<1>4. /\ TableOK' /\ b \in Live' /\ HeldOK' /\ movedUp' \in Nat
      /\ \A c \in Live \cap Live' : Steady(c)
  BY <1>2 DEF CallbackKeeps
<1>5. /\ poll'.at = "called" /\ poll'.timer = b /\ poll'.i = poll.i
      /\ poll' \in [at : {"idle", "counted", "check", "called"}, i : 0 .. capacity,
                    timer : Blocks \cup {NULL}]
  BY <1>1, <1>3 DEF TimerInv, PollOK
<1>6. \A c \in called : c \in Live /\ timer[c].index < poll.i
  BY <1>1 DEF TimerInv, PollOK, Passed
<1>7. \A c \in Live : c \in Blocks /\ timer[c].index \in Nat
  BY LiveTimers DEF TimerInv, TimerRecord
<1>8. \A c \in Live' : timer'[c] # NULL /\ timer'[c].index \in Nat
  BY <1>4 DEF Live, TableOK, TimerRecord
<1>9. PollOK'
  <2>1. ASSUME NEW c \in called' PROVE c \in Live' /\ Passed(c)'
    <3>1. c \in Live /\ c \in Live'
      BY <1>1, <1>3, <1>6, <1>7, <2>1 DEF Live
    <3>2. timer'[c].index <= timer[c].index
      BY <1>4, <3>1 DEF Steady
    <3>3. timer[c].index <= poll.i
      BY <1>1, <1>3, <1>6, <1>7, <2>1
    <3>4. timer'[c].index < poll.i \/ timer'[c].index = poll.i
      BY <1>3, <1>7, <1>8, <3>1, <3>2, <3>3
    <3> QED BY <1>5, <3>1, <3>4 DEF Passed
  <2>2. b \in called'
    BY <1>1, <1>4, <1>8
  <2> QED BY <1>1, <1>3, <1>4, <1>5, <2>1, <2>2 DEF PollOK, Unlocked
<1>10. LateOK'
  <2>1. ASSUME NEW c \in late'
        PROVE  /\ c \in Live' /\ ~timer'[c].running
               /\ (timer'[c].arr = 0 \/ timer'[c].cnt > 0) \/ c = b
    <3>1. c \in late \/ (c = b /\ ~timer[b].running)
      BY <1>1, <2>1
    <3>2. c \in Live /\ ~timer[c].running /\ (timer[c].arr = 0 \/ timer[c].cnt > 0 \/ c = b)
      BY <1>1, <1>3, <3>1 DEF TimerInv, LateOK
    <3>3. c \in Live'
      BY <1>1, <1>7, <2>1, <3>2 DEF Live
    <3> QED BY <1>4, <3>2, <3>3 DEF Steady
  <2> QED BY <1>5, <2>1 DEF LateOK
<1>11. SkippedOK'
  <2>1. ASSUME NEW M, OnlyMoved(b, M) PROVE Skipped' \subseteq Skipped \cup M
    <3>1. ASSUME NEW c \in Skipped', c \notin M PROVE c \in Skipped
      <4>1. c \in Live' /\ Passed(c)' /\ timer'[c].cnt = 0 /\ c \notin called'
        BY <3>1 DEF Skipped
      <4>2. timer'[c].index <= poll.i
        BY <1>3, <1>5, <1>8, <4>1 DEF Passed
      <4>3. c # b
        BY <1>1, <1>4, <1>8, <4>1
      <4>4. c \in Live /\ timer[c].index < poll.i
        BY <2>1, <3>1, <4>1, <4>2, <4>3 DEF OnlyMoved
      <4>5. timer[c].cnt = 0
        BY <1>4, <4>1, <4>4 DEF Steady
      <4>6. c \notin called
        BY <1>1, <1>8, <4>1
      <4> QED BY <4>4, <4>5, <4>6 DEF Skipped, Passed
    <3> QED BY <3>1
  <2>2. CASE OnlyMoved(b, {}) /\ movedUp' = movedUp
    <3>1. Skipped' \subseteq Skipped
      BY <2>1, <2>2
    <3> QED BY <2>2, <3>1, SkippedGrows DEF TimerInv, PollOK
  <2>3. ASSUME NEW c, OnlyMoved(b, {c}), movedUp' = movedUp + 1 PROVE SkippedOK'
    <3>1. Skipped' \subseteq Skipped \cup {c}
      BY <2>1, <2>3
    <3> QED BY <2>3, <3>1, SkippedGrows DEF TimerInv, PollOK
  <2> QED BY <1>2, <2>2, <2>3 DEF CallbackKeeps
<1> QED BY <1>4, <1>9, <1>10, <1>11 DEF TimerInv

\* The timer that was called is there, at the poll's place or before.
LEMMA TimerCalled ==
    ASSUME TimerInv, poll.at = "called"
    PROVE  LET b == poll.timer IN
           /\ b \in Live /\ b \in called /\ timer[b].index <= poll.i
           /\ timer[b] \in TimerRecord /\ timer[b].index \in 0 .. length - 1
           /\ timer[b].index \in Nat /\ slot[timer[b].index] = b
           /\ poll.i \in Nat /\ poll.i + 1 \in 0 .. capacity
<1>1. poll.timer \in called /\ poll.timer \in Live /\ poll.i \in Nat /\ poll.i < capacity
  BY DEF TimerInv, PollOK
<1>2. /\ timer[poll.timer] \in TimerRecord /\ timer[poll.timer].index \in 0 .. length - 1
      /\ slot[timer[poll.timer].index] = poll.timer
  BY <1>1, LiveTimers DEF TimerInv, TableOK
<1>3. Passed(poll.timer)
  BY <1>1 DEF TimerInv, PollOK
<1>4. poll.i + 1 \in 0 .. capacity
  BY <1>1, CapacityIsPositive DEF TimerInv
<1> QED BY <1>1, <1>2, <1>3, <1>4 DEF Passed, TimerRecord

\* What is left of the poll's state when it goes on to the next place.
LEMMA PollGoesOn ==
    ASSUME TimerInv, poll.at = "called", TableOK', UNCHANGED capacity, movedUp' \in Nat,
           poll' = [at |-> "check", i |-> poll.i + 1, timer |-> NULL],
           \A c \in called' : /\ c \in called /\ c \in Live'
                              /\ timer'[c].index <= timer[c].index
    PROVE  PollOK'
<1>1. poll.i \in Nat /\ poll.i + 1 \in 0 .. capacity
  BY TimerCalled
<1>2. /\ poll'.at = "check" /\ poll'.i = poll.i + 1
      /\ poll' \in [at : {"idle", "counted", "check", "called"}, i : 0 .. capacity,
                    timer : Blocks \cup {NULL}]
  BY <1>1
<1>3. ASSUME NEW c \in called' PROVE Passed(c)'
  <2>1. c \in Live /\ Passed(c) /\ timer[c].index \in Nat
    BY <1>3, LiveTimers DEF TimerInv, PollOK, TimerRecord
  <2>2. timer'[c].index \in Nat
    BY <1>3 DEF TableOK
  <2>3. timer'[c].index < poll.i + 1
    BY <1>1, <1>3, <2>1, <2>2 DEF Passed
  <2> QED BY <1>2, <2>3 DEF Passed
<1> QED BY <1>2, <1>3 DEF PollOK, Unlocked

LEMMA ReloadInv ==
    ASSUME TimerInv, poll.at = "called", NEW b, b = poll.timer,
           timer' = [timer EXCEPT ![b].cnt = timer[b].arr],
           UNCHANGED <<capacity, slot, length, held, called, movedUp, late>>,
           poll' = [at |-> "check", i |-> poll.i + 1, timer |-> NULL]
    PROVE  TimerInv'
<1>1. /\ b \in Live /\ b \in Blocks /\ b \in called /\ timer[b] \in TimerRecord
      /\ poll.i \in Nat
  BY TimerCalled DEF Live
<1>2. /\ timer'[b] = [timer[b] EXCEPT !.cnt = timer[b].arr]
      /\ \A c \in Blocks \ {b} : timer'[c] = timer[c]
      /\ DOMAIN timer' = Blocks
  BY <1>1 DEF TimerInv, TableOK
<1>3. /\ timer'[b] \in TimerRecord /\ timer'[b].index = timer[b].index
      /\ timer'[b].cnt = timer[b].arr /\ timer'[b].arr = timer[b].arr
      /\ timer'[b].running = timer[b].running
      /\ timer[b].arr \in Nat
  BY <1>1, <1>2 DEF TimerRecord
<1>4. Live' = Live
  BY <1>1, <1>2, <1>3, TimerAssumption DEF Live
<1>5. TableOK'
  <2>1. timer' \in [Blocks -> TimerRecord \cup {NULL}]
    BY <1>2, <1>3 DEF TimerInv, TableOK
  <2>2. \A c \in Live : timer'[c].index = timer[c].index /\ timer'[c].cnt <= timer'[c].arr
    BY <1>2, <1>3 DEF TimerInv, TableOK, Live
  <2> QED BY <1>4, <2>1, <2>2 DEF TimerInv, TableOK
<1>6. \A c \in Live : timer'[c].index = timer[c].index /\ timer[c].index \in Nat
  BY <1>2, <1>3, LiveTimers DEF TimerInv, TimerRecord
<1>7. PollOK'
  BY <1>4, <1>5, <1>6, PollGoesOn DEF TimerInv, PollOK
<1>8. LateOK'
  BY <1>2, <1>3, <1>4 DEF TimerInv, LateOK, Live
<1>9. HeldOK'
  BY DEF TimerInv, HeldOK
<1>10. SkippedOK'
  <2>1. ASSUME NEW c \in Skipped' PROVE c \in Skipped
    <3>1. c \in Live /\ Passed(c)' /\ timer'[c].cnt = 0 /\ c \notin called /\ c \in Blocks
      BY <1>4, <2>1 DEF Skipped, Live
    <3>2. c # b /\ timer[c].cnt = 0
      BY <1>1, <1>2, <3>1
    <3>3. timer[c].index < poll.i + 1
      BY <1>6, <3>1 DEF Passed
    <3>4. timer[c].index < poll.i \/ timer[c].index = poll.i
      BY <1>1, <1>6, <3>1, <3>3
    <3> QED BY <3>1, <3>2, <3>4 DEF Skipped, Passed
  <2> QED BY <2>1, SkippedGrows DEF TimerInv, PollOK
<1> QED BY <1>5, <1>7, <1>8, <1>9, <1>10 DEF TimerInv

LEMMA FiredOnceInv ==
    ASSUME TimerInv, poll.at = "called", NEW i \in Nat, i = timer[poll.timer].index,
           Delete(i), held' = Moved(i),
           movedUp' = movedUp + (IF i < length /\ i <= poll.i THEN 1 ELSE 0),
           called' = {c \in called : timer'[c] # NULL},
           late' = {c \in late : timer'[c] # NULL},
           poll' = [at |-> "check", i |-> poll.i + 1, timer |-> NULL],
           UNCHANGED capacity
    PROVE  TimerInv'
<1> DEFINE b == poll.timer
<1>1. /\ b \in Live /\ b \in called /\ i <= poll.i /\ i \in 0 .. length - 1
      /\ slot[i] = b /\ poll.i \in Nat
  BY TimerCalled
<1> HIDE DEF b
<1>2. length \in Nat /\ i < length /\ TableOK /\ HeldOK /\ movedUp \in Nat
  BY <1>1, CapacityIsPositive DEF TimerInv, TableOK, PollOK
<1>3. /\ TableOK' /\ b \notin Live'
      /\ \A c \in Live' : c \in Live /\ MovesUp(c, i) /\ Steady(c)
  <2>1. /\ TableOK' /\ slot[i] \in Live \ Live'
        /\ \A c \in Live \ {slot[i]} : MovesUp(c, i)
        /\ \A c \in Live' : c \in Live \ {slot[i]}
    BY <1>2, DeleteTable
  <2>2. \A c \in Live' : Steady(c)
    BY <1>2, <2>1, DeleteSteady
  <2> QED BY <1>1, <2>1, <2>2
<1>4. movedUp' = movedUp + 1 /\ movedUp' \in Nat
  BY <1>1, <1>2
<1>5. \A c \in Live : c \in Blocks /\ timer[c].index \in Nat
  BY <1>2, LiveTimers DEF TimerRecord
<1>6. PollOK'
  <2>1. ASSUME NEW c \in called'
        PROVE  c \in called /\ c \in Live' /\ timer'[c].index <= timer[c].index
    <3>1. c \in called /\ c \in Live /\ timer'[c] # NULL
      BY <2>1 DEF TimerInv, PollOK
    <3>2. c \in Live'
      BY <1>5, <3>1 DEF Live
    <3> QED BY <1>3, <3>1, <3>2 DEF Steady
  <2> QED BY <1>3, <1>4, <2>1, PollGoesOn
<1>7. LateOK'
  <2>1. ASSUME NEW c \in late'
        PROVE  c \in Live' /\ ~timer'[c].running /\ (timer'[c].arr = 0 \/ timer'[c].cnt > 0)
    <3>1. c \in late /\ c \in Live /\ timer'[c] # NULL /\ ~timer[c].running
      BY <2>1 DEF TimerInv, LateOK
    <3>2. c \in Live'
      BY <1>5, <3>1 DEF Live
    <3>3. timer[c].arr = 0 \/ timer[c].cnt > 0
      BY <1>3, <3>1, <3>2 DEF TimerInv, LateOK, b
    <3> QED BY <1>3, <3>1, <3>2, <3>3 DEF Steady
  <2> QED BY <2>1 DEF LateOK
<1>8. HeldOK'
  <2> DEFINE h == Moved(i)
  <2>1. /\ h \in [Users -> IndexRead \cup {NULL}]
        /\ \A u \in Users : h[u] # NULL =>
             /\ h[u].index < capacity
             /\ h[u].stale \/ (h[u].index < length' /\ slot'[h[u].index] = h[u].timer)
    BY <1>2, <1>3, HeldMoved
  <2> HIDE DEF h
  <2>2. held' = h
    BY DEF h
  <2> QED BY <2>1, <2>2 DEF HeldOK
<1>9. SkippedOK'
  <2>1. ASSUME NEW c \in Skipped' PROVE c \in Skipped \cup {slot[poll.i + 1]}
    <3>1. c \in Live' /\ Passed(c)' /\ timer'[c].cnt = 0 /\ c \notin called'
      BY <2>1 DEF Skipped
    <3>2. /\ c \in Live /\ timer[c].cnt = 0 /\ c \notin called
          /\ timer'[c].index = IF timer[c].index > i THEN timer[c].index - 1 ELSE timer[c].index
      BY <1>3, <3>1 DEF Steady, MovesUp, Live
    <3>3. timer'[c].index < poll.i + 1
      BY <3>1 DEF Passed
    <3>4. timer[c].index < poll.i \/ timer[c].index = poll.i \/ timer[c].index = poll.i + 1
      BY <1>1, <1>5, <3>2, <3>3
    <3>5. slot[timer[c].index] = c
      BY <1>2, <3>2 DEF TableOK
    <3> QED BY <3>2, <3>4, <3>5 DEF Skipped, Passed
  <2>2. Skipped' \subseteq Skipped \cup {slot[poll.i + 1]}
    BY <2>1
  <2> QED BY <1>2, <1>4, <2>2, SkippedGrows DEF TimerInv
<1> QED BY <1>3, <1>6, <1>7, <1>8, <1>9 DEF TimerInv

LEMMA PollFinishInv == ASSUME TimerInv, PollFinish PROVE TimerInv'
<1> DEFINE b == poll.timer
           i == timer[b].index
<1>1. poll.at = "called" /\ UNCHANGED <<capacity, group0>>
      /\ poll' = [at |-> "check", i |-> poll.i + 1, timer |-> NULL]
  BY DEF PollFinish
<1>2. b \in Live /\ i \in Nat
  BY <1>1, TimerCalled
<1>3. \/ /\ timer' = [timer EXCEPT ![b].cnt = timer[b].arr]
         /\ UNCHANGED <<slot, length, held, history>>
      \/ /\ Delete(i)
         /\ held' = Moved(i)
         /\ movedUp' = movedUp + (IF i < length /\ i <= poll.i THEN 1 ELSE 0)
         /\ called' = {c \in called : timer'[c] # NULL}
         /\ late' = {c \in late : timer'[c] # NULL}
  BY <1>2 DEF PollFinish
<1>4. CASE timer' = [timer EXCEPT ![b].cnt = timer[b].arr] /\ UNCHANGED <<slot, length, held, history>>
  BY <1>1, <1>4, ReloadInv DEF history
<1>5. CASE /\ Delete(i)
           /\ held' = Moved(i)
           /\ movedUp' = movedUp + (IF i < length /\ i <= poll.i THEN 1 ELSE 0)
           /\ called' = {c \in called : timer'[c] # NULL}
           /\ late' = {c \in late : timer'[c] # NULL}
  BY <1>1, <1>2, <1>5, FiredOnceInv
<1> QED BY <1>3, <1>4, <1>5

-----------------------------------------------------------------------------
(* The theorems. *)

LEMMA InitInv == Init => TimerInv
<1> SUFFICES ASSUME Init PROVE TimerInv
  OBVIOUS
<1>1. Live = {} /\ capacity \in Nat /\ capacity > 0
  BY TimerAssumption DEF Init, Live
<1>2. TableOK
  <2>1. length = 0 /\ 0 .. length - 1 = {}
    BY DEF Init
  <2>2. 0 \in 0 .. capacity
    BY <1>1
  <2> QED BY <1>1, <2>1, <2>2 DEF Init, TableOK
<1>3. PollOK
  <2>1. 0 \in 0 .. capacity
    BY <1>1
  <2> QED BY <1>1, <2>1 DEF Init, PollOK, NotPolling, Unlocked
<1>4. LateOK /\ HeldOK
  BY DEF Init, LateOK, HeldOK
<1>5. SkippedOK
  <2>1. Skipped = {} /\ movedUp = 0
    BY <1>1 DEF Skipped, Init
  <2> QED BY <2>1, FS_EmptySet DEF SkippedOK
<1> QED BY <1>2, <1>3, <1>4, <1>5 DEF TimerInv

LEMMA StepInv == ASSUME TimerInv, ~SelfDelete, [Next]_vars PROVE TimerInv'
<1>1. CASE UserCreate
  BY <1>1, UserCreateInv
<1>2. ASSUME NEW u \in Users, NEW b \in Blocks, ReadIndex(u, b) PROVE TimerInv'
  BY <1>2, ReadIndexInv
<1>3. ASSUME NEW u \in Users, UserDelete(u) PROVE TimerInv'
  BY <1>3, UserDeleteInv
<1>4. ASSUME NEW u \in Users, UserPause(u) PROVE TimerInv'
  BY <1>4, UserPauseInv
<1>5. ASSUME NEW u \in Users, UserResume(u) PROVE TimerInv'
  BY <1>5, UserResumeInv
<1>6. CASE TickCount
  BY <1>6, TickCountInv
<1>7. CASE PollStart
  BY <1>7, PollStartInv
<1>8. CASE PollPass
  BY <1>8, PollPassInv
<1>9. CASE PollCall
  BY <1>9, PollCallInv
<1>10. CASE PollFinish
  BY <1>10, PollFinishInv
<1>11. CASE PollEnd
  BY <1>11, PollEndInv
<1>12. CASE UNCHANGED vars
  <2>1. UNCHANGED <<capacity, slot, length, timer, poll, held, called, movedUp, late>>
    BY <1>12 DEF vars, tableVars, history
  <2>2. Live' = Live
    BY <2>1 DEF Live
  <2>3. Skipped' = Skipped
    BY <2>1, <2>2 DEF Skipped, Passed
  <2> QED BY <2>1, <2>2, <2>3 DEF TimerInv, TableOK, PollOK, LateOK, HeldOK, SkippedOK,
                                  Passed, Unlocked
<1> QED BY <1>1, <1>2, <1>3, <1>4, <1>5, <1>6, <1>7, <1>8, <1>9, <1>10, <1>11, <1>12 DEF Next

\* The table, the poll, the indices that users hold and the history stay right,
\* whatever users and callbacks do (rte_timer.c).
THEOREM TimerInvariant == ASSUME ~SelfDelete PROVE Spec => []TimerInv
<1>1. TimerInv /\ [Next]_vars => TimerInv'
  BY StepInv
<1> QED BY <1>1, InitInv, PTL DEF Spec

\* Every variable has its type.
THEOREM TypeCorrect == ASSUME ~SelfDelete PROVE Spec => []TypeOK
<1>1. [][Next]_vars /\ Init => [](group0 \in BOOLEAN)
  <2>1. Init => group0 \in BOOLEAN
    BY DEF Init
  <2>2. group0 \in BOOLEAN /\ [Next]_vars => (group0 \in BOOLEAN)'
    BY DEF Next, vars, UserCreate, ReadIndex, UserDelete, UserPause, UserResume, TickCount,
           PollStart, PollPass, PollCall, PollFinish, PollEnd
  <2> QED BY <2>1, <2>2, PTL
<1>2. ASSUME TimerInv, group0 \in BOOLEAN PROVE TypeOK
  <2>1. capacity \in Nat /\ length \in Nat /\ length <= capacity
    BY <1>2, CapacityIsPositive DEF TimerInv, TableOK
  <2>2. ASSUME NEW b \in Live
        PROVE  timer[b] \in [reload : BOOLEAN, running : BOOLEAN, index : 0 .. capacity - 1,
                             arr : Nat, cnt : 0 .. timer[b].arr, callback : CallbackKinds]
    <3>1. timer[b] \in TimerRecord /\ timer[b].cnt <= timer[b].arr
          /\ timer[b].index \in 0 .. length - 1
      BY <1>2, LiveTimers DEF TimerInv, TableOK
    <3>2. timer[b].index \in 0 .. capacity - 1 /\ timer[b].cnt \in 0 .. timer[b].arr
      BY <2>1, <3>1 DEF TimerRecord
    <3> QED BY <3>1, <3>2 DEF TimerRecord
  <2>3. ASSUME NEW u \in Users, held[u] # NULL
        PROVE  held[u] \in [timer : Blocks, index : 0 .. capacity - 1, stale : BOOLEAN]
    <3>1. held[u] \in IndexRead /\ held[u].index < capacity
      BY <1>2, <2>3 DEF TimerInv, HeldOK
    <3>2. held[u].index \in 0 .. capacity - 1
      BY <2>1, <3>1 DEF IndexRead
    <3> QED BY <3>1, <3>2 DEF IndexRead
  <2>4. late \subseteq Live
    BY <1>2 DEF TimerInv, LateOK
  <2> QED BY <1>2, <2>2, <2>3, <2>4 DEF TypeOK, TimerInv, TableOK, PollOK
<1> QED BY <1>1, <1>2, TimerInvariant, PTL DEF Spec

\* The table holds each live timer once, and each knows its own place: what
\* TIMER_ASSERT says in single_timer_free_cb and timer_delete.
THEOREM IndicesAreExact == ASSUME ~SelfDelete PROVE Spec => []IndexIsPlace
<1>1. TimerInv => IndexIsPlace
  BY LiveCount DEF TimerInv, TableOK, IndexIsPlace
<1> QED BY <1>1, TimerInvariant, PTL

\* timer_check may go on with the timer that it called.
THEOREM TimerSurvivesCallback == ASSUME ~SelfDelete PROVE Spec => []PollKeepsItsTimer
<1>1. TimerInv => PollKeepsItsTimer
  BY TimerCalled DEF PollKeepsItsTimer
<1> QED BY <1>1, TimerInvariant, PTL

\* timer_poll calls a timer that has run down at most once.
THEOREM NoSecondCall == ASSUME ~SelfDelete PROVE Spec => CalledOncePerPoll
<1>1. ASSUME TimerInv, NEW b \in Blocks, PollCall, At(poll.i) = b PROVE b \notin called
  <2>1. poll.at = "check" /\ poll.i < length
    BY <1>1 DEF PollCall
  <2>2. timer[b].index = poll.i /\ poll.i \in Nat
    BY <1>1, <2>1, TimerAtPoll
  <2> QED BY <1>1, <2>1, <2>2 DEF TimerInv, PollOK, Passed
<1>2. TimerInv => [\A b \in Blocks : PollCall /\ At(poll.i) = b => b \notin called]_vars
  BY <1>1
<1> QED BY <1>2, TimerInvariant, PTL DEF CalledOncePerPoll

\* timer_poll forgets at most as many timers as deletions moved the table up.
THEOREM ForgottenAreMoved == ASSUME ~SelfDelete PROVE Spec => []NoOneForgotten
<1>1. ASSUME TimerInv, poll.at = "check", poll.i >= length
      PROVE  {b \in Live : timer[b].cnt = 0 /\ b \notin called} = Skipped
  <2>1. poll.i \in Nat /\ length \in Nat
    BY <1>1, CapacityIsPositive DEF TimerInv, TableOK, PollOK
  <2>2. \A b \in Live : timer[b].index \in 0 .. length - 1
    BY <1>1 DEF TimerInv, TableOK
  <2>3. \A b \in Live : Passed(b)
    BY <1>1, <2>1, <2>2 DEF Passed
  <2> QED BY <2>3 DEF Skipped
<1>2. TimerInv => NoOneForgotten
  BY <1>1 DEF NoOneForgotten, TimerInv, SkippedOK
<1> QED BY <1>2, TimerInvariant, PTL

\* A timer paused while its call was pending is called once more at most.
THEOREM OneLateCall == ASSUME ~SelfDelete PROVE Spec => PausedCalledOnce
<1>1. ASSUME TimerInv, NEW b \in Blocks, PollCall, At(poll.i) = b, timer[b].arr > 0
      PROVE  b \notin late
  <2>1. poll.at = "check" /\ timer[b].cnt = 0
    BY <1>1 DEF PollCall
  <2>2. b \in late => timer[b].arr = 0
    BY <1>1, <2>1 DEF TimerInv, LateOK
  <2> QED BY <1>1, <2>2
<1>2. TimerInv => [\A b \in Blocks : PollCall /\ At(poll.i) = b /\ ~timer[b].running
                                     /\ timer[b].arr > 0 => b \notin late]_vars
  BY <1>1
<1> QED BY <1>2, TimerInvariant, PTL DEF PausedCalledOnce

\* An index is good until a deletion at its place or before.
THEOREM IndexStaysGood == ASSUME ~SelfDelete PROVE Spec => []IndexGoodUntilMoved
<1>1. ASSUME TimerInv, NEW u \in Users, held[u] # NULL, ~held[u].stale
      PROVE  held[u].index < length /\ At(held[u].index) = held[u].timer
  <2>1. held[u].index < length /\ slot[held[u].index] = held[u].timer
    BY <1>1 DEF TimerInv, HeldOK
  <2>2. held[u].index \in 0 .. length - 1
    BY <1>1, <2>1, HeldIndex, CapacityIsPositive DEF TimerInv, TableOK
  <2> QED BY <1>1, <2>1, <2>2, AtIsSlot DEF TimerInv
<1>2. TimerInv => IndexGoodUntilMoved
  BY <1>1 DEF IndexGoodUntilMoved
<1> QED BY <1>2, TimerInvariant, PTL
=============================================================================
