------------------------------ MODULE RteTimer ------------------------------
(***************************************************************************)
(* Software timers (rte/src/middleware/rte_timer.c): one group, whose      *)
(* table holds pointers to timers.  A timer carries its own index in the   *)
(* table, and users name a timer by that index.                            *)
(*                                                                         *)
(* The table has a recursive mutex (rte_timer.h:61).  Who polls holds it   *)
(* over all callbacks; a call of a user is one step, but the index that it *)
(* passes was read before, without the mutex.  Group 0 is polled by        *)
(* timer_tick_handle itself, any other by a thread of its own.             *)
(*                                                                         *)
(* The table is a ds_vector that never pops, so its head stays 0; what it  *)
(* does to its slots is DsVector's RemoveByIndex.                          *)
(***************************************************************************)
EXTENDS Integers, FiniteSets

CONSTANTS
    Blocks,         \* heap blocks that can hold a timer
    Users,          \* threads that use the group
    NULL,           \* the null pointer, "nothing"
    Capacities,     \* what the capacity of the table may be
    Configs,        \* configurations: [reload, running, period, callback]
    SelfDelete      \* do callbacks delete the timer that calls them?

\* What a callback does: nothing, or one call on its own group.
CallbackKinds == {"none", "create", "pause", "delete"}

TimerRecord == [reload : BOOLEAN, running : BOOLEAN, index : Nat, arr : Nat,
                cnt : Nat, callback : CallbackKinds]
IndexRead == [timer : Blocks, index : Nat, stale : BOOLEAN]

ASSUME TimerAssumption ==
    /\ NULL \notin Blocks /\ NULL \notin TimerRecord /\ NULL \notin IndexRead
    /\ Capacities \subseteq {1, 2, 4, 8, 16, 32, 64, 128}
    /\ Configs \subseteq [reload : BOOLEAN, running : BOOLEAN, period : Nat,
                          callback : CallbackKinds]
    /\ SelfDelete \in BOOLEAN

VARIABLES
    capacity,   \* slots of the table; a power of two, fixed
    group0,     \* is this SUGAR_TIMER_GROUP?
    slot,       \* the slots: pointers to timers, and what removals left
    length,     \* timers in the table
    timer,      \* the timer in each block, or NULL: the block is free
    poll,       \* where the poll is
    held        \* what a user is about to pass: an index read from a timer

tableVars == <<slot, length, timer>>

(* History, for the properties only. *)
VARIABLES
    called,     \* timers called in this poll
    movedUp,    \* how often this poll's next element moved to a lower place
    late        \* paused timers that were called since they were paused

history == <<called, movedUp, late>>
vars == <<capacity, group0, tableVars, poll, held, history>>

Live == {b \in Blocks : timer[b] # NULL}

\* ds_vector_at, mask and all: the place behind the last element is allowed.
At(i) == IF i > length THEN NULL ELSE slot[i % capacity]

NotPolling == [at |-> "idle", i |-> 0, timer |-> NULL]

\* A bug the checks look for: callbacks run without the mutex.
UnlockedInCallbacks == poll.at # "check"

\* The mutex of the table: only a poll keeps it from step to step.
Unlocked == poll.at \in {"idle", "counted"}

Init ==
    /\ capacity \in Capacities /\ group0 \in BOOLEAN
    /\ slot = [i \in 0 .. capacity - 1 |-> NULL] /\ length = 0
    /\ timer = [b \in Blocks |-> NULL]
    /\ poll = NotPolling
    /\ held = [u \in Users |-> NULL]
    /\ called = {} /\ movedUp = 0 /\ late = {}

-----------------------------------------------------------------------------
(***************************************************************************)
(* What the calls do to the table.                                         *)
(***************************************************************************)

\* A bug the checks look for: the index is taken after the push.
NewTimerAfterPush(config) ==
    [reload |-> config.reload, running |-> config.running, index |-> length + 1,
     arr |-> config.period, cnt |-> config.period, callback |-> config.callback]

NewTimer(config) ==
    [reload |-> config.reload, running |-> config.running, index |-> length,
     arr |-> config.period, cnt |-> config.period, callback |-> config.callback]

\* timer_create_new: needs a block, then a free slot, or gives the block back.
Create(config) ==
    IF length < capacity /\ Live # Blocks
    THEN \E b \in Blocks \ Live :
            /\ timer' = [timer EXCEPT ![b] = NewTimer(config)]
            /\ slot' = [slot EXCEPT ![length] = b]
            /\ length' = length + 1
    ELSE UNCHANGED tableVars

\* A bug the checks look for: the loop starts behind the timer that moved up.
RenumberedLate(b, i) ==
    IF timer[b].index > i + 1 THEN [timer[b] EXCEPT !.index = @ - 1] ELSE timer[b]

\* The timers behind place i have moved up.
Renumbered(b, i) ==
    IF \E j \in i + 1 .. length - 1 : slot[j] = b
    THEN [timer[b] EXCEPT !.index = @ - 1]
    ELSE timer[b]

\* timer_delete: an index out of range is ignored; a timer is freed and the
\* slots behind it close up, the last one keeping what it held.
Delete(i) ==
    IF i < length
    THEN /\ slot' = [j \in DOMAIN slot |-> IF j \in i .. length - 2 THEN slot[j + 1] ELSE slot[j]]
         /\ length' = length - 1
         /\ timer' = [b \in Blocks |->
                        IF b = slot[i] \/ timer[b] = NULL THEN NULL ELSE Renumbered(b, i)]
    ELSE UNCHANGED tableVars

\* timer_pause and timer_resume; a write to a freed timer is lost in the heap.
SetRunning(i, running) ==
    LET b == At(i) IN
    /\ timer' = IF b \in Live THEN [timer EXCEPT ![b].running = running] ELSE timer
    /\ UNCHANGED <<slot, length>>

\* For the history: which users' indices a deletion at place i has made stale.
Moved(i) == [u \in Users |->
    IF held[u] # NULL /\ i < length /\ i <= held[u].index
    THEN [held[u] EXCEPT !.stale = TRUE] ELSE held[u]]

-----------------------------------------------------------------------------
(***************************************************************************)
(* Users.                                                                  *)
(***************************************************************************)

UserCreate ==
    /\ Unlocked
    /\ \E config \in Configs : Create(config)
    /\ UNCHANGED <<capacity, group0, poll, held, history>>

\* `timer->index', the argument of the call to come.
ReadIndex(u, b) ==
    /\ held[u] = NULL /\ b \in Live
    /\ held' = [held EXCEPT ![u] = [timer |-> b, index |-> timer[b].index, stale |-> FALSE]]
    /\ UNCHANGED <<capacity, group0, tableVars, poll, history>>

UserDelete(u) ==
    /\ Unlocked /\ held[u] # NULL
    /\ Delete(held[u].index)
    /\ held' = [Moved(held[u].index) EXCEPT ![u] = NULL]
    /\ late' = {b \in late : timer'[b] # NULL}
    /\ UNCHANGED <<capacity, group0, poll, called, movedUp>>

UserPause(u) ==
    /\ Unlocked /\ held[u] # NULL
    /\ SetRunning(held[u].index, FALSE)
    /\ late' = late \ {b \in Blocks : timer'[b] # timer[b]}
    /\ held' = [held EXCEPT ![u] = NULL]
    /\ UNCHANGED <<capacity, group0, poll, called, movedUp>>

UserResume(u) ==
    /\ Unlocked /\ held[u] # NULL
    /\ SetRunning(held[u].index, TRUE)
    /\ late' = late \ {At(held[u].index)}
    /\ held' = [held EXCEPT ![u] = NULL]
    /\ UNCHANGED <<capacity, group0, poll, called, movedUp>>

-----------------------------------------------------------------------------
(***************************************************************************)
(* The tick and the poll.                                                  *)
(***************************************************************************)

InTable(b) == \E i \in 0 .. length - 1 : slot[i] = b

\* Bugs the checks look for: a count of zero, or of a paused timer, goes down.
CountsBelowZero(b) == InTable(b) /\ timer[b].running
CountsPaused(b) == InTable(b) /\ timer[b].cnt > 0

CountsDown(b) == InTable(b) /\ timer[b].running /\ timer[b].cnt > 0

\* timer_tick_handle, with the mutex; for group 0 its poll follows.
TickCount ==
    /\ poll.at = "idle"
    /\ timer' = [b \in Blocks |->
                    IF CountsDown(b) THEN [timer[b] EXCEPT !.cnt = @ - 1] ELSE timer[b]]
    /\ poll' = IF group0 THEN [poll EXCEPT !.at = "counted"] ELSE poll
    /\ UNCHANGED <<capacity, group0, slot, length, held, history>>

\* A bug the checks look for: the loop starts at 1.
PollStartAtOne ==
    /\ poll.at = IF group0 THEN "counted" ELSE "idle"
    /\ poll' = [at |-> "check", i |-> 1, timer |-> NULL]
    /\ UNCHANGED <<capacity, group0, tableVars, held, history>>

PollStart ==
    /\ poll.at = IF group0 THEN "counted" ELSE "idle"
    /\ poll' = [at |-> "check", i |-> 0, timer |-> NULL]
    /\ UNCHANGED <<capacity, group0, tableVars, held, history>>

PollEnd ==
    /\ poll.at = "check" /\ poll.i >= length
    /\ poll' = NotPolling
    /\ called' = {} /\ movedUp' = 0
    /\ UNCHANGED <<capacity, group0, tableVars, held, late>>

\* timer_check of a timer that has not run down.
PollPass ==
    /\ poll.at = "check" /\ poll.i < length
    /\ timer[At(poll.i)].cnt > 0
    /\ poll' = [poll EXCEPT !.i = @ + 1]
    /\ UNCHANGED <<capacity, group0, tableVars, held, history>>

\* What the callback of timer b does, with the mutex already taken.
CallbackEffect(b) ==
    CASE timer[b].callback = "create" ->
            (\E config \in Configs : Create(config)) /\ UNCHANGED <<held, movedUp>>
      [] timer[b].callback = "pause" ->
            SetRunning(timer[b].index, FALSE) /\ UNCHANGED <<held, movedUp>>
      [] timer[b].callback = "delete" /\ (Live \ {b} # {} \/ SelfDelete) ->
            \E c \in IF SelfDelete THEN Live ELSE Live \ {b} :
                /\ Delete(timer[c].index)
                /\ held' = Moved(timer[c].index)
                /\ movedUp' = movedUp + (IF timer[c].index <= poll.i THEN 1 ELSE 0)
      [] OTHER -> UNCHANGED <<tableVars, held, movedUp>>

\* timer_check of a timer that has: the callback.
PollCall ==
    /\ poll.at = "check" /\ poll.i < length
    /\ LET b == At(poll.i) IN
        /\ timer[b].cnt = 0
        /\ CallbackEffect(b)
        /\ poll' = [poll EXCEPT !.at = "called", !.timer = b]
        /\ called' = {c \in called \cup {b} : timer'[c] # NULL}
        /\ late' = {c \in late \cup (IF timer[b].running THEN {} ELSE {b}) : timer'[c] # NULL}
    /\ UNCHANGED <<capacity, group0>>

\* A bug the checks look for: the index stays, as if the timer were always deleted.
PollFinishStays ==
    /\ poll.at = "called"
    /\ LET b == poll.timer IN
        IF timer[b].reload
        THEN /\ timer' = [timer EXCEPT ![b].cnt = timer[b].arr]
             /\ UNCHANGED <<slot, length, held, history>>
        ELSE /\ Delete(timer[b].index)
             /\ held' = Moved(timer[b].index)
             /\ called' = called \ {b} /\ late' = late \ {b}
             /\ UNCHANGED movedUp
    /\ poll' = [at |-> "check", i |-> poll.i, timer |-> NULL]
    /\ UNCHANGED <<capacity, group0>>

\* Then the reload, or the deletion of a timer that fires once, by the index
\* that it has now.  Of a timer that its callback freed nothing is known.
PollFinish ==
    /\ poll.at = "called"
    /\ LET b == poll.timer IN
       \E reload \in IF b \in Live THEN {timer[b].reload} ELSE BOOLEAN,
          index \in IF b \in Live THEN {timer[b].index} ELSE 0 .. capacity :
        IF reload
        THEN /\ timer' = IF b \in Live THEN [timer EXCEPT ![b].cnt = timer[b].arr] ELSE timer
             /\ UNCHANGED <<slot, length, held, history>>
        ELSE /\ Delete(index)
             /\ held' = Moved(index)
             /\ movedUp' = movedUp + (IF index < length /\ index <= poll.i THEN 1 ELSE 0)
             /\ called' = {c \in called : timer'[c] # NULL}
             /\ late' = {c \in late : timer'[c] # NULL}
    /\ poll' = [at |-> "check", i |-> poll.i + 1, timer |-> NULL]
    /\ UNCHANGED <<capacity, group0>>

Next ==
    \/ UserCreate
    \/ \E u \in Users, b \in Blocks : ReadIndex(u, b)
    \/ \E u \in Users : UserDelete(u)
    \/ \E u \in Users : UserPause(u)
    \/ \E u \in Users : UserResume(u)
    \/ TickCount
    \/ PollStart
    \/ PollPass
    \/ PollCall
    \/ PollFinish
    \/ PollEnd

Spec == Init /\ [][Next]_vars

-----------------------------------------------------------------------------
(***************************************************************************)
(* Properties.                                                             *)
(***************************************************************************)

TypeOK ==
    /\ capacity \in Capacities /\ group0 \in BOOLEAN
    /\ length \in 0 .. capacity
    /\ slot \in [0 .. capacity - 1 -> Blocks \cup {NULL}]
    /\ \A b \in Live :
        timer[b] \in [reload : BOOLEAN, running : BOOLEAN, index : 0 .. capacity - 1,
                     arr : Nat, cnt : 0 .. timer[b].arr, callback : CallbackKinds]
    /\ poll \in [at : {"idle", "counted", "check", "called"}, i : 0 .. capacity,
                timer : Blocks \cup {NULL}]
    /\ \A u \in Users : held[u] = NULL \/
        held[u] \in [timer : Blocks, index : 0 .. capacity - 1, stale : BOOLEAN]
    /\ called \subseteq Live /\ late \subseteq Live /\ movedUp \in Nat

\* Whatever callbacks and users create and delete, also in the middle of a
\* poll, the table holds each live timer once and each knows its own place:
\* what TIMER_ASSERT says in single_timer_free_cb and in timer_delete.
IndexIsPlace ==
    /\ \A i \in 0 .. length - 1 : slot[i] \in Live /\ timer[slot[i]].index = i
    /\ Cardinality(Live) = length

\* When its callback has returned the timer is still there, and not ahead of
\* the poll: timer_check goes on to reload or delete the timer it looked at.
PollKeepsItsTimer ==
    poll.at = "called" =>
        /\ poll.timer \in Live
        /\ slot[timer[poll.timer].index] = poll.timer
        /\ timer[poll.timer].index <= poll.i

\* A poll calls no timer twice.
CalledOncePerPoll ==
    [][\A b \in Blocks : PollCall /\ At(poll.i) = b => b \notin called]_vars

\* A poll leaves an expired timer for the next one only when a deletion has
\* moved it past the poll's index, so at most one for each such deletion.
NoOneForgotten ==
    poll.at = "check" /\ poll.i >= length =>
        Cardinality({b \in Live : timer[b].cnt = 0 /\ b \notin called}) <= movedUp

\* A timer that is paused after it expired and before the poll reaches it is
\* still called, but once, and then not again until it is resumed.
PausedCalledOnce ==
    [][\A b \in Blocks : PollCall /\ At(poll.i) = b /\ ~timer[b].running /\ timer[b].arr > 0
            => b \notin late]_vars

\* An index read without the mutex names the timer it was read from until a
\* timer is deleted there or before: then timer_delete and timer_pause act on
\* another timer, or on a freed one.
IndexGoodUntilMoved ==
    \A u \in Users : held[u] # NULL /\ ~held[u].stale =>
        held[u].index < length /\ At(held[u].index) = held[u].timer
=============================================================================
