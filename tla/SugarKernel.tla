---------------------------- MODULE SugarKernel ----------------------------
(***************************************************************************)
(* The Sugar kernel: a preemptive priority scheduler with delays and       *)
(* counting semaphores for one core (rte/src/sugar), driven by the system  *)
(* tick of the timer module (rte/src/middleware/rte_timer.c).              *)
(*                                                                         *)
(* A critical section masks every interrupt, so each is one action.        *)
(* Between two of them interrupts run: the tick interrupt, whose poll of   *)
(* the timer group is not a critical section, and device interrupts that   *)
(* use semaphores.  A thread runs only while no interrupt is active and    *)
(* only if it is `current'; `call' is where it is in a kernel call, which  *)
(* is how a thread can be interrupted, and switched out, between putting   *)
(* itself on a wait list and calling the scheduler.                        *)
(***************************************************************************)
EXTENDS Integers, SugarPriorQueue

CONSTANTS
    Idle,               \* the idle thread
    Semas,              \* the semaphores
    MaxCount,           \* max_count of every semaphore
    TimerCap,           \* the capacity of the kernel's timer group
    Blocks,             \* the heap blocks that a timer can be allocated in
    MaxTicks,           \* bound: the longest timeout or delay, in ticks
    Forever,            \* SUGAR_WAIT_FOREVER
    Nested              \* may a device interrupt preempt the tick interrupt?

ASSUME KernelAssumption ==
    /\ Idle \in Threads /\ Prio[Idle] = IdlePriority
    /\ MaxCount \in 1 .. 255            \* a uint8_t; 0 means 255
    /\ TimerCap \in Nat \ {0}
    /\ IsFiniteSet(Blocks) /\ Cardinality(Blocks) >= TimerCap
    /\ MaxTicks \in Nat \ {0}
    /\ Forever \notin Nat
    /\ Nested \in BOOLEAN
    /\ NULL \notin Blocks /\ NULL \notin Semas

VARIABLES
    started,    \* sugar_kernel_handle.if_started
    current,    \* sugar_kernel_handle.current_tcb
    ready,      \* sugar_kernel_handle.ready_queue
    state,      \* tcb->thread_state; "NONE" before the thread is created
    wake,       \* tcb->suspend_wake_status
    timerOf,    \* tcb->suspend_timer
    call,       \* where the thread is in a kernel call
    count,      \* sema->count_value
    waiting,    \* sema->wait_thread_list
    phase,      \* the life of a semaphore: "live", "dying" or "freed"
    timers,     \* the timer table of sugar_kernel_handle.timer_group
    tick,       \* the tick interrupt: its program point, index and timer
    irq,        \* the device interrupt: "off", or about to leave
    tokens      \* what users put into a semaphore and have not yet got back

tcbVars   == <<state, wake, timerOf>>
semaVars  == <<count, waiting, phase, tokens>>
isrVars   == <<tick, irq>>
vars == <<started, current, ready, tcbVars, call, semaVars, timers, isrVars>>

Points == {"app", "resched", "suspended", "woken", "destroying", "freeing"}
Calls  == [at : Points, sema : Semas \cup {NULL}, woke : BOOLEAN]
App    == [at |-> "app", sema |-> NULL, woke |-> FALSE]

TimerRecord == [id : Blocks, kind : {"delay", "sema"}, tcb : Threads,
                sema : Semas \cup {NULL}, cnt : 0 .. MaxTicks]
NoTimer == [id |-> NULL]
TickPoints == {"off", "count", "poll", "callback", "delete"}
TickOff == [at |-> "off", idx |-> 1, timer |-> NoTimer]

Init ==
    /\ started = FALSE
    /\ current = NULL
    /\ ready = Push(EmptyQueue, Idle)
    /\ state = [t \in Threads |-> IF t = Idle THEN "READY" ELSE "NONE"]
    /\ wake = [t \in Threads |-> "INVALID"]
    /\ timerOf = [t \in Threads |-> NULL]
    /\ call = [t \in Threads |-> App]
    /\ count = [s \in Semas |-> 0]
    /\ waiting = [s \in Semas |-> EmptyQueue]
    /\ phase = [s \in Semas |-> "freed"]
    /\ timers = <<>>
    /\ tick = TickOff
    /\ irq = "off"
    /\ tokens = [s \in Semas |-> 0]

-----------------------------------------------------------------------------
(* Who may take a step. *)

InThread(t) == started /\ current = t /\ tick.at = "off" /\ irq = "off"
At(t, point) == InThread(t) /\ call[t].at = point
\* The application code of a thread calls the kernel; idle never does.
Calling(t) == At(t, "app") /\ t # Idle
Goto(t, point) == call' = [call EXCEPT ![t].at = point]
Return(t)      == call' = [call EXCEPT ![t] = App]

-----------------------------------------------------------------------------
(* The scheduler. *)

\* Mutant: the comparison of the priorities is turned round.
PreemptsLower(new, cur, inTick) == new # cur /\ Prio[new] > Prio[cur]

\* May the head of the ready queue take the core from the current thread?
Preempts(new, cur, inTick) ==
    /\ new # cur
    /\ IF inTick THEN Prio[new] <= Prio[cur] ELSE Prio[new] < Prio[cur]

SwitchTo(new) ==
    /\ current' = new
    /\ state' = [t \in Threads |-> CASE t = new     -> "RUNNING"
                                     [] t = current /\ t # new -> "READY"
                                     [] OTHER       -> state[t]]

\* The current thread suspended itself: the head of the queue, which may be
\* the same thread, woken in the meantime, gets the core.
SwitchFromSuspended ==
    /\ state[current] = "SUSPEND"
    /\ ready' = Pop(ready)
    /\ SwitchTo(Foremost(ready))

\* Mutant: the preempted thread is not put back on the ready queue.
PreemptForgets(inTick) ==
    /\ state[current] # "SUSPEND"
    /\ Foremost(ready) # NULL
    /\ Preempts(Foremost(ready), current, inTick)
    /\ ready' = Pop(ready)
    /\ SwitchTo(Foremost(ready))

\* The current thread can go on, but the head of the queue goes first.
Preempt(inTick) ==
    /\ state[current] # "SUSPEND"
    /\ Foremost(ready) # NULL
    /\ Preempts(Foremost(ready), current, inTick)
    /\ ready' = PushIfRoom(Pop(ready), current)
    /\ SwitchTo(Foremost(ready))

\* The current thread goes on: the TCB that was popped is pushed back.
KeepCurrent(inTick) ==
    /\ state[current] # "SUSPEND"
    /\ Foremost(ready) # NULL => ~Preempts(Foremost(ready), current, inTick)
    /\ ready' = IF Foremost(ready) = NULL THEN ready
                ELSE PushIfRoom(Pop(ready), Foremost(ready))
    /\ UNCHANGED <<current, state>>

Scheduler(inTick) ==
    SwitchFromSuspended \/ Preempt(inTick) \/ KeepCurrent(inTick)

\* A thread leaves a kernel call through the scheduler.  One that suspended
\* itself in acquire finds its wake status behind it.
Reschedule(t) ==
    /\ InThread(t)
    /\ call[t].at \in {"resched", "suspended"}
    /\ Scheduler(FALSE)
    /\ IF call[t].at = "suspended" THEN Goto(t, "woken") ELSE Return(t)
    /\ UNCHANGED <<started, wake, timerOf, semaVars, timers, isrVars>>

-----------------------------------------------------------------------------
(* Kernel start and thread creation. *)

\* The first thread of a priority makes its FIFO, and only then is it READY.
NewState(t) ==
    IF \E u \in Threads : state[u] # "NONE" /\ Prio[u] = Prio[t]
    THEN "INVALID" ELSE "READY"

Enqueue(t) ==
    /\ state[t] = "NONE"
    /\ HasRoom(ready, t)                \* else no thread is created
    /\ ready' = Push(ready, t)
    /\ state' = [state EXCEPT ![t] = NewState(t)]
    /\ UNCHANGED <<started, current, wake, timerOf, semaVars, timers, isrVars>>

CreateBeforeStart(t) == ~started /\ Enqueue(t) /\ UNCHANGED call

\* Mutant: the creator goes on without a look at the scheduler.
ThreadCreateQuietly(t, new) == Calling(t) /\ Enqueue(new) /\ UNCHANGED call

ThreadCreate(t, new) == Calling(t) /\ Enqueue(new) /\ Goto(t, "resched")

\* The first thread runs, with thread_state as it was.
KernelStart ==
    /\ ~started
    /\ started' = TRUE
    /\ current' = Foremost(ready)
    /\ ready' = Pop(ready)
    /\ UNCHANGED <<tcbVars, call, semaVars, timers, isrVars>>

-----------------------------------------------------------------------------
(* The timer group, as the kernel uses it. *)

LiveBlocks == {timers[i].id : i \in DOMAIN timers}

\* timer_create_new: a block of the heap, the last place in the table.
NewTimer(t, kind, s, n) ==
    /\ Len(timers) < TimerCap
    /\ \E b \in Blocks \ LiveBlocks :
        /\ timers' = Append(timers, [id |-> b, kind |-> kind, tcb |-> t,
                                     sema |-> s, cnt |-> n])
        /\ timerOf' = [timerOf EXCEPT ![t] = b]

\* timer_delete, given the timer that holds the index.
Without(id) == RemoveFirstMatch(timers, LAMBDA e : e.id = id)

-----------------------------------------------------------------------------
(* sugar_delay_tick *)

DelayTick(t, n) ==
    /\ Calling(t)
    /\ state' = [state EXCEPT ![t] = "SUSPEND"]
    /\ NewTimer(t, "delay", NULL, n)
    /\ Goto(t, "resched")
    /\ UNCHANGED <<started, current, ready, wake, semaVars, isrVars>>

\* No timer is to be had: the call returns, and the thread stays SUSPEND.
DelayTickNoTimer(t) ==
    /\ Calling(t)
    /\ Len(timers) = TimerCap
    /\ state' = [state EXCEPT ![t] = "SUSPEND"]
    /\ UNCHANGED <<started, current, ready, wake, timerOf, call, semaVars,
                   timers, isrVars>>

-----------------------------------------------------------------------------
(* sugar_sema_create, sugar_sema_acquire *)

\* Bound: the name of a destroyed semaphore is used again only when no call on
\* the old one is under way any more.
SemaCreate(s, n) ==
    /\ ~started \/ \E t \in Threads : Calling(t)
    /\ phase[s] = "freed"
    /\ \A t \in Threads : call[t].sema # s
    /\ phase' = [phase EXCEPT ![s] = "live"]
    /\ count' = [count EXCEPT ![s] = n]
    /\ tokens' = [tokens EXCEPT ![s] = n]
    /\ waiting' = [waiting EXCEPT ![s] = EmptyQueue]
    /\ UNCHANGED <<started, current, ready, tcbVars, call, timers, isrVars>>

\* Count is non-zero: taken at once.  (With SUGAR_WAIT_NONE and count zero,
\* RTE_ERR_TRY_LATER is returned and nothing changes.)
TakeCount(s) ==
    /\ phase[s] = "live"
    /\ count[s] > 0
    /\ count' = [count EXCEPT ![s] = @ - 1]
    /\ tokens' = [tokens EXCEPT ![s] = @ - 1]
    /\ UNCHANGED <<waiting, phase>>

SemaAcquire(t, s) ==
    /\ Calling(t)
    /\ TakeCount(s)
    /\ UNCHANGED <<started, current, ready, tcbVars, call, timers, isrVars>>

SemaAcquireWait(t, s, n) ==
    /\ Calling(t)
    /\ phase[s] = "live" /\ count[s] = 0
    /\ waiting' = [waiting EXCEPT ![s] = Push(@, t)]
    /\ state' = [state EXCEPT ![t] = "SUSPEND"]
    /\ \/ /\ n = Forever
          /\ timerOf' = [timerOf EXCEPT ![t] = NULL]
          /\ UNCHANGED timers
       \/ /\ n # Forever
          /\ NewTimer(t, "sema", s, n)
    /\ call' = [call EXCEPT ![t].at = "suspended", ![t].sema = s]
    /\ UNCHANGED <<started, current, ready, wake, count, phase, tokens, isrVars>>

\* Mutant: the error path leaves the thread on the wait list.
SemaAcquireNoTimerStays(t, s) ==
    /\ Calling(t)
    /\ phase[s] = "live" /\ count[s] = 0
    /\ Len(timers) = TimerCap
    /\ waiting' = [waiting EXCEPT ![s] = Push(@, t)]
    /\ state' = [state EXCEPT ![t] = "RUNNING"]
    /\ timerOf' = [timerOf EXCEPT ![t] = NULL]
    /\ UNCHANGED <<started, current, ready, wake, call, count, phase, tokens,
                   timers, isrVars>>

\* No timer is to be had: the wait is undone and an error returned.
SemaAcquireNoTimer(t, s) ==
    /\ Calling(t)
    /\ phase[s] = "live" /\ count[s] = 0
    /\ Len(timers) = TimerCap
    /\ waiting' = [waiting EXCEPT ![s] = Take(Push(@, t), t)]
    /\ state' = [state EXCEPT ![t] = "RUNNING"]
    /\ timerOf' = [timerOf EXCEPT ![t] = NULL]
    /\ UNCHANGED <<started, current, ready, wake, call, count, phase, tokens,
                   timers, isrVars>>

\* The thread runs again and returns what it was woken with.
SemaAcquireReturn(t) ==
    /\ At(t, "woken")
    /\ tokens' = IF wake[t] = "OK" THEN [tokens EXCEPT ![call[t].sema] = @ - 1]
                 ELSE tokens
    /\ Return(t)
    /\ UNCHANGED <<started, current, ready, tcbVars, count, waiting, phase,
                   timers, isrVars>>

-----------------------------------------------------------------------------
(* sugar_sema_give, by a thread or a device interrupt. *)

\* Mutant: give does not cancel the timeout of the thread it wakes.
HandOverKeepsTimer(s, t) ==
    /\ phase[s] = "live"
    /\ ~IsEmpty(waiting[s]) /\ t = Foremost(waiting[s])
    /\ HasRoom(ready, t)
    /\ waiting' = [waiting EXCEPT ![s] = Pop(@)]
    /\ ready' = Push(ready, t)
    /\ wake' = [wake EXCEPT ![t] = "OK"]
    /\ tokens' = [tokens EXCEPT ![s] = @ + 1]
    /\ UNCHANGED <<started, current, state, timerOf, timers, count, phase>>

\* Mutant: give counts up as well as waking a thread.
HandOverAndCount(s, t) ==
    /\ phase[s] = "live" /\ count[s] # MaxCount
    /\ ~IsEmpty(waiting[s]) /\ t = Foremost(waiting[s])
    /\ HasRoom(ready, t)
    /\ waiting' = [waiting EXCEPT ![s] = Pop(@)]
    /\ ready' = Push(ready, t)
    /\ wake' = [wake EXCEPT ![t] = "OK"]
    /\ timers' = IF timerOf[t] = NULL THEN timers ELSE Without(timerOf[t])
    /\ tokens' = [tokens EXCEPT ![s] = @ + 1]
    /\ count' = [count EXCEPT ![s] = @ + 1]
    /\ UNCHANGED <<started, current, state, timerOf, phase>>

\* The head of the wait list is handed the token: ready, its timer deleted.
\* suspend_timer is left as it is.
HandOver(s, t) ==
    /\ phase[s] = "live"
    /\ ~IsEmpty(waiting[s])
    /\ t = Foremost(waiting[s])
    /\ waiting' = [waiting EXCEPT ![s] = Pop(@)]
    /\ IF HasRoom(ready, t)
       THEN /\ ready' = Push(ready, t)
            /\ wake' = [wake EXCEPT ![t] = "OK"]
            /\ timers' = IF timerOf[t] = NULL THEN timers ELSE Without(timerOf[t])
            /\ tokens' = [tokens EXCEPT ![s] = @ + 1]
       ELSE UNCHANGED <<ready, wake, timers, tokens>>
    /\ UNCHANGED <<started, current, state, timerOf, count, phase>>

\* Mutant: the overflow check is missing.
IncrementAnyway(s) ==
    /\ phase[s] = "live"
    /\ IsEmpty(waiting[s])
    /\ count' = [count EXCEPT ![s] = @ + 1]
    /\ tokens' = [tokens EXCEPT ![s] = @ + 1]
    /\ UNCHANGED <<started, current, ready, tcbVars, waiting, phase, timers>>

\* Nobody waits: the count goes up, unless it would overflow.
Increment(s) ==
    /\ phase[s] = "live"
    /\ IsEmpty(waiting[s])
    /\ count[s] # MaxCount
    /\ count' = [count EXCEPT ![s] = @ + 1]
    /\ tokens' = [tokens EXCEPT ![s] = @ + 1]
    /\ UNCHANGED <<started, current, ready, tcbVars, waiting, phase, timers>>

\* A thread that woke another calls the scheduler; not if the push failed.
SemaGive(t, s) ==
    /\ Calling(t)
    /\ \/ /\ \E w \in Threads : HandOver(s, w)
          /\ IF HasRoom(ready, Foremost(waiting[s]))
             THEN Goto(t, "resched") ELSE UNCHANGED call
       \/ Increment(s) /\ UNCHANGED call
    /\ UNCHANGED isrVars

-----------------------------------------------------------------------------
(* sugar_sema_destroy.  Nothing in the code keeps users away from a         *)
(* semaphore that is being destroyed; here they keep away from the call on. *)

SemaDestroy(t, s) ==
    /\ Calling(t)
    /\ phase[s] = "live"
    /\ phase' = [phase EXCEPT ![s] = "dying"]
    /\ call' = [call EXCEPT ![t].at = "destroying", ![t].sema = s]
    /\ UNCHANGED <<started, current, ready, tcbVars, count, waiting, tokens,
                   timers, isrVars>>

\* Mutant: destroy forgets the timer it ought to delete.
SemaDestroyWakeKeepsTimer(t) ==
    LET s == call[t].sema
        w == Foremost(waiting[s]) IN
    /\ At(t, "destroying")
    /\ w # NULL /\ HasRoom(ready, w)
    /\ waiting' = [waiting EXCEPT ![s] = Pop(@)]
    /\ wake' = [wake EXCEPT ![w] = "DELETED"]
    /\ ready' = Push(ready, w)
    /\ timerOf' = [timerOf EXCEPT ![w] = NULL]
    /\ call' = [call EXCEPT ![t].woke = TRUE]
    /\ UNCHANGED <<started, current, state, timers, count, phase, tokens, isrVars>>

\* One turn of the loop: one waiting thread is woken, in one critical section.
SemaDestroyWake(t) ==
    LET s == call[t].sema
        w == Foremost(waiting[s]) IN
    /\ At(t, "destroying")
    /\ w # NULL
    /\ waiting' = [waiting EXCEPT ![s] = Pop(@)]
    /\ wake' = [wake EXCEPT ![w] = "DELETED"]
    /\ IF HasRoom(ready, w)
       THEN /\ ready' = Push(ready, w)
            /\ timers' = IF timerOf[w] = NULL THEN timers ELSE Without(timerOf[w])
            /\ timerOf' = [timerOf EXCEPT ![w] = NULL]
            /\ call' = [call EXCEPT ![t].woke = TRUE]
       ELSE Goto(t, "freeing") /\ UNCHANGED <<ready, timers, timerOf>>
    /\ UNCHANGED <<started, current, state, count, phase, tokens, isrVars>>

\* Mutant: the loop ends after any turn.
SemaDestroyStopsEarly(t) ==
    /\ At(t, "destroying")
    /\ Goto(t, "freeing")
    /\ UNCHANGED <<started, current, ready, tcbVars, semaVars, timers, isrVars>>

SemaDestroyNoMore(t) ==
    /\ At(t, "destroying")
    /\ Foremost(waiting[call[t].sema]) = NULL
    /\ Goto(t, "freeing")
    /\ UNCHANGED <<started, current, ready, tcbVars, semaVars, timers, isrVars>>

\* Mutant: destroy returns without calling the scheduler.
SemaDestroyFreeQuietly(t) ==
    /\ At(t, "freeing")
    /\ phase' = [phase EXCEPT ![call[t].sema] = "freed"]
    /\ Return(t)
    /\ UNCHANGED <<started, current, ready, tcbVars, count, waiting, tokens,
                   timers, isrVars>>

\* Memory is released; the scheduler is called only if somebody was woken.
SemaDestroyFree(t) ==
    /\ At(t, "freeing")
    /\ phase' = [phase EXCEPT ![call[t].sema] = "freed"]
    /\ IF call[t].woke THEN Goto(t, "resched") ELSE Return(t)
    /\ UNCHANGED <<started, current, ready, tcbVars, count, waiting, tokens,
                   timers, isrVars>>

-----------------------------------------------------------------------------
(* Interrupts.  A device interrupt runs with higher urgency than the tick   *)
(* if Nested; sugar_interrupt_enter, its handler and sugar_interrupt_exit   *)
(* are two steps.                                                           *)

DeviceMayInterrupt == started /\ irq = "off" /\ (tick.at = "off" \/ Nested)

IrqGive(s) ==
    /\ DeviceMayInterrupt
    /\ (\E w \in Threads : HandOver(s, w)) \/ Increment(s)
    /\ irq' = "exit"
    /\ UNCHANGED <<call, tick>>

\* Acquire with SUGAR_WAIT_NONE; any other timeout is RTE_ERR_BAD_USE.
IrqAcquire(s) ==
    /\ DeviceMayInterrupt
    /\ TakeCount(s)
    /\ irq' = "exit"
    /\ UNCHANGED <<started, current, ready, tcbVars, call, timers, tick>>

IrqExit ==
    /\ irq = "exit"
    /\ Scheduler(FALSE)
    /\ irq' = "off"
    /\ UNCHANGED <<started, wake, timerOf, call, semaVars, timers, tick>>

TickIsAt(point) == tick.at = point /\ irq = "off"

\* Mutant: the countdown stops one short of zero.
TickCountStopsAtOne ==
    /\ started
    /\ TickIsAt("off")
    /\ timers' = [i \in DOMAIN timers |->
                    [timers[i] EXCEPT !.cnt = IF @ <= 1 THEN @ ELSE @ - 1]]
    /\ tick' = [TickOff EXCEPT !.at = "poll"]
    /\ UNCHANGED <<started, current, ready, tcbVars, call, semaVars, irq>>

\* The tick interrupt counts every timer down and turns to the poll.  A nested
\* interrupt may come between any two timers, and the loop goes on by its index.
TickCount ==
    /\ started
    /\ TickIsAt("off") \/ TickIsAt("count")
    /\ \E last \in {Len(timers)} \cup (IF Nested THEN tick.idx .. Len(timers) ELSE {}) :
        /\ timers' = [i \in DOMAIN timers |->
                        IF i \in tick.idx .. last /\ timers[i].cnt # 0
                        THEN [timers[i] EXCEPT !.cnt = @ - 1] ELSE timers[i]]
        /\ tick' = IF last = Len(timers) THEN [TickOff EXCEPT !.at = "poll"]
                   ELSE [TickOff EXCEPT !.at = "count", !.idx = last + 1]
    /\ UNCHANGED <<started, current, ready, tcbVars, call, semaVars, irq>>

\* The poll looks at one timer: one that has run down is called back.
PollTimer ==
    /\ TickIsAt("poll")
    /\ tick.idx <= Len(timers)
    /\ LET v == timers[tick.idx] IN
       tick' = IF v.cnt = 0 THEN [tick EXCEPT !.at = "callback", !.timer = v]
               ELSE [tick EXCEPT !.idx = @ + 1]
    /\ UNCHANGED <<started, current, ready, tcbVars, call, semaVars, timers, irq>>

\* Mutant: the timeout leaves the thread on the wait list.
CallbackLeavesWaiter ==
    LET v == tick.timer IN
    /\ TickIsAt("callback")
    /\ timerOf' = [timerOf EXCEPT ![v.tcb] = NULL]
    /\ ready' = PushIfRoom(ready, v.tcb)
    /\ wake' = IF v.kind = "sema" THEN [wake EXCEPT ![v.tcb] = "TIMEOUT"] ELSE wake
    /\ tick' = [tick EXCEPT !.at = "delete"]
    /\ UNCHANGED <<started, current, state, call, count, phase, tokens, waiting,
                   timers, irq>>

\* The callbacks: sugar_tcb_scheduler_timer, and sugar_sema_timer, which also
\* takes the thread off the wait list.  thread_state is not touched.
Callback ==
    LET v == tick.timer IN
    /\ TickIsAt("callback")
    /\ timerOf' = [timerOf EXCEPT ![v.tcb] = NULL]
    /\ ready' = PushIfRoom(ready, v.tcb)
    /\ IF v.kind = "sema"
       THEN /\ wake' = [wake EXCEPT ![v.tcb] = "TIMEOUT"]
            /\ waiting' = [waiting EXCEPT ![v.sema] = Take(@, v.tcb)]
       ELSE UNCHANGED <<wake, waiting>>
    /\ tick' = [tick EXCEPT !.at = "delete"]
    /\ UNCHANGED <<started, current, state, call, count, phase, tokens, timers, irq>>

\* Mutant: the timer that has fired stays in the table.
DeleteTimerNot ==
    /\ TickIsAt("delete")
    /\ tick' = [TickOff EXCEPT !.at = "poll", !.idx = tick.idx + 1]
    /\ UNCHANGED <<started, current, ready, tcbVars, call, semaVars, timers, irq>>

\* The timer, which does not reload, is deleted.  The loop's index moves on
\* although the next timer has moved up: that one is not looked at.  If a nested
\* interrupt has freed the timer, what is read in it names any timer or none.
DeleteTimer ==
    /\ TickIsAt("delete")
    /\ \/ timers' = Without(tick.timer.id)
       \/ /\ tick.timer.id \notin LiveBlocks
          /\ \E b \in LiveBlocks : timers' = Without(b)
    /\ tick' = [TickOff EXCEPT !.at = "poll", !.idx = tick.idx + 1]
    /\ UNCHANGED <<started, current, ready, tcbVars, call, semaVars, irq>>

TickExit ==
    /\ TickIsAt("poll")
    /\ tick.idx > Len(timers)
    /\ Scheduler(TRUE)
    /\ tick' = TickOff
    /\ UNCHANGED <<started, wake, timerOf, call, semaVars, timers, irq>>

-----------------------------------------------------------------------------

Boot ==
    \/ \E t \in Threads : CreateBeforeStart(t)
    \/ KernelStart

ThreadStep(t) ==
    \/ \E new \in Threads : ThreadCreate(t, new)
    \/ \E n \in 1 .. MaxTicks : DelayTick(t, n)
    \/ DelayTickNoTimer(t)
    \/ \E s \in Semas : SemaAcquire(t, s)
    \/ \E s \in Semas, n \in (1 .. MaxTicks) \cup {Forever} : SemaAcquireWait(t, s, n)
    \/ \E s \in Semas : SemaAcquireNoTimer(t, s)
    \/ SemaAcquireReturn(t)
    \/ \E s \in Semas : SemaGive(t, s)
    \/ \E s \in Semas : SemaDestroy(t, s)
    \/ SemaDestroyWake(t)
    \/ SemaDestroyNoMore(t)
    \/ SemaDestroyFree(t)
    \/ Reschedule(t)

Tick == TickCount \/ PollTimer \/ Callback \/ DeleteTimer \/ TickExit
Irq  == (\E s \in Semas : IrqGive(s) \/ IrqAcquire(s)) \/ IrqExit

Next ==
    \/ Boot
    \/ \E t \in Threads : ThreadStep(t)
    \/ \E s \in Semas, n \in 0 .. MaxCount : SemaCreate(s, n)
    \/ Tick
    \/ Irq

Spec == Init /\ [][Next]_vars

-----------------------------------------------------------------------------
(* Properties. *)

\* Every variable, and every field of the kernel's records, has its type.
TypeOK ==
    /\ started \in BOOLEAN
    /\ current \in Threads \cup {NULL}
    /\ ready \in PriorQueue
    /\ state \in [Threads -> {"NONE", "INVALID", "READY", "RUNNING", "SUSPEND"}]
    /\ wake \in [Threads -> {"INVALID", "OK", "DELETED", "TIMEOUT"}]
    /\ timerOf \in [Threads -> Blocks \cup {NULL}]
    /\ call \in [Threads -> Calls]
    /\ count \in [Semas -> 0 .. MaxCount]
    /\ waiting \in [Semas -> PriorQueue]
    /\ phase \in [Semas -> {"live", "dying", "freed"}]
    /\ timers \in Seq(TimerRecord)
    /\ tick \in [at : TickPoints, idx : Nat \ {0}, timer : TimerRecord \cup {NoTimer}]
    /\ irq \in {"off", "exit"}
    /\ tokens \in [Semas -> Int]

Waits(t, s) == Queued(waiting[s], t)
HasTimer(t, kind) ==
    \E i \in DOMAIN timers : timers[i].tcb = t /\ timers[i].kind = kind
\* A delay's timer still stands in the table while its callback has been run.
Delayed(t) ==
    \E i \in DOMAIN timers :
        /\ timers[i].tcb = t /\ timers[i].kind = "delay"
        /\ ~(tick.at = "delete" /\ tick.timer = timers[i])

\* The places where a created thread can be; a thread that suspended itself
\* is still `current' until the scheduler is called.
Suspending(t) == current = t /\ state[t] = "SUSPEND"
Places(t) ==
      (IF current = t /\ ~Suspending(t) THEN {"current"} ELSE {})
    \cup (IF Queued(ready, t) THEN {"ready"} ELSE {})
    \cup {s \in Semas : Waits(t, s)}
    \cup (IF Delayed(t) THEN {"delayed"} ELSE {})

\* "Once a thread is scheduled in, it is not present on the ready queue or any
\* other kernel queue while it is running" (sugar_kernel.h:101), nor is any
\* thread on two of them: sugar_sema_give, sugar_sema_destroy and the timer
\* callbacks never make the same thread ready twice.
AtMostOnePlace ==
    /\ \A t \in Threads : Cardinality(Places(t)) <= 1
    /\ WellFiled(ready)
    /\ \A s \in Semas : WellFiled(waiting[s])

\* No thread is lost: one that was created has the core, is ready, waits or
\* sleeps, at every interleaving of kernel calls and interrupts
\* (sugar_kernel.h:101-106).
NoThreadLost == \A t \in Threads : state[t] # "NONE" => current = t \/ Places(t) # {}

\* "There will always be at least the idle thread waiting" when the scheduler
\* takes the next thread (sugar_scheduler.c:130): the core is never given to
\* nobody.
AlwaysAThread ==
    /\ started => current \in Threads
    /\ current = Idle \/ Queued(ready, Idle)

\* The cached priority of the ready queue and of every wait list names the
\* highest priority that has a TCB, so that pop never misses one.
CachesAreRight ==
    /\ HighestIsRight(ready)
    /\ \A s \in Semas : HighestIsRight(waiting[s])

\* With no interrupt and no kernel call under way, the core is with a thread
\* of the highest priority: every path that makes a thread ready reaches the
\* scheduler (sugar_sema_give, sugar_interrupt_exit, sugar_thread_create).
NoPriorityInversion ==
    \A t \in Threads :
        At(t, "app") => \A u \in Threads :
                            Queued(ready, u) => Prio[t] <= Prio[u]

\* A thread waits only while the count is zero: give hands over instead of
\* counting up, and acquire does not overtake.
NoWaiterWhileCount ==
    \A s \in Semas : phase[s] # "freed" =>
        count[s] = 0 \/ IsEmpty(waiting[s])

\* A woken thread on its way out of acquire holds the token it was handed.
Holders(s) == {t \in Threads : /\ call[t].at \in {"suspended", "woken"}
                               /\ call[t].sema = s
                               /\ wake[t] = "OK"
                               /\ ~Waits(t, s)}

\* No token is lost or made twice: what was put into a live semaphore and not
\* yet taken is its count and the tokens handed over (sugar_sema.c:338-353).
TokensConserved ==
    \A s \in Semas : phase[s] = "live" =>
        tokens[s] = count[s] + Cardinality(Holders(s))

\* A timed wait has exactly one timer, the one suspend_timer points at, and a
\* timer of a wait has a waiting thread: give and destroy cancel the timeout of
\* the thread they wake, so that none fires for a thread that has gone on.
TimersMatchWaits ==
    /\ \A i, j \in DOMAIN timers :
         timers[i].id = timers[j].id \/ timers[i].tcb = timers[j].tcb => i = j
    /\ \A i \in DOMAIN timers :
         LET v == timers[i] IN
         \/ tick.at = "delete" /\ tick.timer = v
         \/ timerOf[v.tcb] = v.id /\ (v.kind = "sema" => Waits(v.tcb, v.sema))
    /\ \A t \in Threads, s \in Semas :
         Waits(t, s) /\ timerOf[t] # NULL => HasTimer(t, "sema")

\* Nobody is left waiting on a semaphore whose memory is released, and no
\* timer still refers to it.
NothingLeftOnFreed ==
    \A s \in Semas : phase[s] = "freed" =>
        /\ IsEmpty(waiting[s])
        /\ \A i \in DOMAIN timers : timers[i].kind = "sema" =>
               timers[i].sema # s \/ (tick.at = "delete" /\ tick.timer = timers[i])

\* The status of a thread changes only in the step that takes it off a wait
\* list: no late timeout overwrites what a give or a destroy has set.
WokenOnce ==
    [][\A t \in Threads : wake'[t] # wake[t] =>
          \E s \in Semas : Waits(t, s) /\ ~Waits(t, s)']_vars

\* "Where there are multiple threads of the same priority, the TCB pointers are
\* FIFO-ordered" (sugar_kernel.h:91-92), and "Round-robin is only performed on
\* timer ticks" (sugar_scheduler.c:97): ready threads of one priority keep
\* their order while they are ready.
Ahead(q, t, u) ==
    \E i, j \in DOMAIN q.fifo[Prio[t]] :
        i < j /\ q.fifo[Prio[t]][i] = t /\ q.fifo[Prio[t]][j] = u
ReadyOrderKept ==
    [][\A t, u \in Threads :
          Ahead(ready, t, u) /\ Queued(ready', t) => ~Ahead(ready', u, t)]_vars

-----------------------------------------------------------------------------
(* Liveness. *)

\* main starts the kernel, and then the hardware goes on: the tick interrupt,
\* which a storm of device interrupts does not keep out for ever, and the end of
\* a device interrupt.  A thread that has the core and is inside a kernel call
\* goes on with it; application code need never call the kernel again.
InCall(t) ==
    \/ Reschedule(t) \/ SemaAcquireReturn(t)
    \/ SemaDestroyWake(t) \/ SemaDestroyNoMore(t) \/ SemaDestroyFree(t)

Fairness ==
    /\ WF_vars(KernelStart)
    /\ SF_vars(Tick)
    /\ WF_vars(IrqExit)
    /\ \A t \in Threads : WF_vars(InCall(t))

FairSpec == Spec /\ Fairness

\* A wait with a timeout ends, although the poll skips the timer behind one
\* that it deletes (rte_timer.c:208-218).
TimedWaitEnds ==
    \A t \in Threads, s \in Semas :
        (Waits(t, s) /\ timerOf[t] # NULL) ~> ~Waits(t, s)

\* A thread that sleeps is made ready (sugar_tcb_scheduler_timer).
SleepEnds == \A t \in Threads : Delayed(t) ~> ~Delayed(t)

\* A ready thread of higher priority than every other gets the core, whoever
\* made it ready and in whatever context.
Urgent(t) == \A u \in Threads \ {t} : Prio[t] < Prio[u]
MostUrgentRuns ==
    \A t \in Threads : Urgent(t) => (Queued(ready, t) ~> current = t)
=============================================================================
