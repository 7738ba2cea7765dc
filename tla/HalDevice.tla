----------------------------- MODULE HalDevice -----------------------------
(***************************************************************************)
(* A device of the hardware abstraction layer: hal_device_read/write_sync  *)
(* and _async (hal/src/hal.c), the driver below them (hal_com_stm32h7.c,   *)
(* hal_spi_stm32h7.c) and the interrupts of the vendor's library that      *)
(* answer it: at the end of a transfer, at half of it where the library    *)
(* receives by DMA until the line is idle, or never.                       *)
(*                                                                         *)
(* The build chooses how a call locks and waits (hal.h):                   *)
(*   "os"     a mutex; a semaphore of at most one token per direction      *)
(*   "sugar"  no mutex; semaphores of the Sugar kernel                     *)
(*   "none"   no mutex, one thread; a flag that the caller polls           *)
(* The semaphores are those of SugarKernel, or the RTOS's, reduced to      *)
(* their count; without a mutex each direction has one thread of its own.  *)
(***************************************************************************)
EXTENDS Integers, FiniteSets

CONSTANTS
    Threads,
    Main,       \* the only thread there is without a kernel
    Ops,        \* the directions: tx and rx
    Rx,         \* those of them that receive
    UserOf,     \* the thread that a direction belongs to if there is no mutex
    NULL,
    Timeouts,   \* what callers allow, in ticks
    TickMod     \* the tick counter's modulus (TIME_MAX_DELAY + 1)

ASSUME HalAssumption ==
    /\ Rx \subseteq Ops
    /\ Main \in Threads /\ UserOf \in [Ops -> Threads] /\ NULL \notin Threads
    /\ TickMod \in Nat \ {0}
    /\ \A n \in Timeouts : n \in Nat /\ n + 2 < TickMod

VARIABLES
    build,      \* how calls lock and wait
    aborts,     \* a com driver, which aborts what timed out; spi drivers do not
    byDma,      \* a com driver that receives by DMA (if_recv_enable_dma)
    now,        \* rte_get_tick
    mutex,      \* who has device->mutex
    token,      \* count of rx_sema and tx_sema, or if_rx_ready and if_tx_ready
    hw,         \* the transfer that the peripheral runs in each direction
    th          \* where each thread is in its call

(* History, for the properties only. *)
VARIABLES
    age,        \* the ticks that a call's look at the clock should find
    expired,    \* directions in which a wait has timed out
    strayed,    \* directions in which a transfer has started on a token
    halved      \* directions in which a call has ended well at half its transfer

history == <<age, expired, strayed, halved>>
vars == <<build, aborts, byDma, now, mutex, token, hw, th, history>>

AtHome == [at |-> "app", op |-> NULL, mode |-> NULL, since |-> 0, left |-> 0,
           own |-> "none", early |-> FALSE]

HasMutex == build = "os"
Runs(op) == hw[op] # NULL /\ hw[op].state = "running"

\* The vendor keeps a state for each direction of a UART, and one of an SPI.
Free(op) ==
    IF aborts THEN hw[op] = NULL
    ELSE /\ \A o \in Ops : hw[o] = NULL
         /\ \A t \in Threads : th[t].at # "blocking"

InDriver == {"locked", "driver", "prepared", "blocking", "waiting", "late", "done", "failed"}
OnTheClock == {"locking", "locked", "waiting", "blocking"}

Init ==
    /\ build \in {"os", "sugar", "none"}
    /\ aborts \in BOOLEAN /\ byDma \in BOOLEAN /\ (byDma => aborts)
    /\ now = 0 /\ mutex = NULL
    /\ token = [op \in Ops |-> 0]
    /\ hw = [op \in Ops |-> NULL]
    /\ th = [t \in Threads |-> AtHome]
    /\ age = [t \in Threads |-> 0] /\ expired = {} /\ strayed = {} /\ halved = {}

\* A bug the checks look for: the step over the wrap itself is not counted.
TimeConsumeWithoutWrap(prev) == IF now >= prev THEN now - prev ELSE TickMod - 1 - prev + now

\* rte_time_consume
TimeConsume(prev) == IF now >= prev THEN now - prev ELSE TickMod - prev + now

Goes(t, at) == th' = [th EXCEPT ![t].at = at]

-----------------------------------------------------------------------------
(***************************************************************************)
(* hal_device_read_sync, _write_sync, _read_async and _write_async.        *)
(***************************************************************************)

Call(t, op, mode, timeout) ==
    /\ th[t].at = "app"
    /\ build = "none" => t = Main
    /\ build = "sugar" => t = UserOf[op]
    /\ th' = [th EXCEPT ![t] = [AtHome EXCEPT !.at = "locking", !.op = op, !.mode = mode,
                                              !.since = now, !.left = timeout]]
    /\ age' = [age EXCEPT ![t] = 0]
    /\ UNCHANGED <<build, aborts, byDma, now, mutex, token, hw, expired, strayed, halved>>

\* rte_try_lock: no mutex is no obstacle.
Lock(t) ==
    /\ th[t].at = "locking"
    /\ IF HasMutex THEN mutex = NULL /\ mutex' = t ELSE UNCHANGED mutex
    /\ Goes(t, "locked")
    /\ UNCHANGED <<build, aborts, byDma, now, token, hw, history>>

LockTimeout(t) ==
    /\ th[t].at = "locking" /\ HasMutex /\ mutex # NULL
    /\ TimeConsume(th[t].since) >= th[t].left
    /\ th' = [th EXCEPT ![t] = AtHome]
    /\ UNCHANGED <<build, aborts, byDma, now, mutex, token, hw, history>>

\* A bug the checks look for: a call that comes too late keeps the mutex.
CheckTimeKeepsLock(t) ==
    LET consumed == TimeConsume(th[t].since) IN
    /\ th[t].at = "locked"
    /\ IF consumed >= th[t].left
       THEN th' = [th EXCEPT ![t] = AtHome]
       ELSE th' = [th EXCEPT ![t].at = "driver", ![t].left = @ - consumed]
    /\ UNCHANGED <<build, aborts, byDma, now, mutex, token, hw, history>>

\* A bug the checks look for: the time spent is subtracted without a look at it.
CheckTimeUnchecked(t) ==
    /\ th[t].at = "locked"
    /\ th' = [th EXCEPT ![t].at = "driver", ![t].left = @ - TimeConsume(th[t].since)]
    /\ UNCHANGED <<build, aborts, byDma, now, mutex, token, hw, history>>

\* The rest of HAL_DEVICE_TRY_LOCK.
CheckTime(t) ==
    LET consumed == TimeConsume(th[t].since) IN
    /\ th[t].at = "locked"
    /\ IF consumed >= th[t].left
       THEN /\ th' = [th EXCEPT ![t] = AtHome]
            /\ mutex' = IF HasMutex THEN NULL ELSE mutex
       ELSE /\ th' = [th EXCEPT ![t].at = "driver", ![t].left = @ - consumed]
            /\ UNCHANGED mutex
    /\ UNCHANGED <<build, aborts, byDma, now, token, hw, history>>

\* The driver has returned; a transfer that still runs is nobody's.
Return(t) ==
    /\ th[t].at \in {"done", "failed"}
    /\ mutex' = IF HasMutex THEN NULL ELSE mutex
    /\ hw' = [op \in Ops |-> IF hw[op] # NULL /\ hw[op].by = t
                             THEN [hw[op] EXCEPT !.by = NULL] ELSE hw[op]]
    /\ th' = [th EXCEPT ![t] = AtHome]
    /\ UNCHANGED <<build, aborts, byDma, now, token, history>>

-----------------------------------------------------------------------------
(***************************************************************************)
(* The driver.                                                             *)
(***************************************************************************)

\* com_send, com_recv, spi_send, spi_recv: the vendor's call polls.
SyncStart(t) ==
    /\ th[t].at = "driver" /\ th[t].mode = "sync" /\ Free(th[t].op)
    /\ th' = [th EXCEPT ![t].at = "blocking", ![t].since = now]
    /\ age' = [age EXCEPT ![t] = 0]
    /\ UNCHANGED <<build, aborts, byDma, now, mutex, token, hw, expired, strayed, halved>>

\* HAL_BUSY or HAL_ERROR.
SyncRefused(t) ==
    /\ th[t].at = "driver" /\ th[t].mode = "sync"
    /\ Goes(t, "failed")
    /\ UNCHANGED <<build, aborts, byDma, now, mutex, token, hw, history>>

\* HAL_OK or HAL_TIMEOUT.
SyncEnd(t) ==
    /\ th[t].at = "blocking"
    /\ Goes(t, "done")
    /\ UNCHANGED <<build, aborts, byDma, now, mutex, token, hw, history>>

\* A bug the checks look for: the flag is not taken back.
PrepareForgotten(t) ==
    /\ th[t].at = "driver" /\ th[t].mode = "async"
    /\ Goes(t, "prepared")
    /\ UNCHANGED <<build, aborts, byDma, now, mutex, token, hw, history>>

\* hal_device_prepare_wait does nothing for a semaphore.
Prepare(t) ==
    /\ th[t].at = "driver" /\ th[t].mode = "async"
    /\ Goes(t, "prepared")
    /\ token' = IF build = "none" THEN [token EXCEPT ![th[t].op] = 0] ELSE token
    /\ UNCHANGED <<build, aborts, byDma, now, mutex, hw, history>>

\* com_send_async finds no memory for its DMA buffer.
NoBuffer(t) ==
    /\ th[t].at = "driver" /\ th[t].mode = "async" /\ aborts
    /\ Goes(t, "failed")
    /\ UNCHANGED <<build, aborts, byDma, now, mutex, token, hw, history>>

\* The vendor's call takes the transfer, which may find a token.
Start(t) ==
    LET op == th[t].op IN
    /\ th[t].at = "prepared" /\ Free(op)
    /\ hw' = [hw EXCEPT ![op] = [state |-> "running", told |-> FALSE, by |-> t]]
    /\ th' = [th EXCEPT ![t].at = "waiting", ![t].since = now, ![t].own = "running",
                        ![t].early = token[op] = 1]
    /\ strayed' = IF token[op] = 1 THEN strayed \cup {op} ELSE strayed
    /\ age' = [age EXCEPT ![t] = 0]
    /\ UNCHANGED <<build, aborts, byDma, now, mutex, token, expired, halved>>

\* HAL_BUSY, while a transfer runs or is being aborted or the other direction
\* holds __HAL_LOCK, or HAL_ERROR: com drivers do not look and wait all the same.
StartRefused(t) ==
    LET op == th[t].op IN
    /\ th[t].at = "prepared"
    /\ th' = IF aborts THEN [th EXCEPT ![t].at = "waiting", ![t].since = now,
                                       ![t].early = token[op] = 1 \/ Runs(op)]
                       ELSE [th EXCEPT ![t].at = "failed"]
    /\ age' = [age EXCEPT ![t] = 0]
    /\ UNCHANGED <<build, aborts, byDma, now, mutex, token, hw, expired, strayed, halved>>

\* A bug the checks look for: the token stays in the semaphore.
ReadyKeepsToken(t) ==
    /\ th[t].at = "waiting" /\ token[th[t].op] = 1
    /\ Goes(t, "done")
    /\ UNCHANGED <<build, aborts, byDma, now, mutex, token, hw, history>>

\* hal_device_wait_rx_ready, _tx_ready: a semaphore's token is taken, a flag stays.
Ready(t) ==
    /\ th[t].at = "waiting" /\ token[th[t].op] = 1
    /\ token' = IF build = "none" THEN token ELSE [token EXCEPT ![th[t].op] = 0]
    /\ Goes(t, "done")
    /\ halved' = IF th[t].own = "half" THEN halved \cup {th[t].op} ELSE halved
    /\ UNCHANGED <<build, aborts, byDma, now, mutex, hw, age, expired, strayed>>

\* A bug the checks look for: the time of a wait that is up begins anew.
WaitTimeoutAgain(t) ==
    /\ th[t].at = "waiting"
    /\ token[th[t].op] = 0 \/ build = "none"
    /\ TimeConsume(th[t].since) >= th[t].left
    /\ th' = [th EXCEPT ![t].since = now]
    /\ age' = [age EXCEPT ![t] = 0]
    /\ UNCHANGED <<build, aborts, byDma, now, mutex, token, hw, expired, strayed, halved>>

\* Who polls may read the flag just before it is set.
WaitTimeout(t) ==
    /\ th[t].at = "waiting"
    /\ token[th[t].op] = 0 \/ build = "none"
    /\ TimeConsume(th[t].since) >= th[t].left
    /\ Goes(t, "late")
    /\ expired' = expired \cup {th[t].op}
    /\ UNCHANGED <<build, aborts, byDma, now, mutex, token, hw, age, strayed, halved>>

\* A bug the checks look for: com drivers leave the transfer running.
AfterTimeoutUnaborted(t) ==
    /\ th[t].at = "late"
    /\ Goes(t, "failed")
    /\ UNCHANGED <<build, aborts, byDma, now, mutex, token, hw, history>>

\* HAL_UART_AbortTransmit_IT and _AbortReceive_IT: no completion from here on,
\* but the peripheral stays busy until the DMA has stopped.
AfterTimeout(t) ==
    LET op == th[t].op IN
    /\ th[t].at = "late"
    /\ hw' = IF aborts /\ hw[op] # NULL THEN [hw EXCEPT ![op].state = "aborting"] ELSE hw
    /\ Goes(t, "failed")
    /\ UNCHANGED <<build, aborts, byDma, now, mutex, token, history>>

-----------------------------------------------------------------------------
(***************************************************************************)
(* The hardware and the clock.                                             *)
(***************************************************************************)

\* What an interrupt tells the call whose transfer it is.
Tells(op, what) ==
    /\ token' = [token EXCEPT ![op] = 1]
    /\ th' = [t \in Threads |->
                IF t = hw[op].by THEN [th[t] EXCEPT !.own = what] ELSE th[t]]

\* HAL_UART_TxCpltCallback, HAL_SPI_TxCpltCallback, _RxCpltCallback, and
\* HAL_UARTEx_RxEventCallback at the end or at the idle line: hal_device_active.
Complete(op) ==
    /\ Runs(op)
    /\ hw' = [hw EXCEPT ![op] = NULL]
    /\ Tells(op, "complete")
    /\ UNCHANGED <<build, aborts, byDma, now, mutex, history>>

\* HAL_UARTEx_RxEventCallback at half of the buffer, once in a transfer, and
\* the DMA goes on.  (A half that is reached while the DMA is being stopped is told
\* before the call that stops it returns, as if it came just before.)
Half(op) ==
    /\ byDma /\ op \in Rx /\ Runs(op) /\ ~hw[op].told
    /\ hw' = [hw EXCEPT ![op].told = TRUE]
    /\ Tells(op, "half")
    /\ UNCHANGED <<build, aborts, byDma, now, mutex, history>>

\* An error ends the transfer, or a reception of the SPI in full duplex: no
\* callback of theirs is defined in the project.
TransferFails(op) ==
    /\ Runs(op)
    /\ hw' = IF aborts THEN [hw EXCEPT ![op].state = "aborting"] ELSE [hw EXCEPT ![op] = NULL]
    /\ UNCHANGED <<build, aborts, byDma, now, mutex, token, th, history>>

\* A bug the checks look for: the end of an abort counts as a completion.
AbortEndsActivates(op) ==
    /\ hw[op] # NULL /\ hw[op].state = "aborting"
    /\ hw' = [hw EXCEPT ![op] = NULL]
    /\ token' = [token EXCEPT ![op] = 1]
    /\ UNCHANGED <<build, aborts, byDma, now, mutex, th, history>>

\* UART_DMATxOnlyAbortCallback, UART_DMARxOnlyAbortCallback.
AbortEnds(op) ==
    /\ hw[op] # NULL /\ hw[op].state = "aborting"
    /\ hw' = [hw EXCEPT ![op] = NULL]
    /\ UNCHANGED <<build, aborts, byDma, now, mutex, token, th, history>>

\* Waits end at their tick, and a call may be kept from its look at the clock
\* for a tick more: what the counter cannot tell apart does not happen.
Tick ==
    /\ \A t \in Threads : th[t].at \in OnTheClock =>
        age[t] < IF th[t].at = "locked" \/ build = "none" THEN th[t].left + 1 ELSE th[t].left
    /\ now' = (now + 1) % TickMod
    /\ age' = [t \in Threads |-> IF th[t].at \in OnTheClock THEN age[t] + 1 ELSE 0]
    /\ UNCHANGED <<build, aborts, byDma, mutex, token, hw, th, expired, strayed, halved>>

ThreadStep(t) ==
    \/ Lock(t) \/ LockTimeout(t) \/ CheckTime(t) \/ Return(t)
    \/ SyncStart(t) \/ SyncRefused(t) \/ SyncEnd(t)
    \/ Prepare(t) \/ NoBuffer(t) \/ Start(t) \/ StartRefused(t) \/ Ready(t)
    \/ WaitTimeout(t) \/ AfterTimeout(t)

Next ==
    \/ \E t \in Threads, op \in Ops, mode \in {"sync", "async"}, n \in Timeouts :
            Call(t, op, mode, n)
    \/ \E t \in Threads : ThreadStep(t)
    \/ \E op \in Ops : Complete(op) \/ Half(op) \/ TransferFails(op) \/ AbortEnds(op)
    \/ Tick

Spec == Init /\ [][Next]_vars

\* Time passes and threads inside a call get the processor; the hardware need
\* never answer, and nobody need call.
FairSpec == Spec /\ WF_vars(Tick) /\ \A t \in Threads : WF_vars(ThreadStep(t))

-----------------------------------------------------------------------------
(***************************************************************************)
(* Properties.                                                             *)
(***************************************************************************)

\* A transfer in the peripheral, and all that is kept of a call.
Transfers == [state : {"running", "aborting"}, told : BOOLEAN, by : Threads \cup {NULL}]
ThreadStates ==
    [at : InDriver \cup {"app", "locking"}, op : Ops \cup {NULL}, mode : {"sync", "async", NULL},
     since : 0 .. TickMod - 1, left : Nat, own : {"none", "running", "half", "complete"},
     early : BOOLEAN]

\* Every variable keeps its type; a thread inside a call has a direction.
TypeOK ==
    /\ build \in {"os", "sugar", "none"}
    /\ aborts \in BOOLEAN /\ byDma \in BOOLEAN /\ (byDma => aborts)
    /\ now \in 0 .. TickMod - 1
    /\ mutex \in Threads \cup {NULL}
    /\ token \in [Ops -> 0 .. 1]
    /\ hw \in [Ops -> Transfers \cup {NULL}]
    /\ th \in [Threads -> ThreadStates]
    /\ \A t \in Threads : th[t].at # "app" => th[t].op \in Ops
    /\ age \in [Threads -> Nat]
    /\ expired \subseteq Ops /\ strayed \subseteq Ops /\ halved \subseteq Ops

\* With a mutex one thread at a time is in the driver, and the mutex is never
\* left behind: every way out of a call unlocks it, the timeouts included.
OneInDriver ==
    HasMutex => \A t \in Threads : th[t].at \in InDriver <=> mutex = t

\* The driver gets what is left of the caller's time, and the call is given up
\* only when nothing is, also when the tick counter wraps while the thread waits
\* for the mutex.
LeftTimeIsRight ==
    [][\A t \in Threads : th[t].at = "locked" /\ th'[t].at # "locked" =>
        IF th'[t].at = "driver" THEN th'[t].left = th[t].left - age[t] /\ th'[t].left > 0
        ELSE age[t] >= th[t].left]_vars

\* The receptions by DMA of which a call has ended well at the half: nothing
\* else may be the excuse of a transfer that is not complete.
HalfTold == IF byDma THEN halved \cap Rx ELSE {}

\* An asynchronous call reports success only when its own transfer is complete,
\* or at its half if it is a reception by DMA, unless it found a token, or a
\* transfer of a call before it, when it began to wait.
HonestUnlessEarly ==
    \A t \in Threads : th[t].at = "done" /\ th[t].mode = "async" =>
        \/ th[t].own = "complete" \/ th[t].early
        \/ th[t].own = "half" /\ th[t].op \in HalfTold

\* A token is left behind only by a transfer that ended after its caller's wait
\* had timed out, or after its half had been a success already (for a flag,
\* prepare_wait takes it back).
LeftTokenExplained ==
    \A op \in Ops :
        /\ token[op] = 1 /\ build # "none"
        /\ \A t \in Threads : th[t].op = op => th[t].own = "none"
        => op \in expired \cup HalfTold

\* No transfer goes on in a buffer that its caller has freed or taken back: not
\* before a wait of that direction has timed out, and then only where the driver
\* does not abort, or after a start on a token left behind; but for a reception
\* by DMA that was a success at its half.
NoTransferOutlivesCall ==
    \A op \in Ops \ HalfTold : Runs(op) /\ hw[op].by = NULL =>
        op \in expired /\ (~aborts \/ op \in strayed)

\* Without a kernel the com drivers never report success early, however late or
\* never the hardware answers: not when they send or receive by interrupts, and
\* by DMA not before a reception was a success at its half.
BareComIsHonest ==
    build = "none" /\ aborts => \A t \in Threads :
        th[t].at = "done" /\ th[t].mode = "async" /\ th[t].op \notin HalfTold =>
            th[t].own = "complete"

\* Every call ends, even if the hardware never answers and the mutex is busy.
CallsEnd == \A t \in Threads : th[t].at # "app" ~> th[t].at = "app"
=============================================================================
