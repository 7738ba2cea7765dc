# Verification of SL_SDK

SL_SDK is a run-time environment for microcontrollers in C: a small preemptive
kernel ("Sugar"), software timers, containers, a memory allocator, logging, a
shell, and a hardware abstraction layer. This directory holds TLA+ models of
its core logic, TLC configurations that check them on small instances, and
TLAPS proofs of what matters most for every instance. Paths are relative to the
repository, `src/` being its root here.

## 1. Inventory

| component | state | operations | what is hard | what makes it correct |
|---|---|---|---|---|
| **Sugar scheduler** `rte/src/sugar/sugar_scheduler.c` | current thread, ready queue, thread_state, interrupt count | `sugar_scheduler`, `interrupt_enter/exit`, `delay_tick`, delay callback | called from threads, from the tick and from device interrupts; threads between "marked suspended" and "switched out" | every thread in exactly one place; highest priority runs; delays end |
| **Sugar semaphores** `sugar_sema.c` | count, wait list, per-thread timeout and wake status | create, acquire (blocking, timed, polling), give, destroy, timeout callback | give against timeout against destroy; hand-over without counting | tokens conserved, no waiter while a count is left, woken once, nobody left on a freed semaphore |
| **Sugar threads** `sugar_kernel.c` | TCBs, idle thread, started flag | init, start, thread_create, stack check | creation that preempts its creator; the first switch | idle always there |
| **Sugar priority queues** `sugar_prior_vector.c`, `sugar_prior_llist.c` | tree of FIFOs by priority, cached highest priority | push, pop_highest, remove, if_empty | the cache after a remove or a pop | the cache names the highest non-empty FIFO; FIFO within a priority |
| **Software timers** `rte/src/middleware/rte_timer.c` | groups, each a table of timers with indices | init, create_group, create_new, delete, pause, resume, poll, tick_handle | callbacks that create or delete timers; indices that move; deletion during the poll; interrupts during the poll | a timer's index is its place; it fires once, or once per period; none fires after it was deleted |
| **ds_vector** `rte/src/data_structure/` | circular buffer: data, head, length, capacity | push, pop, at, remove by index or value, expand | removal and growth of a wrapped buffer | behaves as a sequence |
| **ds_ringbuffer** | byte ring: head, tail | write and read of length-prefixed messages | wrap inside the length or the message; full against empty | messages come out whole and in order |
| **ds_linklist** | entries, cached cursor, tags, slices | push, pop, insert, remove, move, sort | the cursor after each operation | behaves as a sequence |
| **ds_rbtree** | nodes | add, find, remove, walk | rebalancing | behaves as a map; balanced |
| **ds_hashmap** | buckets, chains of items with a spin lock each, count | set, get, unset, delete, grow, iterate, clear | chains kept across the gap between two locks while others grow the table; the ends of a chain after a removal | behaves as a map; chains never filed over each other |
| **rte_memory** | banks, TLSF control | pool, alloc, calloc, free | third-party allocator; bank without mutex used from interrupts | blocks disjoint |
| **rte_log**, **rte_shell** | levels; line buffer, history, command table | log output, control; read, parse, run | text processing | - |
| **HAL core** `hal/src/hal.c`, `hal/inc/hal.h` | device table; mutex and two semaphores or flags per device | register, open, read, write, wait | the time budget across lock and transfer; late completion of a timed-out transfer | one caller in the driver; when a success is a completed transfer; every call ends |
| **HAL key** `hal/src/hal_key.c` | debounce state per key | create, read, destroy | counters at thresholds | one event per press |
| **HAL drivers** `hal_com_stm32h7.c`, `hal_spi_stm32h7.c` | peripheral handles, DMA buffers | send, receive, asynchronous variants, completion interrupts | abort against completion; a callback at half of a reception | no transfer in a buffer that was given back |
| softbus | - | - | empty stubs | - |
| context switch (`arch/`), vendored RTX, CMSIS, lvgl, flashdb, fal, fastlz, examples | | | assembly, third-party or demo code | - |

How they interact. `SysTick_Handler` calls `timer_tick_handle`
(`example/rte_adapter_metal.c:71`), which counts every timer down and, when the
kernel runs, polls the kernel's timer group between `sugar_interrupt_enter` and
`sugar_interrupt_exit`. Delays and timed waits of threads are timers of this
group; their callbacks put threads on the ready queue; the scheduler, called at
the end of the interrupt or of a kernel call, takes them off. Both queues and
the timer table are built on ds_vector, ds_linklist and ds_rbtree; all memory
is from one bank of rte_memory, in which the kernel's heap has no mutex.

The hazards list of `PROJECT.json` names, line by line, what is hard to test in
this code, and which property is about it.

## 2. Plan

The kernel comes first: it is where interrupts, threads and timers meet, and
where a mistake is hardest to reproduce. In this order:

1. **SugarPriorQueue, SugarKernel** - done (sections 3 to 6).
2. **DsVector** against `BoundedSequence`, **DsRingbuffer** against
   `MessageQueue` - done (sections 3, 4 and 6).
3. **RteTimer**, **HalDevice**, **DsHashmap** - done (sections 3, 4 and 6).
4. **SugarAbstract**: what the kernel promises - a counting semaphore with a
   queue of waiters, and a set of ready threads - which SugarKernel implements
   under a refinement mapping. To do.
5. **DsLinklist** with its cursor; **HalKey**, once its creation works
   (section 7); rte_memory's banks and locks, log control, ds_rbtree if there
   is room. To do.

Every safety property of the passing runs is stated by a theorem of section 6. To
do: the refinement of SugarAbstract, once it is there, and the same for the
modules of point 5.

## 3. Modules

### SugarPriorQueue

A queue is `[fifo, highest]`: the tree as a function from priorities to
sequences, and the cached highest priority. `Push`, `Pop`/`Foremost`, `Take`
and `IsEmpty` are push, pop_highest, remove and if_empty of both C files. The
two files differ only in the bound: a ready FIFO is a vector that does not
expand (`FifoCap`, SUGAR_TCB_FIFO_CAPABILITY), a wait list is unbounded. A
priority without a node in the tree is an empty FIFO. Every operation treats
both alike, except that the first push of a priority sets the TCB's state to
READY; that side effect is in SugarKernel's `NewState`.

### SugarKernel

State: `started`, `current`, `ready` (the kernel handle); `state`, `wake`,
`timerOf` (the TCB's thread_state, suspend_wake_status, suspend_timer); `count`,
`waiting`, `phase` (semaphores, and whether their memory is allocated);
`timers` (the table of the kernel's timer group: block, callback kind, thread,
semaphore, CNT); `call` (where each thread is inside a kernel call), `tick` and
`irq` (where the interrupts are). `tokens` is the one auxiliary variable: puts
minus completed gets.

Grain. `arch_critical_enter` masks all interrupts (sugar_arch.h:36-44), so each
critical section is one action, and a kernel call is the sequence of its
critical sections with every interrupt in between:

| code | actions |
|---|---|
| `sugar_scheduler` | `Scheduler(inTick)` = `SwitchFromSuspended` or `Preempt` or `KeepCurrent`, part of `Reschedule`, `IrqExit`, `TickExit` |
| `sugar_delay_tick` | `DelayTick`, then `Reschedule`; `DelayTickNoTimer` |
| `sugar_sema_acquire` | `SemaAcquire`; `SemaAcquireWait`, `Reschedule`, `SemaAcquireReturn`; `SemaAcquireNoTimer` |
| `sugar_sema_give` | `SemaGive` (`HandOver` or `Increment`), then `Reschedule`; `IrqGive` in a handler |
| `sugar_sema_destroy` | `SemaDestroy`, `SemaDestroyWake` per waiter, `SemaDestroyNoMore`, `SemaDestroyFree`, `Reschedule` |
| `sugar_thread_create` | `CreateBeforeStart`; `ThreadCreate`, `Reschedule` |
| `timer_tick_handle` | `TickCount`; `PollTimer` per timer, `Callback`, `DeleteTimer`; `TickExit` |

The poll is not a critical section: `PollTimer` (the test of CNT), `Callback`
and `DeleteTimer` are separate steps, and with `Nested` a device interrupt of
higher urgency comes between them. The poll's index moves on after a deletion,
as in the code, so the timer that moved up is not looked at in this tick.
`TickCount` is the countdown loop, with `tick_count++` and `interrupt_enter`
behind it. Without `Nested` it is one step. With `Nested` an interrupt may come
between any two timers: the loop goes on by its index, so a deletion in between
moves a timer past it, which then misses a count, and a timer that is created
behind it is counted at once. If a nested interrupt has freed the timer whose
callback has run, `timer_check` deletes by an index that it reads in freed
memory: `DeleteTimer` then takes any timer out of the table, or none. The
callback and its parameter are taken to be as they were, which is so when the
interrupt comes after `timer_check` has loaded them; writes to a freed timer (the
countdown's `CNT--`) are left out. `Nested` is TRUE only in the run
`kernel_nested`, whose trace ends with the callback.

Faithful in what looks odd: threads made ready by give, destroy or a timeout
keep thread_state SUSPEND until they are switched in; a thread switched out
while waiting shows READY; give leaves `timerOf` pointing at the freed timer;
a failed push in give drops the thread that was popped, with its timer still
in the table; in the scheduler it drops the preempted thread; a delay that gets
no timer leaves its thread SUSPEND; a wake by destroy sets the wake status even
if the push then fails.

Abstractions and assumptions:

- A timer's index is its position: `timer_delete` renumbers the rest, and the
  kernel passes `suspend_timer->index`. Timers are identified by the heap block
  (`Blocks`) they live in; a block is reused as soon as it is free.
- Memory never fails. Calls that change nothing (parameter errors,
  RTE_ERR_TRY_LATER, RTE_ERR_OVERFLOW) have no action.
- Every semaphore has `max_count = MaxCount`. Its initial count is any value up
  to that: the code does not check this, and a larger one would let the count
  wrap (the equality test of sugar_sema.c:465).
- Users keep away from a semaphore from the moment that `sugar_sema_destroy` is
  called. The code has no protection; a doomed user is out of the model. A
  semaphore's name is reused when no call on the old one is under way.
- Idle never calls the kernel (sugar_kernel.c:41-49). Handlers give, or acquire
  with SUGAR_WAIT_NONE.
- Interrupts come only after the start (sugar_kernel.c:144-146). A device
  handler and its `sugar_interrupt_exit` are two steps.

### MCSugarKernel

The instances: idle, one thread of high and two of equal, lower priority
(`MCThreads`), or idle and one of each (`MCPair`).

### BoundedSequence, PowersOfTwo, DsVector

`BoundedSequence` is the promise: a sequence with room, and what each call
answers. `DsVector` is the code: the memory cell by cell (a cell is a pointer,
or a byte of a deep copy: the unit of the code's pointer arithmetic), `head`,
`length`, `capacity`, `expandable`. `reply` is auxiliary: the last result and
the elements handed to the caller or to `free_cb`. `PowersOfTwo` holds
`rte_roundup_pow_of_two`, which the ring shares.

| code | definitions |
|---|---|
| `ds_vector_create`, `_destroy`, `_clear` | `Create`, `Destroy`, `Clear` |
| `ds_vector_expand` | `GrownData`, `GrownHead`; `Expand`, and inside `PushAndGrow` |
| `ds_vector_push`, `_pop`, `_at` | `Push` (with room, growing, refused), `Pop`, `At` |
| `ds_vector_remove_by_index` | `RemoveByIndex`: `ClosedUnwrapped`, `ClosedFirst`, `ClosedSecond` |
| `ds_vector_remove_by_pointer` | `RemoveByPointer` |

The mapping reads the elements from the cells (`Elements`); cells that are no
element read as "torn", which no sequence holds. realloc's new cells hold
garbage, and every allocation may fail. Each call is one step because it holds
the mutex; `ds_vector_at` and `_length` do not (the header says so), and are
taken to be called by a user who does. `ds_vector_length` is the length of the
mapped sequence. `Slot` masks an index with `%`, where the code has `& (capacity - 1)`: the same
for a power of two, which every capacity is, as creation rounds up to one and
`Factors` holds powers of two only (or 0, which the code refuses). A user may
expand to other sizes; that is outside the model.

### MessageQueue, DsRingbuffer

`MessageQueue` is the promise: accepted messages come out whole, once, in
order; a write may be refused. `DsRingbuffer` is the code: the bytes, the
counters `head` and `tail` (modulo `CounterMod`, 2^32 in the code), and where
the writer and the reader are in their calls.

| code | definitions |
|---|---|
| `ds_ringbuffer_create`, `_destroy` | `Create`, `Destroy` |
| `ds_ringbuffer_write` | `WriteStart` (reads head_offset), `WriteCheck` (room), `WriteCopy` (`WithMessage`, three ways), `WriteEnd` (tail) |
| `ds_ringbuffer_read` | `ReadStart` (empty?), `ReadCopy` (`SizeFieldAt`, `MessageAt`), `ReadEnd` (head) |

With a mutex a call starts only when the other user is out. The mutex is
optional, and the repository's own test passes none: then the steps of one
writer and one reader interleave (on one core the compiler's order of stores is
what the other sees; the comment in the module says why it is kept). Bytes are
tagged with what they are, a size byte with its size, so that a torn size or
message is never taken for a whole one. The mapping parses the unread bytes into
messages (`Unread`). Two writers, or two readers, without a mutex are misuse and
not modelled.

### RteTimer

One timer group. State: the slots of its table (`slot`, `length`, `capacity`;
the table is a ds_vector that never pops, so its head stays 0), the timer in each
heap block (`timer`: AREN, CNTEN, index, ARR, CNT, and what its callback does),
where the poll is (`poll`), and the index that a user has read and is about to
pass (`held`). `called`, `movedUp` and `late` are history.

| code | definitions |
|---|---|
| `timer_create_new` | `NewTimer`, `Create`; `UserCreate`, or in a callback |
| `timer_delete`, its renumbering loop | `Delete`, `Renumbered`; `UserDelete`, or in a callback or the poll |
| `timer_pause`, `timer_resume` | `SetRunning`; `UserPause`, `UserResume` |
| `timer->index` as an argument (hal_key.c:116, sugar_sema.c:439) | `ReadIndex` |
| `timer_tick_handle`'s loop | `CountsDown`, `TickCount` |
| `timer_group_poll`, `timer_check` | `PollStart`, `PollPass`, `PollCall` (test and callback), `PollFinish` (reload or delete), `PollEnd` |

The mutex of a group must be recursive (rte_timer.h:61): whoever polls holds it
over all callbacks, which may call the group themselves. So users' calls come
between polls (`Unlocked`), and what happens inside a poll is what callbacks do
(`CallbackEffect`: nothing, or one create, pause or delete). A user's call is
one step, but its index was read before, without the mutex: the timer may have
moved since. Group 0 is polled by the tick handler itself, other groups by a
thread. The group of the kernel, without a mutex, is SugarKernel's.

Faithful in what looks odd: the poll's index moves on after a deletion; an index
one past the end is accepted by `ds_vector_at` and may name a freed timer; a
timer that has run down is called although it was paused; a timer of period 0
is called in every poll, paused or not. `SelfDelete` FALSE keeps callbacks from
deleting the timer that calls them; with TRUE the poll goes on with a freed
timer (rte_timer.c:194-199) and PollKeepsItsTimer fails.

### HalDevice

One device and the threads that read and write it. State: `mutex`, `token` (the
count of `rx_sema` and `tx_sema`, or the flags `if_rx_ready`, `if_tx_ready`),
`hw` (the transfer of each direction in the peripheral: running or being
aborted, whether its half has been told, and whose it is), `now` (the tick counter,
modulo `TickMod`), `th` (where each thread is in its call, the tick it measures
from, the time it has left). `build` and `aborts` choose the three builds of
hal.h and the driver: com drivers abort what timed out, spi drivers do not.
`byDma` is a com driver that receives by DMA (`if_recv_enable_dma`). `age`,
`expired`, `strayed`, `halved` and the fields `own` and `early` are history.

| code | definitions |
|---|---|
| `hal_device_read/write_sync/_async` (hal.c:129-195) | `Call`, `Return` |
| `HAL_DEVICE_TRY_LOCK` (hal.c:15-26) | `Lock`, `LockTimeout`, `CheckTime` |
| `rte_time_consume` (rte_timer.c:321-332) | `TimeConsume` |
| `com_send`, `spi_send` and their like | `SyncStart`, `SyncRefused`, `SyncEnd` |
| `com_send_async`, `spi_send_async` and their like | `NoBuffer`, `Prepare`, `Start`, `StartRefused`, `Ready`, `WaitTimeout`, `AfterTimeout` |
| `hal_device_prepare_wait`, `_wait_*_ready`, `_active` | `Prepare`; `Ready`, `WaitTimeout`; `Tells` |
| `HAL_UART_TxCpltCallback`, `HAL_UARTEx_RxEventCallback`, the spi callbacks | `Complete`, `Half` |
| the vendor's busy states | `Runs`, `Free` |
| its errors, and its abort (`UART_DMATx/RxOnlyAbortCallback`) | `TransferFails`, `AbortEnds` |

The vendor's library lies under `src/sis`, and is modelled only by what it does
to the drivers: a transfer completes at any time, fails or never ends, an abort
ends at any later time, and a start is refused while the peripheral is busy. A
UART has a state for each direction, an SPI one for both (`Free`); in addition a
start may be refused at any time (`__HAL_LOCK` held by the other direction, or
an error). Two of its habits matter:

- A UART that receives by DMA until the line is idle calls
  `HAL_UARTEx_RxEventCallback` at half of its buffer as well, while the DMA goes
  on (`UART_DMARxHalfCplt`, stm32h7xx_hal_uart.c:3737-3751; the half-transfer
  interrupt stays enabled). The driver cannot tell it from the end: `Half`
  raises the token with the transfer still running, once in a transfer.
- It tells of errors, and of receptions of an SPI in full duplex
  (`HAL_SPI_TxRxCpltCallback`), by callbacks that the project does not define:
  `TransferFails` ends a transfer without a token.

Blocking transfers poll inside the vendor's call, which keeps to its timeout.
Asynchronous sends of size 0, which the spi driver answers at once, are left
out. Semaphores are reduced to their count (SugarKernel is their model); a
wait that the Sugar kernel cannot time, having no timer, is not distinguished
from one that timed out. Without a mutex two threads of one direction would take
each other's completions; nothing in the code stops them, and the model gives
each direction one thread then (`UserOf`), and all of them one in the build
without a kernel (`Main`).

Ticks. The tick interrupt ends waits in time: `Tick` does not let a thread wait
past its timeout, and allows one more tick between getting the mutex and the
look at the clock, and to a thread that polls. That keeps the ages of calls
below the modulus, as a 32-bit counter of milliseconds does. A timeout of
TIME_MAX_DELAY, which waits for ever, is outside `HalAssumption`.

### DsHashmap

State: `count`, `size`, `buckets` (the number of the chain of each bucket, 0 for
none), `chains` (chains_array in order: the hash of the key each was made for,
its items, what last_element points at, who has it locked), `iterator` (who has
locked chains_array), `th` (what each thread has looked up so far). `last` and
`lost` are history: what was last done to each key, and the keys of whose item
the table has lost track, each added by the step that loses it.

| code | definitions |
|---|---|
| `ht_set_internal` | `SetBegin` (table locked: `NewChain`), `LockChain`, `Insert`, `InsertFails`, `Replace`, `ReplaceFails`, `JustLook`, `GrowCheck` |
| `ht_grow_internal` | `Grow`, `Refiled` |
| `ht_call_internal` and the helpers of get, unset, delete, set_if_equals | `CallBegin`, `LockChain`; `JustLook`, `Unset`, `Delete`, `ReplaceIf` |
| `LINK_LIST_ADD_NODE_TO_TAIL`, `LINK_LIST_RMV_NODE` | `Linked`, `Without` |
| `ht_foreach_pair` | `EachBegin`, `EachChain`, `EachRemoves`, `EachEnd` |
| `ht_clear` | `Clear` |

What runs under the table's mutex takes one step; between it and the lock of the
chain a thread keeps the chain it found while others may grow the table. The
search and what follows it are two steps under the chain's lock, so that the
lock matters. With items but no last_element, `tail->next = node` writes through
a null pointer (a small address, which is ITCM RAM on these devices): the model
goes on with the item not linked; where that faults, the program stops there.
Assumed: `ht_clear` is called by a lone user (as in example/test_hashmap.c:112,
173), because chains that others have just found are freed; allocation of the
bucket array succeeds in growth (the code does not look); callbacks do not call
the table.

### MCDsVector, MCDsRingbuffer, MCRteTimer, MCHalDevice, MCDsHashmap

The instances: pointers that may be null, or deep copies; messages of zero, one
and three bytes; five configurations of timers that fire once or repeatedly, and
whose callbacks create, pause and delete; two threads and one direction; two
threads and two keys that the second growth tells apart.

### The modules of proofs

Section 6. `SugarKernel_proofs` (the queues, and the kernel in general) and
`SugarKernel_waits_proofs` (where interrupts do not nest); `HalDevice_proofs`,
`RteTimer_proofs`, `DsHashmap_proofs`; `DsVector_proofs` and
`DsRingbuffer_proofs`, which share `DsLemmas_proofs` (remainders, powers of two,
sequences that lose an element).

## 4. Runs

| run | instance | shows |
|---|---|---|
| `kernel` | 4 threads, 1 semaphore, 3 timers, room for all | no thread is lost or in two places; caches right; no priority inversion; tokens conserved; each timeout belongs to a waiter; nothing left on a freed semaphore; woken once |
| `kernel_scarce` | 4 threads, FIFOs of 1, 1 timer | on the error paths no thread is in two places, the scheduler finds one, priorities are kept |
| `kernel_live` | 3 threads, 2 timers, timeouts of 1 or 2 ticks | timed waits and delays end; the most urgent ready thread runs |
| `kernel_nested` | as `kernel`, `Nested` | finding 1 |
| `kernel_order` | as `kernel` | finding 2 |
| `kernel_lost` | as `kernel`, 1 timer | finding 3 |
| `vector` | pointers, capacity 2 to 8, at most 4 elements pushed at a time, expandable or not | DsVector implements BoundedSequence |
| `vector_wide` | deep copies of two bytes, capacity 4 | finding 4 |
| `ring` | 8 bytes, sizes of 2 bytes, messages of 0, 1 and 3 bytes, counters modulo 16 | DsRingbuffer implements MessageQueue, with and without a mutex; nothing unread is written over |
| `timer` | 3 blocks, tables of 2 and 4, 1 user, 5 configurations | index is place; the poll keeps its timer; none called twice in a poll, and none missed but for a deletion; an index read earlier is good until a deletion moves it; a paused timer is called at most once more |
| `hal` | 2 threads, 1 direction (a reception, by DMA or by interrupts), timeout of 2 ticks, counter modulo 5, 3 builds, 2 drivers | one caller in the driver; the time left is right across the wrap; success means a completed transfer, tokens are left and transfers outlive their call only after one of the two events of section 5, the late completion and the half; every call ends |
| `hashmap` | 2 threads, 2 keys, 2 values, 1 bucket at first | a map but for four named losses; every chain in its own bucket; what is lost stays lost |

Bounds of the kernel. Three application threads are the fewest that give two waiters of one
priority, a third thread of another priority that interferes, and a preemption
among equals on the tick. One semaphore is enough because operations on
different semaphores meet only in the ready queue and the timer table, which
three threads fill from one. `MaxCount = 1` makes every give either hand over,
count or overflow. Timeouts of one tick and, in `kernel_live`, of one and two,
let timers expire together and apart; a third tick adds no new order of expiry
for two timers. Every thread, block and semaphore can be used any number of
times: the only bounded counters are those of the code. Symmetry (the two equal
threads, the heap blocks) is used in the runs without liveness; no definition
chooses among them.

Bounds of the containers. Growth from 4 to 8 is the smallest that moves a first
section (head 1 of 4, wrapped), and four elements are what that takes; capacity 2
is full with fewer, so that pushes are refused or grow. Two contents of a cell
(a pointer and null) tell order, loss and doubling apart. Eight bytes put a size
of two bytes across the end in every way, three messages fill the ring, and
counters modulo twice the capacity wrap to zero again and again. `MaxLength`,
`MaxCapacity`, `Factors`, `Sizes`, `Spaces` and `CounterMod` are the bounds.

Bounds of the others. `timer`: three timers are one that is called, one before
and one behind it; periods of 0, 1 and 2 ticks expire in one poll, in the next
or apart; a table of two fills. `hal`: the mutex and the semaphores of different
directions do not meet but for the mutex, which two threads of one direction
contend for as well; a transmission is a reception that never tells its half, so that one direction
that receives covers both (two directions at once are covered by the proofs of
section 6); a timeout of two ticks can be used up before, during or
after the wait for the mutex, and a counter modulo five wraps in the middle of
it. `hashmap`: a table of one bucket grows at its second item, at its third and,
when two threads have both found it too full, twice at once; no set begins above
`MaxCount` items, which counts items that were lost.

Fairness (`hal`, FairSpec): `WF` of the tick (hardware) and of each thread's
steps inside a call (an RTOS or the kernel runs them; nothing there waits but on
the clock). The peripheral need not answer, and nobody need call.

Fairness (`kernel_live`): `WF` of `KernelStart` (main calls it), `SF` of the
tick (hardware; device interrupts of a storm may mask it now and then, not for
ever), `WF` of a device interrupt's end, and `WF` of a thread's steps inside a
kernel call (the code there has no loop that waits for others). Application
code need never call the kernel: nothing is assumed of threads at "app".

## 5. Findings

1. **Woken twice** (`kernel_nested`, AtMostOnePlace). `timer_check` tests CNT and
   calls back with interrupts enabled (rte_timer.c:189-192). A nested interrupt
   that gives the semaphore in between wakes the thread and deletes the timer;
   the callback then pushes the same thread on the ready queue again. The header
   promises the contrary (sugar_kernel.h:101) and counts nested interrupts (114).
   Without nesting the property holds (`kernel`).
2. **Order of equals** (`kernel_order`, ReadyOrderKept). A scheduler call that
   does not switch puts the head it popped at the tail of its FIFO
   (sugar_scheduler.c:162, 169, 173), where sugar_kernel.h:91 promises FIFO and
   sugar_scheduler.c:97 round-robin on ticks only.
3. **Lost delay** (`kernel_lost`, NoThreadLost). `sugar_delay_tick` without a
   timer returns with thread_state SUSPEND (sugar_scheduler.c:305, 317-323). The
   run shows what follows: the thread has its error and goes on, creates another
   thread, and the call of the scheduler at the end of `sugar_thread_create`
   switches it out as one that has suspended itself. It is then neither current
   nor on any queue, and no timer knows of it.

4. **Removal of deep copies** (`vector_wide`, IsASequence).
   `ds_vector_remove_by_index` closes the gap in the first section of a wrapped
   vector by one byte (`start_ptr + 1` on a `uint8_t *`, ds_vector.c:343), where
   the header (ds_vector.h:108) and its own diagram (336-339) promise one
   element. The tests use elements of one byte.

Two more properties of the containers, without a run of their own. Expanding a
wrapped vector whose head is in the upper half to four times its capacity leaves
its second section where no index finds it (ds_vector.c:194-203); pushes only
double, and no caller in the repository expands otherwise (set `Factors` to {4}
to see it). A wrapped message that would fill the ring exactly is refused
(ds_ringbuffer.c:121, `>=`), even by an empty ring.

Seen in the timers, the HAL and the hash table; the models contain them, and the
properties are stated around them:

- A completion that comes between the timeout of a wait and the abort leaves a
  token in the semaphore (hal_com_stm32h7.c:91-92; hal.h:144, 184: prepare_wait
  does nothing there). Every later success of that direction is then one
  transfer early, its DMA buffer freed while the peripheral reads it, until
  another wait times out. The spi drivers never abort: what timed out goes on in
  the caller's buffer. The com drivers ignore HAL_BUSY and wait all the same.
- A reception of the UART by DMA is a success at half of its buffer
  (hal_com_stm32h7.c:107-112, 170-178), with the DMA still writing to it. The
  end of the same transfer leaves a token, or answers the next call, which was
  refused with HAL_BUSY and waits all the same.
- HonestUnlessEarly, LeftTokenExplained and NoTransferOutlivesCall say that
  these two events are the only ways to an early success, a token left behind
  and a transfer that outlives its call. BareComIsHonest says that without a
  kernel the com drivers do not have the first: their successes are completed
  transfers, unless they receive by DMA and a half was told as a success.
- A call with timeout 0 always returns RTE_ERR_TIMEOUT (hal.c:22).
- Growth of the hash table files a chain by the hash of its first key and
  leaves it whole (ds_hashmap.c:278-279): keys that the new mask tells apart are
  not found any more, and are inserted a second time by the next set. Removing
  the first item of a chain drops all (74-75); removing the last one forgets
  last_element (77), and the next insertion writes through a null pointer (91).
  The iterator passes over the rest of a chain after a removal (1001-1012). The
  HAL's table has 128 buckets and a handful of devices, and is only added to: it
  never grows (growth begins above 170 items).
- `ht_exists` returns RTE_SUCCESS whether or not the key is there
  (ds_hashmap.c:563-584, against 823); `ht_delete` and `ht_unset` likewise.
- In the timers, besides what section 3 says: `timer_create_group` compares with
  the capability minus one (rte_timer.c:89); `timer_deinit` asserts that destroy
  returns non-zero (117); group ids are tested with `>` (132, 168, 228, 253).

## 6. Proofs

For any finite set of threads, any priorities, capacities, semaphores, blocks
and timeouts, with or without nesting, `SugarKernel_proofs` proves, from
`QueueAssumption`, `KernelAssumption` and the hypothesis `IdleAlone` (no
application thread uses priority 255, which `sugar_thread_create` does not
forbid):

| theorem | states |
|---|---|
| `CoreInvariant` | `Spec => []CoreInv`, the inductive invariant |
| `TypeCorrect` | `Spec => []TypeOK`, the bound of the count included |
| `CachesStayRight` | `Spec => []CachesAreRight` |
| `SchedulerFindsAThread` | `Spec => []AlwaysAThread` |
| `NobodyWaitsForACount` | `Spec => []NoWaiterWhileCount` |
| `TheMostUrgentRuns` | `Spec => []NoPriorityInversion` |

The argument. The type invariant is not inductive alone: the scheduler hands
the core to whatever `pop_highest` returns, and that is a thread only if the
queue is not empty *and* the cached priority leads to a non-empty FIFO. So
`CoreInv` adds: both kinds of queue have the right cache (`HighestIsRight`);
every TCB of the ready queue is filed under its own priority (`Filed`); idle is
the current thread or alone in the FIFO of priority 255 (`IdleIsThere`), and is
never suspended, on a wait list or behind a timer - hence the clauses on wait
lists, on timers and on the timer the poll holds; and a thread inside a
semaphore call has a semaphore. The first part of `SugarKernel_proofs` proves
what each queue operation does to membership, filing and the cache, with the
definition of the minimum from the community modules; the rest has one lemma
per action and combines them in `StepCore`. `NobodyWaitsForACount` is a second
induction on top of it: a count grows only on an empty wait list, and a wait
list grows only at count zero. `TheMostUrgentRuns` is a third: whatever the
scheduler decides, nobody more urgent is left ready (`ForemostIsBest`, which
needs the cache to be right), and a push makes a thread ready only in a step
after which its caller has the scheduler still before it (`MostUrgentInv`).

`CoreInv` was first checked with TLC as an invariant of the `kernel` and
`kernel_scarce` instances.

`SugarKernel_waits_proofs` proves `OnePlaceAtMost`, `Spec => []AtMostOnePlace`,
from `IdleAlone` and `~Nested` (device interrupts do not preempt the tick
interrupt), whatever room the FIFOs and the timer table have. That nobody is on
two queues does not follow from the queues: what makes a thread ready a second
time is an alarm left behind. So `PlacesInv` counts among a thread's places the
timers whose callback is still to be run, the one that the poll holds included,
and says that such a timer is the one that its thread points at
(`suspend_timer`): then give and destroy, which delete by that pointer, leave
no alarm for the thread they make ready. This is exactly what the run
`kernel_nested` breaks, between the test of CNT and the callback; hence the
hypothesis.

The same module proves the rest of what the run `kernel` checks, from
`IdleAlone`, `~Nested` and `FifosHoldAll`: a FIFO of the ready queue has room
for all threads of its priority, which `sugar_thread_create` does not see to.

| theorem | states |
|---|---|
| `WaitsInvariant` | `Spec => [](CoreInv /\ PlacesInv /\ WaitsInv)` |
| `TimeoutsAreOfWaits` | `Spec => []TimersMatchWaits` |
| `FreedIsUnused` | `Spec => []NothingLeftOnFreed` |
| `WokenOnceOnly` | `Spec => WokenOnce` |
| `NobodyLost` | `Spec => []NoThreadLost`, if the timer table has a timer for every thread (`TimersForAll`) |
| `TokensAreKept` | `Spec => []TokensConserved` |

The argument. PlacesInv says that a thread is in one place at most; `WaitsInv`
says the converse, that what is in one place has its counterpart in another: a
waiting thread is inside acquire on that semaphore, a timeout whose callback is
still to be run has its waiter, a waiter that points at a timer has one, and
from the start of destroy nobody joins the list. The two need each other: give
deletes by `suspend_timer`, and only if that is the waiter's own timer, in the
table, is one timeout gone and no other. Each step makes one thread ready or
moves one into a wait, and leaves every other as it was (`Kept`, `StaysPut`); a
waiter's push fails only on a full FIFO, which `FifosHoldAll` excludes
(`RoomForAll`: the members of a FIFO differ and are of its priority). With that
`FoundInv` follows, which implies NoThreadLost and says more: a current thread
that has marked itself suspended, and that the scheduler is about to switch
from, has a place already; `TimersForAll` keeps `sugar_delay_tick` off the path of
finding 3 (`TimerToBeHad`: the timers in the table belong to different threads,
none of them idle or the caller). The tokens are a last induction: the holders
of a semaphore gain a thread exactly in the step that adds a token, and lose it
in its return from acquire.

The hypotheses are needed: the runs `kernel_nested` and `kernel_lost` violate
the properties without `~Nested` and `TimersForAll`, and with a full FIFO, as in
`kernel_scarce`, a give drops the thread it has taken off the wait list. CoreInv,
PlacesInv, WaitsInv, FoundInv and TokensInv were first checked with TLC as
invariants of the `kernel` instance.

`HalDevice_proofs` proves every safety property of HalDevice from
`HalAssumption` alone (timeouts are at least three ticks below the modulus of
the tick counter), for any threads, directions, timeouts and modulus, all three
builds and both kinds of driver:

| theorem | states |
|---|---|
| `TypeCorrect` | `Spec => []TypeOK` |
| `OneAtATime` | `Spec => []OneInDriver` |
| `TimeLeft` | `Spec => LeftTimeIsRight` |
| `Honest` | `Spec => []HonestUnlessEarly` |
| `TokensLeft` | `Spec => []LeftTokenExplained` |
| `TransfersEnd` | `Spec => []NoTransferOutlivesCall` |
| `BareHonest` | `Spec => []BareComIsHonest` |

The argument. TypeOK is inductive. OneInDriver is inductive on top of it: the
steps that enter the driver take the mutex or follow one that did. For
LeftTimeIsRight, `ClockOK` says that the tick from which a call measures and its
true age differ by the counter, modulo `TickMod`, and that the age is below the
modulus as long as anybody will ask; then `rte_time_consume` gives the age,
wrapped or not. The rest is one invariant, `TransfersOK`, because its clauses
carry each other round in a circle: a success without a transfer needs a token
(`CallOK`), a token without its call a transfer that was nobody's (`TokenOK`),
and a transfer that is nobody's a call that ended before it (`TransferOK`): a
wait that timed out, which is what `expired` records, or a success at the half,
which is what `halved` records. `Excused` is either. Only receptions by DMA are
ever `halved`, so for every other direction the properties speak of timeouts
alone. The bare build has one more clause (`BareOK`): prepare_wait takes the
flag back, and the com drivers abort, so no flag is up when a wait begins unless
a half was a success before. Every invariant was checked with TLC first,
TransfersOK also on two directions, a transmission and a reception.

`RteTimer_proofs` proves every property of RteTimer from `TimerAssumption`
(capacities are powers of two up to 128, so that the loops' `uint8_t` indices
end) and `~SelfDelete` (no callback deletes the timer that calls it), for any
blocks, users and configurations, callbacks that create, pause and delete
included:

| theorem | states |
|---|---|
| `TimerInvariant` | `Spec => []TimerInv`, the inductive invariant |
| `TypeCorrect` | `Spec => []TypeOK` |
| `IndicesAreExact` | `Spec => []IndexIsPlace` |
| `TimerSurvivesCallback` | `Spec => []PollKeepsItsTimer` |
| `NoSecondCall` | `Spec => CalledOncePerPoll` |
| `ForgottenAreMoved` | `Spec => []NoOneForgotten` |
| `OneLateCall` | `Spec => PausedCalledOnce` |
| `IndexStaysGood` | `Spec => []IndexGoodUntilMoved` |

The argument. `TableOK` says that places and indices are inverse to each other,
from both sides: a deletion must find a timer behind the place that it closes
exactly when that timer's index says so, and only then does the renumbering
loop touch the right ones (`DeleteTable`, `MovesUp`). As many timers as places
follows by the bijection (`LiveCount`). `PollOK` rests on one fact, that within
a poll timers only move towards the front (`Steady`): what has been called stays
passed, hence is not called again and not ahead of the poll when its callback
returns. `SkippedOK` counts: a deletion at or before the poll's index brings one
timer at most past it (`OnlyMoved`), the one that stood next. `LateOK` is a
paused timer's count, which only its reload changes; `HeldOK` an index, which a
deletion behind it leaves alone. `~SelfDelete` is needed: PollKeepsItsTimer fails
without it. TimerInv was first checked with TLC on the `timer` instance.

`DsVector_proofs` proves of DsVector, from `VectorAssumption` (elements of at
least one cell; buffers of at least one element up to some bound; growth by
powers of two):

| theorem | states |
|---|---|
| `TypeCorrect` | `Spec => []TypeOK`: head, length and cells stay inside the buffer |
| `Refinement` | `Spec => IsASequence`, if `ElementSize = 1` and `Factors \subseteq 0 .. 2` |

The argument. The type invariant is inductive (`VectorInv`, the same with the
cells named), for elements of any size and growth by any power of two. For the
refinement each call is shown to
be the step of the sequence with the same answer. `ElementsAre` reads a vector
of one-cell elements as the sequence of cells from `head`, once round at most
(`SlotInside`). Growth then needs that the section which moves lands where the
larger buffer continues (`GrownData`, which the factor 2 ensures), and a removal
that each of the three ways to close the gap moves exactly the cells behind the
one removed (`Closed`), which is what the community modules' `RemoveAt` does to
the sequence. A removal by value removes the first place that holds it. Both
hypotheses are needed: finding 4 is the other size of element, and the paragraph
below it the other factor. They hold for every vector of pointers or bytes that
only pushes expand.

`DsRingbuffer_proofs` proves everything of DsRingbuffer from `RingAssumption`
alone (the counters' modulus is a power of two up to 2^32, and a capacity asked
for is at most half of it), for any messages, sizes, capacities and width of the
size field, with the mutex and without it:

| theorem | states |
|---|---|
| `RingInvariant` | `Spec => []RingInv`, the inductive invariant |
| `CountersStayInStep` | `Spec => []CountersInStep` |
| `SizesAreFound` | `Spec => []SizeIsFound` |
| `RingIsAQueue` | `Spec => IsAQueue` |

The argument. The counters need two facts: the ring's capacity, a power of two,
divides the modulus, so that an offset is the same before and after a counter
wraps (`WrappedOffset`); and the room that a writer saw can only grow until it
adds, for only the reader moves then. The heart is `UnreadIsWhole`: counted
backwards from the tail, the unread bytes have boundaries such that a whole
message starts at each and ends at the next, the last at the tail. From the tail
and not from the head, for a counter of bytes from there is not disturbed by a
read, which takes the highest boundary away, and a write shifts all boundaries
by the length of its message and adds its own. A writer in the middle of a call
has its message behind the last boundary (`WriterReady`), in bytes that no
boundary reaches; a reader's message is the one at the head (`ReaderReady`). The
size field of a message at a boundary is then read as it was written, also in
two parts.

The refinement maps to the messages parsed by `Unread`, a recursive function.
That its recursion has a solution for the ring at hand is proved by the least
counter difference without one; then that two parses of the same bytes agree
(`ReadsBackwards`), that a write adds a message at the end of the parse, and a
read takes the first off. RingInv was first checked with TLC on the instance of
the run `ring`.

`DsHashmap_proofs` proves everything of DsHashmap from `HashmapAssumption` (the
hash of a key is a number, the first size at least 1), for any threads, keys,
values, hash and initial size, a power of two or not:

| theorem | states |
|---|---|
| `TableInvariant` | `Spec => []TableInv`, the inductive invariant |
| `TypeCorrect` | `Spec => []TypeOK`: the atomic count never goes below zero |
| `MapKept` | `Spec => []IsAMap` |
| `ChainsFiled` | `Spec => []EveryChainIsFiled` |
| `LostStays` | `Spec => LostStaysLost` |

The argument. Chains are filed by one fact of arithmetic: hashes that differ
modulo the old size differ modulo twice that size (`SlotOfTwice`), so growth
never puts one chain over another, and a new chain is made only for an empty bucket. The lock
of a chain gives `CallOK`: what a thread found there is still what a search
finds when it acts. No chain holds a key twice (`Distinct`), because an
insertion is under the lock of the search that failed; hence a removal takes the
key off for good. The count is not an upper bound of anything by itself, as
losses leave it too high; `CountOK` says that at least as many items were
counted as are linked in chains (`Places`), which keeps a decrement above zero.
IsAMap and LostStaysLost then compare, step by step, what a lookup finds before
and after: growth may only hide keys, and those join `lost`. TableInv was first
checked with TLC on the instance of the run `hashmap`.

Only model-checked: the liveness properties of the runs `kernel_live` (TimedWaitEnds,
SleepEnds, MostUrgentRuns) and `hal` (CallsEnd), which rest on fairness and are
out of the prover's reach; and the counterexamples of section 5.

## 7. Not modelled

The components marked so in section 1's plan and in `PROJECT.json`; within the
kernel: memory exhaustion (timer_arg, sugar_sema.c:289, is leaked by every
cancelled timeout), stack checking, the shell command, the return value of
`sugar_kernel_init` (never RTE_SUCCESS) and the translation of wake statuses to
return codes (acquire returns the raw status, sugar_sema.c:337).

Within the timers: the table of groups and its life cycle. Within the HAL: open,
close and control, which pass through to one call of a driver; initialisation;
gpio (register access); qspi (its code uses fields that its device does not have
and is not built). `key_create` tests the result of `timer_create_new` the wrong
way round (hal_key.c:97): on success it destroys the key through a timer pointer
that is not set yet, so no key is ever scanned and there is no behaviour of the
debounce machine to model. Within the hash table: `ht_destroy`, and what
`free_cb` is given (after ht_set_copy replaces a value it is given the block
that realloc took, ds_hashmap.c:389, 415).
