-------------------------- MODULE HalDevice_proofs --------------------------
(***************************************************************************)
(* For any threads, directions, timeouts and tick modulus: every safety    *)
(* property of HalDevice.                                                  *)
(*                                                                         *)
(* TypeOK and OneInDriver are inductive, the one upon the other.  How much *)
(* time is left needs to know that the counter has wrapped once at most    *)
(* since a call began (ClockOK).  What a call's success means, and whose a *)
(* token or a transfer is, needs one invariant of them all (TransfersOK):  *)
(* a transfer ends in a token, a token in a call's success, and a call in  *)
(* a transfer that is nobody's.                                            *)
(***************************************************************************)
EXTENDS HalDevice, TLAPS

\* What TypeOK says of the threads' calls.
CallsOK ==
    /\ th \in [Threads -> ThreadStates]
    /\ \A t \in Threads : th[t].at # "app" => th[t].op \in Ops

\* The tick counter, however it has wrapped, gives a number of ticks.
LEMMA ConsumedIsNat ==
    ASSUME now \in 0 .. TickMod - 1, NEW prev \in 0 .. TickMod - 1
    PROVE  TimeConsume(prev) \in Nat
BY HalAssumption, SMT DEF TimeConsume

LEMMA AtHomeType == AtHome \in ThreadStates /\ AtHome.at = "app"
BY HalAssumption DEF AtHome, ThreadStates, InDriver

LEMMA InitType == Init => TypeOK
<1> SUFFICES ASSUME Init PROVE TypeOK
    OBVIOUS
<1>1. th \in [Threads -> ThreadStates] /\ \A t \in Threads : th[t].at = "app"
    BY AtHomeType DEF Init
<1>2. now \in 0 .. TickMod - 1
    BY HalAssumption DEF Init
<1> QED BY <1>1, <1>2 DEF Init, TypeOK

\* A step that changes one thread's call keeps the types of all of them.
LEMMA OneCallType ==
    ASSUME TypeOK, NEW t \in Threads, NEW call \in ThreadStates,
           call.at # "app" => call.op \in Ops, th' = [th EXCEPT ![t] = call]
    PROVE  CallsOK'
<1>1. th' \in [Threads -> ThreadStates]
    BY DEF TypeOK
<1>2. ASSUME NEW u \in Threads, th'[u].at # "app" PROVE th'[u].op \in Ops
    <2>1. CASE u = t
        BY <1>2, <2>1 DEF TypeOK
    <2>2. CASE u # t
        BY <1>2, <2>2 DEF TypeOK
    <2> QED BY <2>1, <2>2
<1> QED BY <1>1, <1>2 DEF CallsOK

\* A thread that only moves on within its call.
LEMMA GoesType ==
    ASSUME TypeOK, NEW t \in Threads, th[t].at # "app", NEW at \in InDriver, Goes(t, at)
    PROVE  CallsOK'
<1> DEFINE call == [th[t] EXCEPT !.at = at]
<1>1. call \in ThreadStates /\ call.op = th[t].op /\ th[t].op \in Ops
    BY DEF TypeOK, ThreadStates
<1>2. th' = [th EXCEPT ![t] = call]
    BY DEF Goes
<1> HIDE DEF call
<1> QED BY <1>1, <1>2, OneCallType

\* A thread that leaves its call.
LEMMA LeavesType ==
    ASSUME TypeOK, NEW t \in Threads, th' = [th EXCEPT ![t] = AtHome]
    PROVE  CallsOK'
BY AtHomeType, OneCallType

LEMMA CallType ==
    ASSUME TypeOK, NEW t \in Threads, NEW op \in Ops, NEW mode \in {"sync", "async"},
           NEW n \in Timeouts, Call(t, op, mode, n)
    PROVE  TypeOK'
<1> DEFINE call == [AtHome EXCEPT !.at = "locking", !.op = op, !.mode = mode,
                                  !.since = now, !.left = n]
<1>1. n \in Nat /\ now \in 0 .. TickMod - 1
    BY HalAssumption DEF TypeOK
<1>2. call \in ThreadStates /\ call.op = op
    BY <1>1, HalAssumption DEF ThreadStates, AtHome, InDriver
<1>3. th' = [th EXCEPT ![t] = call]
    BY DEF Call
<1> HIDE DEF call
<1>4. CallsOK'
    BY <1>2, <1>3, OneCallType
<1>5. age' \in [Threads -> Nat]
    BY DEF Call, TypeOK
<1> QED BY <1>4, <1>5 DEF Call, CallsOK, TypeOK

LEMMA LockType ==
    ASSUME TypeOK, NEW t \in Threads, Lock(t) \/ LockTimeout(t) \/ CheckTime(t) \/ Return(t)
    PROVE  TypeOK'
<1>1. CASE Lock(t)
    <2>1. CallsOK'
        BY <1>1, GoesType DEF Lock, InDriver
    <2>2. mutex' \in Threads \cup {NULL}
        BY <1>1 DEF Lock, TypeOK
    <2> QED BY <1>1, <2>1, <2>2 DEF Lock, CallsOK, TypeOK, history
<1>2. CASE LockTimeout(t)
    <2>1. CallsOK'
        BY <1>2, LeavesType DEF LockTimeout
    <2> QED BY <1>2, <2>1 DEF LockTimeout, CallsOK, TypeOK, history
<1>3. CASE CheckTime(t)
    <2> DEFINE consumed == TimeConsume(th[t].since)
               call == [th[t] EXCEPT !.at = "driver", !.left = th[t].left - consumed]
    <2>1. th[t] \in ThreadStates /\ th[t].op \in Ops
        BY <1>3 DEF CheckTime, TypeOK
    <2>2. consumed \in Nat /\ th[t].left \in Nat
        BY <2>1, ConsumedIsNat DEF TypeOK, ThreadStates
    <2>3. CallsOK'
        <3>1. CASE consumed >= th[t].left
            BY <1>3, <3>1, LeavesType DEF CheckTime
        <3>2. CASE ~(consumed >= th[t].left)
            <4>1. th' = [th EXCEPT ![t] = call]
                BY <1>3, <2>1, <3>2 DEF CheckTime, TypeOK, ThreadStates
            <4> HIDE DEF consumed
            <4>2. th[t].left - consumed \in Nat
                BY <2>2, <3>2
            <4>3. call \in ThreadStates /\ call.op = th[t].op
                BY <2>1, <4>2 DEF ThreadStates, InDriver
            <4> HIDE DEF call
            <4> QED BY <2>1, <4>1, <4>3, OneCallType
        <3> QED BY <3>1, <3>2
    <2>4. mutex' \in Threads \cup {NULL}
        BY <1>3 DEF CheckTime, TypeOK
    <2> QED BY <1>3, <2>3, <2>4 DEF CheckTime, CallsOK, TypeOK, history
<1>4. CASE Return(t)
    <2>1. CallsOK'
        BY <1>4, LeavesType DEF Return
    <2>2. mutex' \in Threads \cup {NULL}
        BY <1>4 DEF Return, TypeOK
    <2>3. hw' \in [Ops -> Transfers \cup {NULL}]
        <3>1. ASSUME NEW op \in Ops PROVE [hw[op] EXCEPT !.by = NULL] \in Transfers \/ hw[op] = NULL
            BY DEF TypeOK, Transfers
        <3> QED BY <1>4, <3>1 DEF Return, TypeOK
    <2> QED BY <1>4, <2>1, <2>2, <2>3 DEF Return, CallsOK, TypeOK, history
<1> QED BY <1>1, <1>2, <1>3, <1>4

\* The steps of the driver that only move a thread on, or start its clock anew.
LEMMA DriverType ==
    ASSUME TypeOK, NEW t \in Threads,
           \/ SyncStart(t) \/ SyncRefused(t) \/ SyncEnd(t) \/ Prepare(t) \/ NoBuffer(t)
           \/ Ready(t) \/ WaitTimeout(t)
    PROVE  TypeOK'
<1> DEFINE op == th[t].op
<1>0. th[t] \in ThreadStates /\ (th[t].at # "app" => op \in Ops)
    BY DEF TypeOK
<1>1. CASE SyncStart(t)
    <2> DEFINE call == [th[t] EXCEPT !.at = "blocking", !.since = now]
    <2>1. call \in ThreadStates /\ call.op \in Ops
        BY <1>0, <1>1 DEF SyncStart, TypeOK, ThreadStates, InDriver
    <2>2. th' = [th EXCEPT ![t] = call]
        BY <1>0, <1>1 DEF SyncStart, TypeOK, ThreadStates
    <2> HIDE DEF call
    <2>3. CallsOK'
        BY <2>1, <2>2, OneCallType
    <2>4. age' \in [Threads -> Nat]
        BY <1>1 DEF SyncStart, TypeOK
    <2> QED BY <1>1, <2>3, <2>4 DEF SyncStart, CallsOK, TypeOK
<1>2. CASE SyncEnd(t) \/ SyncRefused(t)
    <2>1. CallsOK'
        BY <1>2, GoesType DEF SyncEnd, SyncRefused, InDriver
    <2> QED BY <1>2, <2>1 DEF SyncEnd, SyncRefused, CallsOK, TypeOK, history
<1>3. CASE Prepare(t)
    <2>1. token' \in [Ops -> 0 .. 1]
        <3>1. CASE build = "none"
            BY <1>3, <3>1 DEF Prepare, TypeOK
        <3>2. CASE build # "none"
            BY <1>3, <3>2 DEF Prepare, TypeOK
        <3> QED BY <3>1, <3>2
    <2>2. CallsOK'
        BY <1>3, GoesType DEF Prepare, InDriver
    <2> QED BY <1>3, <2>1, <2>2 DEF Prepare, CallsOK, TypeOK, history
<1>4. CASE NoBuffer(t)
    <2>1. CallsOK'
        BY <1>4, GoesType DEF NoBuffer, InDriver
    <2> QED BY <1>4, <2>1 DEF NoBuffer, CallsOK, TypeOK, history
<1>5. CASE Ready(t)
    <2>1. token' \in [Ops -> 0 .. 1]
        <3>1. CASE build = "none"
            BY <1>5, <3>1 DEF Ready, TypeOK
        <3>2. CASE build # "none"
            BY <1>5, <3>2 DEF Ready, TypeOK
        <3> QED BY <3>1, <3>2
    <2>2. CallsOK'
        BY <1>5, GoesType DEF Ready, InDriver
    <2>3. halved' \subseteq Ops
        BY <1>0, <1>5 DEF Ready, TypeOK
    <2> QED BY <1>5, <2>1, <2>2, <2>3 DEF Ready, CallsOK, TypeOK
<1>6. CASE WaitTimeout(t)
    <2>1. op \in Ops
        BY <1>0, <1>6 DEF WaitTimeout
    <2>2. CallsOK'
        BY <1>6, GoesType DEF WaitTimeout, InDriver
    <2> QED BY <1>6, <2>1, <2>2 DEF WaitTimeout, CallsOK, TypeOK
<1> QED BY <1>1, <1>2, <1>3, <1>4, <1>5, <1>6

LEMMA StartType ==
    ASSUME TypeOK, NEW t \in Threads, Start(t) \/ StartRefused(t)
    PROVE  TypeOK'
<1> DEFINE op == th[t].op
           mine == [th[t] EXCEPT !.at = "waiting", !.since = now, !.own = "running",
                                 !.early = token[op] = 1]
           theirs == [th[t] EXCEPT !.at = "waiting", !.since = now,
                                   !.early = token[op] = 1 \/ Runs(op)]
           refused == [th[t] EXCEPT !.at = "failed"]
<1>1. th[t] \in ThreadStates /\ op \in Ops /\ now \in 0 .. TickMod - 1
    BY DEF Start, StartRefused, TypeOK
<1>2. mine \in ThreadStates /\ mine.op = op
    BY <1>1 DEF ThreadStates, InDriver
<1>3. theirs \in ThreadStates /\ theirs.op = op
    BY <1>1 DEF ThreadStates, InDriver
<1>4. refused \in ThreadStates /\ refused.op = op
    BY <1>1 DEF ThreadStates, InDriver
<1>5. \/ th' = [th EXCEPT ![t] = mine]
      \/ th' = [th EXCEPT ![t] = theirs]
      \/ th' = [th EXCEPT ![t] = refused]
    BY <1>1 DEF Start, StartRefused, TypeOK, ThreadStates
<1>6. CallsOK'
    <2> HIDE DEF mine, theirs, refused
    <2>1. PICK call \in {mine, theirs, refused} : th' = [th EXCEPT ![t] = call]
        BY <1>5
    <2>2. call \in ThreadStates /\ call.op \in Ops
        BY <1>1, <1>2, <1>3, <1>4
    <2> QED BY <2>1, <2>2, OneCallType
<1>7. hw' \in [Ops -> Transfers \cup {NULL}]
    <2>1. [state |-> "running", told |-> FALSE, by |-> t] \in Transfers
        BY DEF Transfers
    <2> QED BY <1>1, <2>1 DEF Start, StartRefused, TypeOK
<1>8. strayed' \subseteq Ops
    BY <1>1 DEF Start, StartRefused, TypeOK
<1>9. age' \in [Threads -> Nat]
    BY DEF Start, StartRefused, TypeOK
<1> QED BY <1>6, <1>7, <1>8, <1>9 DEF Start, StartRefused, CallsOK, TypeOK

LEMMA AfterTimeoutType ==
    ASSUME TypeOK, NEW t \in Threads, AfterTimeout(t)
    PROVE  TypeOK'
<1> DEFINE op == th[t].op
<1>1. CallsOK'
    BY GoesType DEF AfterTimeout, InDriver
<1>2. hw' \in [Ops -> Transfers \cup {NULL}]
    <2>1. CASE aborts /\ hw[op] # NULL
        <3>1. op \in Ops
            BY DEF AfterTimeout, TypeOK
        <3>2. [hw[op] EXCEPT !.state = "aborting"] \in Transfers
            BY <2>1, <3>1 DEF TypeOK, Transfers
        <3>3. hw' = [hw EXCEPT ![op] = [hw[op] EXCEPT !.state = "aborting"]]
            BY <2>1 DEF AfterTimeout
        <3> QED BY <3>2, <3>3 DEF TypeOK
    <2>2. CASE ~(aborts /\ hw[op] # NULL)
        BY <2>2 DEF AfterTimeout, TypeOK
    <2> QED BY <2>1, <2>2
<1> QED BY <1>1, <1>2 DEF AfterTimeout, CallsOK, TypeOK, history

\* What an interrupt tells is a state of the transfer.
LEMMA TellsType ==
    ASSUME TypeOK, NEW op \in Ops, NEW what \in {"half", "complete"}, Tells(op, what)
    PROVE  CallsOK' /\ token' \in [Ops -> 0 .. 1]
<1>1. ASSUME NEW t \in Threads
      PROVE  th'[t] \in ThreadStates /\ (th'[t].at # "app" => th'[t].op \in Ops)
    <2> DEFINE call == [th[t] EXCEPT !.own = what]
    <2>1. th[t] \in ThreadStates /\ (th[t].at # "app" => th[t].op \in Ops)
        BY DEF TypeOK
    <2>2. call \in ThreadStates /\ call.at = th[t].at /\ call.op = th[t].op
        BY <2>1 DEF ThreadStates
    <2>3. th'[t] = call \/ th'[t] = th[t]
        BY DEF Tells
    <2> HIDE DEF call
    <2> QED BY <2>1, <2>2, <2>3
<1>2. DOMAIN th' = Threads /\ th' = [t \in DOMAIN th' |-> th'[t]]
    BY DEF Tells
<1>3. token' \in [Ops -> 0 .. 1]
    BY DEF Tells, TypeOK
<1> QED BY <1>1, <1>2, <1>3 DEF CallsOK

\* The interrupts and the clock.
LEMMA HardwareType ==
    ASSUME TypeOK,
           (\E op \in Ops : Complete(op) \/ Half(op) \/ TransferFails(op) \/ AbortEnds(op)) \/ Tick
    PROVE  TypeOK'
<1>1. ASSUME NEW op \in Ops, Complete(op) PROVE TypeOK'
    <2>1. CallsOK' /\ token' \in [Ops -> 0 .. 1]
        BY <1>1, TellsType DEF Complete
    <2>2. hw' \in [Ops -> Transfers \cup {NULL}]
        BY <1>1 DEF Complete, TypeOK
    <2> QED BY <1>1, <2>1, <2>2 DEF Complete, CallsOK, TypeOK, history
<1>2. ASSUME NEW op \in Ops, Half(op) PROVE TypeOK'
    <2>1. CallsOK' /\ token' \in [Ops -> 0 .. 1]
        BY <1>2, TellsType DEF Half
    <2>2. hw[op] \in Transfers
        BY <1>2 DEF Half, Runs, TypeOK
    <2>3. [hw[op] EXCEPT !.told = TRUE] \in Transfers
        BY <2>2 DEF Transfers
    <2>4. hw' = [hw EXCEPT ![op] = [hw[op] EXCEPT !.told = TRUE]]
        BY <1>2 DEF Half
    <2>5. hw' \in [Ops -> Transfers \cup {NULL}]
        BY <2>3, <2>4 DEF TypeOK
    <2> QED BY <1>2, <2>1, <2>5 DEF Half, CallsOK, TypeOK, history
<1>3. ASSUME NEW op \in Ops, TransferFails(op) PROVE TypeOK'
    <2>1. hw[op] \in Transfers
        BY <1>3 DEF TransferFails, Runs, TypeOK
    <2>2. [hw[op] EXCEPT !.state = "aborting"] \in Transfers
        BY <2>1 DEF Transfers
    <2>3. \/ hw' = [hw EXCEPT ![op] = [hw[op] EXCEPT !.state = "aborting"]]
          \/ hw' = [hw EXCEPT ![op] = NULL]
        BY <1>3 DEF TransferFails
    <2>4. hw' \in [Ops -> Transfers \cup {NULL}]
        BY <2>2, <2>3 DEF TypeOK
    <2> QED BY <1>3, <2>4 DEF TransferFails, TypeOK, history
<1>4. ASSUME NEW op \in Ops, AbortEnds(op) PROVE TypeOK'
    <2>1. hw' \in [Ops -> Transfers \cup {NULL}]
        BY <1>4 DEF AbortEnds, TypeOK
    <2> QED BY <1>4, <2>1 DEF AbortEnds, TypeOK, history
<1>5. CASE Tick
    <2>1. now' \in 0 .. TickMod - 1
        BY <1>5, HalAssumption DEF Tick, TypeOK
    <2>2. age' \in [Threads -> Nat]
        BY <1>5 DEF Tick, TypeOK
    <2> QED BY <1>5, <2>1, <2>2 DEF Tick, TypeOK
<1> QED BY <1>1, <1>2, <1>3, <1>4, <1>5

LEMMA StepType == TypeOK /\ [Next]_vars => TypeOK'
<1> SUFFICES ASSUME TypeOK, [Next]_vars PROVE TypeOK'
    OBVIOUS
<1>1. CASE \E t \in Threads, op \in Ops, mode \in {"sync", "async"}, n \in Timeouts :
            Call(t, op, mode, n)
    BY <1>1, CallType
<1>2. ASSUME NEW t \in Threads, ThreadStep(t) PROVE TypeOK'
    BY <1>2, LockType, DriverType, StartType, AfterTimeoutType DEF ThreadStep
<1>3. CASE \/ \E op \in Ops : Complete(op) \/ Half(op) \/ TransferFails(op) \/ AbortEnds(op)
           \/ Tick
    BY <1>3, HardwareType
<1>4. CASE UNCHANGED vars
    BY <1>4 DEF TypeOK, vars, history
<1> QED BY <1>1, <1>2, <1>3, <1>4 DEF Next

\* Every variable keeps its type; above all, what is left of a caller's time is
\* never negative, so that the unsigned timeout the driver gets cannot wrap.
THEOREM TypeCorrect == Spec => []TypeOK
<1>1. Init => TypeOK
    BY InitType
<1>2. TypeOK /\ [Next]_vars => TypeOK'
    BY StepType
<1> QED BY <1>1, <1>2, PTL DEF Spec
-----------------------------------------------------------------------------
(***************************************************************************)
(* Where the threads are.                                                  *)
(***************************************************************************)

\* Who moves: a step of t, or a call of t, leaves the others where they are.
LEMMA OthersStay ==
    ASSUME TypeOK, NEW t \in Threads, NEW u \in Threads \ {t},
           ThreadStep(t) \/ \E op \in Ops, mode \in {"sync", "async"}, n \in Timeouts :
                                Call(t, op, mode, n)
    PROVE  th'[u] = th[u]
<1>1. CASE Lock(t) \/ LockTimeout(t) \/ CheckTime(t) \/ Return(t)
    BY <1>1 DEF TypeOK, Lock, LockTimeout, CheckTime, Return, Goes
<1>2. CASE \/ SyncStart(t) \/ SyncRefused(t) \/ SyncEnd(t) \/ Prepare(t) \/ NoBuffer(t)
           \/ Start(t) \/ StartRefused(t)
    BY <1>2 DEF TypeOK, SyncStart, SyncRefused, SyncEnd, Prepare, NoBuffer, Start, StartRefused, Goes
<1>3. CASE Ready(t) \/ WaitTimeout(t) \/ AfterTimeout(t)
    BY <1>3 DEF TypeOK, Ready, WaitTimeout, AfterTimeout, Goes
<1>4. CASE \E op \in Ops, mode \in {"sync", "async"}, n \in Timeouts : Call(t, op, mode, n)
    BY <1>4 DEF TypeOK, Call
<1> QED BY <1>1, <1>2, <1>3, <1>4 DEF ThreadStep

\* What hardware does to the transfers and to the calls.
Interrupt(op) == Complete(op) \/ Half(op) \/ TransferFails(op) \/ AbortEnds(op)

\* An interrupt changes nothing of a call but the state of its own transfer.
LEMMA InterruptMovesNobody ==
    ASSUME TypeOK, NEW op \in Ops, Interrupt(op), NEW t \in Threads
    PROVE  /\ th'[t].at = th[t].at /\ th'[t].op = th[t].op /\ th'[t].mode = th[t].mode
           /\ th'[t].since = th[t].since /\ th'[t].left = th[t].left
           /\ th'[t].early = th[t].early
           /\ th'[t].own \in {th[t].own, "half", "complete"}
<1>1. th[t] \in ThreadStates
    BY DEF TypeOK
<1>2. CASE AbortEnds(op) \/ TransferFails(op)
    BY <1>2 DEF AbortEnds, TransferFails
<1>3. CASE Complete(op)
    <2>1. th'[t] = [th[t] EXCEPT !.own = "complete"] \/ th'[t] = th[t]
        BY <1>3 DEF Complete, Tells
    <2> QED BY <1>1, <2>1 DEF ThreadStates
<1>4. CASE Half(op)
    <2>1. th'[t] = [th[t] EXCEPT !.own = "half"] \/ th'[t] = th[t]
        BY <1>4 DEF Half, Tells
    <2> QED BY <1>1, <2>1 DEF ThreadStates
<1> QED BY <1>2, <1>3, <1>4 DEF Interrupt

LEMMA InterruptKeeps ==
    ASSUME NEW op \in Ops, Interrupt(op)
    PROVE  UNCHANGED <<build, aborts, byDma, now, mutex, age, expired, strayed, halved>>
BY DEF Interrupt, Complete, Half, TransferFails, AbortEnds, history

\* The steps that a call takes inside the driver.
LEMMA DriverMoves ==
    ASSUME TypeOK, NEW t \in Threads,
           \/ SyncStart(t) \/ SyncRefused(t) \/ SyncEnd(t) \/ Prepare(t) \/ NoBuffer(t)
           \/ Start(t) \/ StartRefused(t) \/ Ready(t) \/ WaitTimeout(t) \/ AfterTimeout(t)
    PROVE  /\ th[t].at \in InDriver \ {"locked"} /\ th'[t].at \in InDriver \ {"locked"}
           /\ mutex' = mutex /\ build' = build /\ aborts' = aborts /\ now' = now
           /\ th'[t].op = th[t].op /\ th'[t].mode = th[t].mode
<1>1. th[t] \in ThreadStates
    BY DEF TypeOK
<1>2. CASE SyncStart(t) \/ SyncRefused(t) \/ SyncEnd(t)
    BY <1>1, <1>2 DEF TypeOK, ThreadStates, SyncStart, SyncRefused, SyncEnd, Goes, InDriver
<1>3. CASE Prepare(t) \/ NoBuffer(t)
    BY <1>1, <1>3 DEF TypeOK, ThreadStates, Prepare, NoBuffer, Goes, InDriver
<1>4. CASE Start(t) \/ StartRefused(t)
    BY <1>1, <1>4 DEF TypeOK, ThreadStates, Start, StartRefused, InDriver
<1>5. CASE Ready(t) \/ WaitTimeout(t) \/ AfterTimeout(t)
    BY <1>1, <1>5 DEF TypeOK, ThreadStates, Ready, WaitTimeout, AfterTimeout, Goes, InDriver
<1> QED BY <1>2, <1>3, <1>4, <1>5

LEMMA LockMoves ==
    ASSUME TypeOK, NEW t \in Threads
    PROVE  /\ Lock(t) => th[t].at = "locking" /\ th'[t] = [th[t] EXCEPT !.at = "locked"]
           /\ LockTimeout(t) => th[t].at = "locking" /\ th'[t] = AtHome
           /\ CheckTime(t) => /\ th[t].at = "locked"
                              /\ \/ th'[t] = AtHome /\ mutex' = IF HasMutex THEN NULL ELSE mutex
                                 \/ /\ th'[t] = [th[t] EXCEPT !.at = "driver",
                                                   !.left = @ - TimeConsume(th[t].since)]
                                    /\ mutex' = mutex
           /\ Return(t) => th[t].at \in {"done", "failed"} /\ th'[t] = AtHome
<1>1. th[t] \in ThreadStates
    BY DEF TypeOK
<1> QED BY <1>1 DEF TypeOK, ThreadStates, Lock, LockTimeout, CheckTime, Return, Goes

LEMMA OneInDriverStep ==
    ASSUME TypeOK, OneInDriver, [Next]_vars
    PROVE  OneInDriver'
<1> SUFFICES ASSUME HasMutex', NEW u \in Threads
             PROVE  th'[u].at \in InDriver <=> mutex' = u
    BY DEF OneInDriver
<1> DEFINE In(v) == th[v].at \in InDriver
           In2(v) == th'[v].at \in InDriver
<1>0. build' = build
    BY DEF Next, vars, Call, ThreadStep, Lock, LockTimeout, CheckTime, Return, SyncStart,
           SyncRefused, SyncEnd, Prepare, NoBuffer, Start, StartRefused, Ready, WaitTimeout,
           AfterTimeout, Complete, Half, TransferFails, AbortEnds, Tick
<1>1. HasMutex /\ \A v \in Threads : In(v) <=> mutex = v
    BY <1>0 DEF HasMutex, OneInDriver
<1>2. CASE \E t \in Threads, op \in Ops, mode \in {"sync", "async"}, n \in Timeouts :
            Call(t, op, mode, n)
    <2>1. PICK t \in Threads, op \in Ops, mode \in {"sync", "async"}, n \in Timeouts :
            Call(t, op, mode, n)
        BY <1>2
    <2>2. mutex' = mutex /\ ~In(t) /\ ~In2(t)
        BY <2>1 DEF Call, TypeOK, AtHome, InDriver
    <2>3. u # t => th'[u] = th[u]
        BY <2>1, OthersStay
    <2> QED BY <1>1, <2>2, <2>3
<1>3. ASSUME NEW t \in Threads, ThreadStep(t) PROVE In2(u) <=> mutex' = u
    <2>1. u # t => th'[u] = th[u]
        BY <1>3, OthersStay
    <2>2. NULL \notin Threads
        BY HalAssumption
    <2>3. CASE Lock(t)
        <3>1. In2(t) /\ mutex = NULL /\ mutex' = t
            BY <1>1, <2>3, LockMoves DEF Lock, InDriver, TypeOK, ThreadStates
        <3> QED BY <1>1, <2>1, <2>2, <3>1
    <2>4. CASE LockTimeout(t)
        <3>1. th[t].at = "locking" /\ th'[t].at = "app" /\ mutex' = mutex
            BY <2>4, LockMoves, AtHomeType DEF LockTimeout
        <3>2. ~In(t) /\ ~In2(t)
            BY <3>1 DEF InDriver
        <3> QED BY <1>1, <2>1, <3>1, <3>2
    <2>5. CASE CheckTime(t)
        <3>0. th[t] \in ThreadStates /\ [th[t] EXCEPT !.at = "driver", !.left = @ - TimeConsume(th[t].since)].at = "driver"
            BY DEF TypeOK, ThreadStates
        <3>1. In(t)
            BY <2>5 DEF CheckTime, InDriver
        <3>2. (~In2(t) /\ mutex' = NULL) \/ (In2(t) /\ mutex' = mutex)
            BY <1>1, <2>5, <3>0, LockMoves, AtHomeType DEF InDriver
        <3> QED BY <1>1, <2>1, <2>2, <3>1, <3>2
    <2>6. CASE Return(t)
        <3>1. th[t].at \in {"done", "failed"} /\ th'[t].at = "app" /\ mutex' = NULL
            BY <1>1, <2>6, LockMoves, AtHomeType DEF Return
        <3>2. In(t) /\ ~In2(t)
            BY <3>1 DEF InDriver
        <3> QED BY <1>1, <2>1, <2>2, <3>1, <3>2
    <2>7. CASE \/ SyncStart(t) \/ SyncRefused(t) \/ SyncEnd(t) \/ Prepare(t) \/ NoBuffer(t)
               \/ Start(t) \/ StartRefused(t) \/ Ready(t) \/ WaitTimeout(t) \/ AfterTimeout(t)
        <3>1. In(t) /\ In2(t) /\ mutex' = mutex
            BY <2>7, DriverMoves
        <3> QED BY <1>1, <2>1, <3>1
    <2> QED BY <1>3, <2>3, <2>4, <2>5, <2>6, <2>7 DEF ThreadStep
<1>4. CASE \E op \in Ops : Interrupt(op)
    <2>1. th'[u].at = th[u].at /\ mutex' = mutex
        BY <1>4, InterruptMovesNobody, InterruptKeeps
    <2> QED BY <1>1, <2>1
<1>5. CASE Tick \/ UNCHANGED vars
    BY <1>1, <1>5 DEF Tick, vars
<1> QED BY <1>2, <1>3, <1>4, <1>5 DEF Next, Interrupt

\* With a mutex one thread at a time is in the driver, and every way out of a
\* call gives the mutex back: hal_device_read and write, sync and async.
THEOREM OneAtATime == Spec => []OneInDriver
<1>1. Init => OneInDriver
    BY HalAssumption DEF Init, OneInDriver, AtHome, InDriver
<1>2. TypeOK /\ OneInDriver /\ [Next]_vars => OneInDriver'
    BY OneInDriverStep
<1> QED BY <1>1, <1>2, TypeCorrect, PTL DEF Spec
-----------------------------------------------------------------------------
(***************************************************************************)
(* Time.                                                                   *)
(***************************************************************************)

\* A call that is not in the driver yet is no older than its timeout and a
\* tick, and the counter has wrapped once at most since it began.
CallClock(t) ==
    /\ th[t].left \in Timeouts /\ age[t] <= th[t].left + 1
    /\ now = th[t].since + age[t] \/ now = th[t].since + age[t] - TickMod

ClockOK == \A t \in Threads : th[t].at \in {"locking", "locked"} => CallClock(t)

LEMMA NextTick ==
    ASSUME now \in 0 .. TickMod - 1, NEW next, next = (now + 1) % TickMod
    PROVE  next = IF now = TickMod - 1 THEN 0 ELSE now + 1
<1>1. TickMod \in Nat \ {0} /\ now \in Nat /\ now < TickMod
    BY HalAssumption
<1>2. CASE now = TickMod - 1
    BY <1>1, <1>2
<1>3. CASE now + 1 < TickMod
    BY <1>1, <1>3
<1> QED BY <1>1, <1>2, <1>3

\* So the counter, wrapped or not, gives the age of the call.
LEMMA ConsumedIsAge ==
    ASSUME TypeOK, NEW t \in Threads, CallClock(t)
    PROVE  TimeConsume(th[t].since) = age[t]
<1>1. th[t] \in ThreadStates /\ age[t] \in Nat /\ now \in 0 .. TickMod - 1
    BY DEF TypeOK
<1>2. th[t].since \in 0 .. TickMod - 1
    BY <1>1 DEF ThreadStates
<1>3. TickMod \in Nat /\ th[t].left \in Nat /\ th[t].left + 2 < TickMod
    BY HalAssumption DEF CallClock
<1> QED BY <1>1, <1>2, <1>3 DEF CallClock, TimeConsume

LEMMA ClockStep ==
    ASSUME TypeOK, ClockOK, [Next]_vars
    PROVE  ClockOK'
<1> SUFFICES ASSUME NEW u \in Threads, th'[u].at \in {"locking", "locked"}
             PROVE  CallClock(u)'
    BY DEF ClockOK
<1>1. th[u] \in ThreadStates /\ age[u] \in Nat /\ now \in 0 .. TickMod - 1
    BY DEF TypeOK
<1>2. ASSUME th'[u].at = th[u].at, th'[u].since = th[u].since, th'[u].left = th[u].left,
             now' = now, age'[u] = age[u]
      PROVE  CallClock(u)'
    BY <1>2 DEF ClockOK, CallClock
<1>3. CASE \E t \in Threads, op \in Ops, mode \in {"sync", "async"}, n \in Timeouts :
            Call(t, op, mode, n)
    <2>1. PICK t \in Threads, op \in Ops, mode \in {"sync", "async"}, n \in Timeouts :
            Call(t, op, mode, n)
        BY <1>3
    <2>2. now' = now /\ age' = [age EXCEPT ![t] = 0]
        BY <2>1 DEF Call
    <2>3. CASE u = t
        <3>1. th'[u].since = now /\ th'[u].left = n
            BY <2>1, <2>3 DEF Call, TypeOK, AtHome
        <3>2. age'[u] = 0
            BY <2>2, <2>3 DEF TypeOK
        <3>3. n \in Nat
            BY HalAssumption
        <3> QED BY <1>1, <2>2, <3>1, <3>2, <3>3 DEF CallClock
    <2>4. CASE u # t
        <3>1. th'[u] = th[u]
            BY <2>1, <2>4, OthersStay
        <3>2. age'[u] = age[u]
            BY <2>2, <2>4 DEF TypeOK
        <3> QED BY <1>2, <2>2, <3>1, <3>2
    <2> QED BY <2>3, <2>4
<1>4. ASSUME NEW t \in Threads, ThreadStep(t) PROVE CallClock(u)'
    <2>1. now' = now
        BY <1>4 DEF ThreadStep, Lock, LockTimeout, CheckTime, Return, SyncStart, SyncRefused,
                    SyncEnd, Prepare, NoBuffer, Start, StartRefused, Ready, WaitTimeout, AfterTimeout
    <2>2. age' = age \/ age' = [age EXCEPT ![t] = 0]
        BY <1>4 DEF ThreadStep, Lock, LockTimeout, CheckTime, Return, SyncStart, SyncRefused,
                    SyncEnd, Prepare, NoBuffer, Start, StartRefused, Ready, WaitTimeout,
                    AfterTimeout, history
    <2>3. CASE u # t
        <3>1. th'[u] = th[u]
            BY <1>4, <2>3, OthersStay
        <3>2. age'[u] = age[u]
            BY <2>2, <2>3 DEF TypeOK
        <3> QED BY <1>2, <2>1, <3>1, <3>2
    <2>4. CASE u = t /\ Lock(t)
        <3>1. th[u].at = "locking" /\ th'[u] = [th[u] EXCEPT !.at = "locked"] /\ age' = age
            BY <2>4, LockMoves DEF Lock, history
        <3>2. th'[u].since = th[u].since /\ th'[u].left = th[u].left
            BY <1>1, <3>1 DEF ThreadStates
        <3> QED BY <2>1, <3>1, <3>2 DEF ClockOK, CallClock
    <2>5. CASE u = t /\ (LockTimeout(t) \/ CheckTime(t) \/ Return(t))
        <3>1. [th[t] EXCEPT !.at = "driver", !.left = @ - TimeConsume(th[t].since)].at = "driver"
            BY <1>1, <2>5 DEF ThreadStates
        <3>2. th'[u].at = "app" \/ th'[u].at = "driver"
            BY <2>5, <3>1, LockMoves, AtHomeType
        <3> QED BY <3>2
    <2>6. CASE u = t /\ \/ SyncStart(t) \/ SyncRefused(t) \/ SyncEnd(t) \/ Prepare(t)
                        \/ NoBuffer(t) \/ Start(t) \/ StartRefused(t)
                        \/ Ready(t) \/ WaitTimeout(t) \/ AfterTimeout(t)
        BY <2>6, DriverMoves DEF InDriver
    <2> QED BY <1>4, <2>3, <2>4, <2>5, <2>6 DEF ThreadStep
<1>5. CASE \E op \in Ops : Interrupt(op)
    <2>1. now' = now /\ age' = age
        BY <1>5, InterruptKeeps
    <2> QED BY <1>2, <1>5, <2>1, InterruptMovesNobody
<1>6. CASE Tick
    <2>1. th' = th /\ now' = (now + 1) % TickMod
        BY <1>6 DEF Tick
    <2>2. now' = IF now = TickMod - 1 THEN 0 ELSE now + 1
        BY <1>1, <2>1, NextTick
    <2>3. age'[u] = age[u] + 1
        BY <1>6, <2>1 DEF Tick, OnTheClock
    <2>4. CallClock(u)
        BY <2>1 DEF ClockOK
    <2>5. TickMod \in Nat /\ th[u].left \in Nat /\ th[u].left + 2 < TickMod
        BY <2>4, HalAssumption DEF CallClock
    <2>6. age[u] < th[u].left + 1
        BY <1>1, <1>6, <2>1, <2>5 DEF Tick, OnTheClock
    <2>7. th[u].since \in 0 .. TickMod - 1
        BY <1>1 DEF ThreadStates
    <2> QED BY <1>1, <2>1, <2>2, <2>3, <2>4, <2>5, <2>6, <2>7 DEF CallClock
<1>7. CASE UNCHANGED vars
    BY <1>2, <1>7 DEF vars, history
<1> QED BY <1>3, <1>4, <1>5, <1>6, <1>7 DEF Next, Interrupt

LEMMA LeftTimeStep ==
    ASSUME TypeOK, ClockOK, [Next]_vars, NEW u \in Threads,
           th[u].at = "locked", th'[u].at # "locked"
    PROVE  IF th'[u].at = "driver" THEN th'[u].left = th[u].left - age[u] /\ th'[u].left > 0
           ELSE age[u] >= th[u].left
<1> DEFINE consumed == TimeConsume(th[u].since)
<1>1. th[u] \in ThreadStates /\ age[u] \in Nat
    BY DEF TypeOK
<1>2. consumed = age[u]
    BY ConsumedIsAge DEF ClockOK
<1>3. CheckTime(u)
    <2>1. CASE \E t \in Threads, op \in Ops, mode \in {"sync", "async"}, n \in Timeouts :
                Call(t, op, mode, n)
        <3>1. PICK t \in Threads, op \in Ops, mode \in {"sync", "async"}, n \in Timeouts :
                Call(t, op, mode, n)
            BY <2>1
        <3>2. u # t
            BY <3>1 DEF Call
        <3> QED BY <3>1, <3>2, OthersStay
    <2>2. ASSUME NEW t \in Threads, ThreadStep(t) PROVE CheckTime(u)
        <3>1. u = t
            BY <2>2, OthersStay
        <3>2. ~ (\/ SyncStart(t) \/ SyncRefused(t) \/ SyncEnd(t) \/ Prepare(t) \/ NoBuffer(t)
                 \/ Start(t) \/ StartRefused(t) \/ Ready(t) \/ WaitTimeout(t) \/ AfterTimeout(t))
            BY <3>1, DriverMoves
        <3>3. ~ (Lock(t) \/ LockTimeout(t) \/ Return(t))
            BY <3>1 DEF Lock, LockTimeout, Return
        <3> QED BY <2>2, <3>1, <3>2, <3>3 DEF ThreadStep
    <2>3. CASE \E op \in Ops : Interrupt(op)
        BY <2>3, InterruptMovesNobody
    <2>4. CASE Tick \/ UNCHANGED vars
        BY <2>4 DEF Tick, vars
    <2> QED BY <2>1, <2>2, <2>3, <2>4 DEF Next, Interrupt
<1>4. th[u].left \in Nat
    BY <1>1 DEF ThreadStates
<1>5. CASE consumed >= th[u].left
    <2>1. th'[u].at = "app"
        BY <1>3, <1>5, AtHomeType DEF CheckTime, TypeOK
    <2> QED BY <1>2, <1>5, <2>1
<1>6. CASE ~(consumed >= th[u].left)
    <2>1. th'[u].at = "driver" /\ th'[u].left = th[u].left - consumed
        BY <1>1, <1>3, <1>6 DEF CheckTime, TypeOK, ThreadStates
    <2> QED BY <1>1, <1>2, <1>4, <1>6, <2>1
<1> QED BY <1>5, <1>6

\* HAL_DEVICE_TRY_LOCK hands the driver exactly what is left of the caller's
\* time, for any modulus of the tick counter and wherever it wraps.
THEOREM TimeLeft == Spec => LeftTimeIsRight
<1>1. Init => ClockOK
    BY AtHomeType DEF Init, ClockOK
<1>2. TypeOK /\ ClockOK /\ [Next]_vars => ClockOK'
    BY ClockStep
<1>3. TypeOK /\ ClockOK /\ [Next]_vars =>
        [\A t \in Threads : th[t].at = "locked" /\ th'[t].at # "locked" =>
            IF th'[t].at = "driver" THEN th'[t].left = th[t].left - age[t] /\ th'[t].left > 0
            ELSE age[t] >= th[t].left]_vars
    BY LeftTimeStep
<1> QED BY <1>1, <1>2, <1>3, TypeCorrect, PTL DEF Spec, LeftTimeIsRight
-----------------------------------------------------------------------------
(***************************************************************************)
(* Transfers: who is answered by which.                                    *)
(***************************************************************************)

\* Why there may be a token, or a transfer, that no call awaits.
Excused(op) == op \in expired \cup halved

\* What a call may rely on, wherever it is.
CallOK(t) ==
    LET call == th[t]
        op == call.op
    IN
    /\ call.at # "app" => (build = "none" => t = Main) /\ (build = "sugar" => t = UserOf[op])
    /\ call.own # "none" => call.at \in {"waiting", "late", "done", "failed"}
    /\ call.own = "half" => byDma /\ op \in Rx
    /\ call.at = "blocking" => call.mode = "sync"
    /\ call.at = "prepared" /\ build = "none" /\ token[op] = 1 => Excused(op)
    /\ call.at = "waiting" =>
        \/ call.early \/ call.own \in {"half", "complete"}
        \/ token[op] = 0 /\ (Runs(op) => hw[op].by = t)
    /\ call.at = "late" => op \in expired
    /\ call.at = "failed" /\ call.own # "none" => op \in expired
    /\ call.at = "done" /\ call.mode = "async" =>
        call.own = "complete" \/ call.early \/ (call.own = "half" /\ op \in halved)
    /\ call.at = "done" /\ call.own # "none" /\ token[op] = 1 /\ build # "none" => Excused(op)

\* Whose a transfer is, and why it may run on without its caller.
TransferOK(op) ==
    LET by == hw[op].by IN
    hw[op] # NULL =>
        /\ by = NULL /\ Runs(op) =>
            op \in halved \/ (op \in expired /\ (~aborts \/ op \in strayed))
        /\ by # NULL => th[by].op = op /\ th[by].at \in {"waiting", "late", "done", "failed"}
        /\ by # NULL /\ Runs(op) =>
            /\ th[by].own \in {"running", "half"}
            /\ th[by].at = "waiting" /\ th[by].own = "running" /\ token[op] = 1 => op \in strayed
            /\ th[by].at = "done" => op \in strayed \cup halved
            /\ th[by].at = "failed" => ~aborts

TokenOK(op) ==
    token[op] = 1 /\ build # "none" /\ ~Excused(op) =>
        \E t \in Threads : th[t].op = op /\ th[t].own # "none"

\* A flag that is polled is found set too early by a com driver only after a
\* success at the half.
BareOK ==
    build = "none" /\ aborts =>
        /\ strayed \subseteq halved
        /\ \A t \in Threads :
            /\ th[t].early => th[t].op \in halved
            /\ th[t].at = "prepared" /\ token[th[t].op] = 1 => th[t].op \in halved

TransfersOK ==
    /\ \A t \in Threads : CallOK(t)
    /\ \A op \in Ops : TransferOK(op) /\ TokenOK(op)
    /\ strayed \subseteq expired \cup halved
    /\ (halved # {} => byDma) /\ halved \subseteq Rx
    /\ BareOK

\* By the mutex, or by who may call, one thread at a time is in the driver for
\* each direction.
LEMMA Alone ==
    ASSUME TypeOK, OneInDriver, \A v \in Threads : CallOK(v),
           NEW t \in Threads, NEW u \in Threads, th[t].op = th[u].op,
           th[t].at \in InDriver, th[u].at \in InDriver
    PROVE  t = u
<1>1. CASE build = "os"
    BY <1>1 DEF OneInDriver, HasMutex
<1>2. CASE build \in {"sugar", "none"}
    BY <1>2 DEF CallOK, InDriver
<1> QED BY <1>1, <1>2 DEF TypeOK

\* What keeps a call's, a transfer's and a token's part of the invariant, when
\* the step is another's.
LEMMA CallKept ==
    ASSUME NEW u \in Threads, CallOK(u), th'[u] = th[u], UNCHANGED <<build, aborts, byDma>>,
           expired \subseteq expired', halved \subseteq halved', NEW op, op = th[u].op,
           th[u].at # "app" => token'[op] \in {token[op], 0},
           th[u].at = "waiting" /\ Runs(op)' =>
                Runs(op) /\ (hw'[op].by = hw[op].by \/ hw[op].by # u)
    PROVE  CallOK(u)'
BY DEF CallOK, Excused, Runs

LEMMA TransferKept ==
    ASSUME TypeOK, TransfersOK, NEW t \in Threads, \A u \in Threads \ {t} : th'[u] = th[u],
           NEW op \in Ops, hw'[op] = hw[op], hw[op] # NULL => hw[op].by # t,
           UNCHANGED aborts, token'[op] \in {token[op], 0},
           expired \subseteq expired', strayed \subseteq strayed', halved \subseteq halved'
    PROVE  TransferOK(op)'
<1>1. CASE hw[op] # NULL
    <2>1. hw[op] \in Transfers /\ TransferOK(op)
        BY <1>1 DEF TypeOK, TransfersOK
    <2>2. hw[op].by # NULL => th'[hw[op].by] = th[hw[op].by]
        BY <1>1, <2>1 DEF Transfers
    <2> QED BY <1>1, <2>1, <2>2 DEF TransferOK, Runs
<1>2. CASE hw[op] = NULL
    BY <1>2 DEF TransferOK
<1> QED BY <1>1, <1>2

LEMMA TokenKept ==
    ASSUME TransfersOK, NEW t \in Threads, \A u \in Threads \ {t} : th'[u] = th[u],
           NEW op \in Ops, token'[op] \in {token[op], 0}, UNCHANGED build,
           expired \subseteq expired', halved \subseteq halved',
           th[t].op = op /\ th[t].own # "none" /\ token'[op] = 1 /\ build # "none" =>
                (th'[t].op = op /\ th'[t].own # "none") \/ Excused(op)'
    PROVE  TokenOK(op)'
<1> SUFFICES ASSUME token'[op] = 1, build # "none", ~Excused(op)'
             PROVE  \E u \in Threads : th'[u].op = op /\ th'[u].own # "none"
    BY DEF TokenOK
<1>1. PICK u \in Threads : th[u].op = op /\ th[u].own # "none"
    BY DEF TransfersOK, TokenOK, Excused
<1> QED BY <1>1

\* A step outside the wait: the call has nothing of a transfer, before or after.
LEMMA Apart ==
    ASSUME TypeOK, TransfersOK, NEW t \in Threads, \A u \in Threads \ {t} : th'[u] = th[u],
           th[t].own = "none", th'[t].own = "none", th[t].at \notin {"waiting", "late", "done", "failed"},
           UNCHANGED <<build, aborts, byDma, token, hw, expired, strayed, halved>>,
           CallOK(t)', BareOK'
    PROVE  TransfersOK'
<1>1. ASSUME NEW u \in Threads PROVE CallOK(u)'
    <2>1. CASE u # t
        BY <2>1, CallKept DEF TransfersOK, Runs
    <2> QED BY <2>1
<1>2. ASSUME NEW op \in Ops PROVE TransferOK(op)'
    <2>1. hw[op] # NULL => hw[op].by # t
        BY HalAssumption DEF TransfersOK, TransferOK
    <2> QED BY <2>1, TransferKept
<1>3. ASSUME NEW op \in Ops PROVE TokenOK(op)'
    BY TokenKept
<1> QED BY <1>1, <1>2, <1>3 DEF TransfersOK

LEMMA InitTransfers == Init => TransfersOK
<1> SUFFICES ASSUME Init PROVE TransfersOK
    OBVIOUS
<1>1. \A t \in Threads : th[t].at = "app" /\ th[t].own = "none" /\ ~th[t].early
    BY DEF Init, AtHome
<1>2. \A op \in Ops : hw[op] = NULL /\ token[op] = 0
    BY DEF Init
<1> QED BY <1>1, <1>2 DEF Init, TransfersOK, CallOK, TransferOK, TokenOK, BareOK

LEMMA CallTransfers ==
    ASSUME TypeOK, TransfersOK, NEW t \in Threads, NEW op \in Ops, NEW mode \in {"sync", "async"},
           NEW n \in Timeouts, Call(t, op, mode, n)
    PROVE  TransfersOK'
<1>1. \A u \in Threads \ {t} : th'[u] = th[u]
    BY OthersStay
<1>2. /\ th'[t].at = "locking" /\ th'[t].own = "none" /\ th'[t].op = op
      /\ th'[t].early = FALSE
    BY DEF Call, TypeOK, AtHome
<1>3. th[t].at = "app" /\ th[t].own = "none"
    <2>1. th[t] \in ThreadStates
        BY DEF TypeOK
    <2> QED BY <2>1 DEF Call, TransfersOK, CallOK
<1>4. CallOK(t)'
    BY <1>2 DEF CallOK, Call
<1>5. BareOK'
    BY <1>1, <1>2 DEF BareOK, TransfersOK, Call
<1> QED BY <1>1, <1>2, <1>3, <1>4, <1>5, Apart DEF Call

LEMMA LockTransfers ==
    ASSUME TypeOK, TransfersOK, NEW t \in Threads, Lock(t) \/ LockTimeout(t) \/ CheckTime(t)
    PROVE  TransfersOK'
<1>1. \A u \in Threads \ {t} : th'[u] = th[u]
    BY OthersStay DEF ThreadStep
<1>2. th[t] \in ThreadStates /\ th[t].at \in {"locking", "locked"}
    BY DEF TypeOK, Lock, LockTimeout, CheckTime
<1>3. th[t].own = "none"
    BY <1>2 DEF TransfersOK, CallOK
<1>4. AtHome.own = "none" /\ ~AtHome.early
    BY DEF AtHome
<1>5. /\ th'[t].own = "none"
      /\ th'[t].early => th[t].early /\ th'[t].op = th[t].op
      /\ \/ th'[t].at = "app"
         \/ th'[t].at \in {"locked", "driver"} /\ th'[t].op = th[t].op
    <2>1. CASE Lock(t)
        <3>1. th'[t] = [th[t] EXCEPT !.at = "locked"]
            BY <2>1, LockMoves
        <3> QED BY <1>2, <1>3, <3>1 DEF ThreadStates
    <2>2. CASE th'[t] = AtHome
        BY <1>4, <2>2, AtHomeType
    <2>3. CASE th'[t] = [th[t] EXCEPT !.at = "driver", !.left = @ - TimeConsume(th[t].since)]
        BY <1>2, <1>3, <2>3 DEF ThreadStates
    <2> QED BY <2>1, <2>2, <2>3, LockMoves
<1>6. UNCHANGED <<build, aborts, byDma, token, hw, expired, strayed, halved>>
    BY DEF Lock, LockTimeout, CheckTime, history
<1>7. CallOK(t)'
    BY <1>2, <1>5, <1>6 DEF TransfersOK, CallOK
<1>8. BareOK'
    BY <1>1, <1>2, <1>5, <1>6 DEF TransfersOK, BareOK
<1> QED BY <1>1, <1>2, <1>3, <1>5, <1>6, <1>7, <1>8, Apart

\* The steps of the driver that have to do with no transfer.
LEMMA SyncTransfers ==
    ASSUME TypeOK, TransfersOK, NEW t \in Threads,
           SyncStart(t) \/ SyncRefused(t) \/ SyncEnd(t) \/ NoBuffer(t)
    PROVE  TransfersOK'
<1>1. \A u \in Threads \ {t} : th'[u] = th[u]
    BY OthersStay DEF ThreadStep
<1>2. th[t] \in ThreadStates /\ th[t].at \in {"driver", "blocking"}
    BY DEF TypeOK, SyncStart, SyncRefused, SyncEnd, NoBuffer
<1>3. th[t].own = "none"
    BY <1>2 DEF TransfersOK, CallOK
<1>4. /\ th'[t].own = "none" /\ th'[t].early = th[t].early
      /\ th'[t].op = th[t].op /\ th'[t].mode = th[t].mode
      /\ \/ th'[t].at = "blocking" /\ th[t].mode = "sync"
         \/ th'[t].at = "done" /\ th[t].at = "blocking"
         \/ th'[t].at = "failed"
    <2>1. CASE SyncStart(t)
        BY <1>2, <1>3, <2>1 DEF SyncStart, TypeOK, ThreadStates
    <2>2. CASE SyncEnd(t)
        BY <1>2, <1>3, <2>2 DEF SyncEnd, Goes, TypeOK, ThreadStates
    <2>3. CASE NoBuffer(t) \/ SyncRefused(t)
        BY <1>2, <1>3, <2>3 DEF NoBuffer, SyncRefused, Goes, TypeOK, ThreadStates
    <2> QED BY <2>1, <2>2, <2>3
<1>5. UNCHANGED <<build, aborts, byDma, token, hw, expired, strayed, halved>>
    BY DEF SyncStart, SyncRefused, SyncEnd, NoBuffer, history
<1>6. CallOK(t)'
    BY <1>2, <1>4, <1>5 DEF TransfersOK, CallOK
<1>7. BareOK'
    BY <1>1, <1>4, <1>5 DEF TransfersOK, BareOK
<1> QED BY <1>1, <1>2, <1>3, <1>4, <1>5, <1>6, <1>7, Apart

\* A call that returns gives up its transfer and what it knew of it.
LEMMA ReturnTransfers ==
    ASSUME TypeOK, TransfersOK, NEW t \in Threads, Return(t)
    PROVE  TransfersOK'
<1>1. \A u \in Threads \ {t} : th'[u] = th[u]
    BY OthersStay DEF ThreadStep
<1>2. th[t] \in ThreadStates /\ th[t].at \in {"done", "failed"} /\ CallOK(t)
    BY DEF TypeOK, Return, TransfersOK
<1>3. th'[t] = AtHome /\ AtHome.own = "none" /\ ~AtHome.early /\ AtHome.at = "app"
    BY LockMoves DEF AtHome
<1>4. UNCHANGED <<build, aborts, byDma, token, expired, strayed, halved>>
    BY DEF Return, history
<1>5. ASSUME NEW op \in Ops
      PROVE  \/ hw'[op] = hw[op] /\ (hw[op] = NULL \/ hw[op].by # t)
             \/ /\ hw[op] # NULL /\ hw[op].by = t /\ hw'[op].by = NULL
                /\ Runs(op)' => Runs(op)
    <2>1. CASE hw[op] # NULL /\ hw[op].by = t
        <3>1. hw[op] \in Transfers /\ hw'[op] = [hw[op] EXCEPT !.by = NULL]
            BY <2>1 DEF Return, TypeOK
        <3>2. hw'[op] \in Transfers /\ hw'[op].state = hw[op].state /\ hw'[op].by = NULL
            BY <3>1 DEF Transfers
        <3> QED BY <2>1, <3>2 DEF Runs
    <2>2. CASE ~(hw[op] # NULL /\ hw[op].by = t)
        BY <2>2 DEF Return
    <2> QED BY <2>1, <2>2
<1>6. ASSUME NEW u \in Threads PROVE CallOK(u)'
    <2>1. CASE u = t
        BY <1>3, <2>1 DEF CallOK
    <2>2. CASE u # t
        <3>1. th'[u] = th[u] /\ CallOK(u) /\ (th[u].at = "waiting" => th[u].op \in Ops)
            BY <1>1, <2>2 DEF TransfersOK, TypeOK
        <3>2. th[u].at = "waiting" /\ Runs(th[u].op)' =>
                /\ Runs(th[u].op)
                /\ hw'[th[u].op].by = hw[th[u].op].by \/ hw[th[u].op].by # u
            BY <1>5, <2>2, <3>1 DEF Runs
        <3> QED BY <1>4, <3>1, <3>2, CallKept
    <2> QED BY <2>1, <2>2
<1>7. ASSUME NEW op \in Ops PROVE TransferOK(op)'
    <2>1. CASE hw'[op] = hw[op] /\ (hw[op] = NULL \/ hw[op].by # t)
        BY <1>1, <1>4, <2>1, TransferKept
    <2>2. CASE hw[op] # NULL /\ hw[op].by = t /\ hw'[op].by = NULL /\ (Runs(op)' => Runs(op))
        <3>1. Runs(op) => op \in halved \/ (op \in expired /\ (~aborts \/ op \in strayed))
            <4>1. TransferOK(op) /\ strayed \subseteq expired \cup halved
                BY DEF TransfersOK
            <4>2. Runs(op) => /\ th[t].op = op /\ th[t].own # "none"
                              /\ th[t].at = "done" => op \in strayed \cup halved
                              /\ th[t].at = "failed" => ~aborts
                BY <2>2, <4>1, HalAssumption DEF TransferOK
            <4> QED BY <1>2, <4>1, <4>2 DEF CallOK
        <3> QED BY <1>4, <2>2, <3>1 DEF TransferOK
    <2> QED BY <1>5, <2>1, <2>2
<1>8. ASSUME NEW op \in Ops PROVE TokenOK(op)'
    <2>1. token[op] = 1 /\ build # "none" /\ th[t].op = op /\ th[t].own # "none" => Excused(op)
        BY <1>2 DEF CallOK, Excused
    <2> QED BY <1>1, <1>4, <2>1, TokenKept DEF Excused
<1>9. BareOK'
    BY <1>1, <1>3, <1>4 DEF TransfersOK, BareOK
<1> QED BY <1>4, <1>6, <1>7, <1>8, <1>9 DEF TransfersOK

LEMMA PrepareTransfers ==
    ASSUME TypeOK, TransfersOK, NEW t \in Threads, Prepare(t)
    PROVE  TransfersOK'
<1> DEFINE o == th[t].op
<1>1. \A u \in Threads \ {t} : th'[u] = th[u]
    BY OthersStay DEF ThreadStep
<1>2. th[t] \in ThreadStates /\ th[t].at = "driver" /\ CallOK(t) /\ o \in Ops
    BY DEF TypeOK, Prepare, TransfersOK
<1>3. /\ th'[t].at = "prepared" /\ th'[t].own = "none" /\ th'[t].op = o
      /\ th'[t].early = th[t].early
    BY <1>2 DEF Prepare, Goes, TypeOK, ThreadStates, CallOK
<1>4. UNCHANGED <<build, aborts, byDma, hw, expired, strayed, halved>>
    BY DEF Prepare, history
<1>5. /\ \A op \in Ops : token'[op] \in {token[op], 0}
      /\ build = "none" => token'[o] = 0
    BY <1>2 DEF Prepare, TypeOK
<1>6. ASSUME NEW u \in Threads PROVE CallOK(u)'
    <2>1. CASE u = t
        BY <1>2, <1>3, <1>4, <1>5, <2>1 DEF CallOK
    <2>2. CASE u # t
        <3>1. th'[u] = th[u] /\ CallOK(u) /\ (th[u].at # "app" => th[u].op \in Ops)
            BY <1>1, <2>2 DEF TransfersOK, TypeOK
        <3> QED BY <1>4, <1>5, <3>1, CallKept DEF Runs
    <2> QED BY <2>1, <2>2
<1>7. ASSUME NEW op \in Ops PROVE TransferOK(op)'
    <2>1. hw[op] # NULL => hw[op].by # t
        BY <1>2, HalAssumption DEF TransfersOK, TransferOK
    <2> QED BY <1>1, <1>4, <1>5, <2>1, TransferKept
<1>8. ASSUME NEW op \in Ops PROVE TokenOK(op)'
    <2>1. th[t].own = "none"
        BY <1>2 DEF CallOK
    <2> QED BY <1>1, <1>4, <1>5, <2>1, TokenKept
<1>9. BareOK'
    BY <1>1, <1>3, <1>4, <1>5 DEF TransfersOK, BareOK, TypeOK
<1> QED BY <1>4, <1>6, <1>7, <1>8, <1>9 DEF TransfersOK

\* Nobody else in the driver has the direction of a call that is there.
LEMMA NobodyElse ==
    ASSUME TypeOK, OneInDriver, TransfersOK, NEW t \in Threads, th[t].at \in InDriver,
           NEW u \in Threads \ {t}, th[u].op = th[t].op
    PROVE  th[u].at \notin InDriver /\ th[u].own = "none"
<1>1. th[u].at \notin InDriver
    BY Alone DEF TransfersOK
<1>2. CallOK(u)
    BY DEF TransfersOK
<1>3. th[u].own \in {"none", "running", "half", "complete"}
    BY DEF TypeOK, ThreadStates
<1> QED BY <1>1, <1>2, <1>3 DEF CallOK, InDriver

\* A transfer of that direction is its own, or nobody's.
LEMMA OwnTransfer ==
    ASSUME TypeOK, OneInDriver, TransfersOK, NEW t \in Threads, th[t].at \in InDriver,
           th[t].op \in Ops, hw[th[t].op] # NULL
    PROVE  hw[th[t].op] \in Transfers /\ hw[th[t].op].by \in {t, NULL}
<1> DEFINE op == th[t].op
           by == hw[op].by
<1>1. hw[op] \in Transfers /\ by \in Threads \cup {NULL}
    BY DEF TypeOK, Transfers
<1>2. by # NULL => th[by].op = op /\ th[by].at \in InDriver
    BY DEF TransfersOK, TransferOK, InDriver
<1> QED BY <1>1, <1>2, NobodyElse

\* A call that starts a transfer on a token finds one that is explained.
LEMMA TokenIsLeft ==
    ASSUME TypeOK, OneInDriver, TransfersOK, NEW t \in Threads, th[t].at = "prepared",
           token[th[t].op] = 1
    PROVE  Excused(th[t].op)
<1>1. CASE build = "none"
    BY <1>1 DEF TransfersOK, CallOK
<1>2. CASE build # "none"
    <2>1. \A u \in Threads : th[u].op = th[t].op => th[u].own = "none"
        <3>1. th[t].own = "none"
            BY DEF TransfersOK, CallOK
        <3> QED BY <3>1, NobodyElse DEF InDriver
    <2>2. th[t].op \in Ops
        BY DEF TypeOK
    <2> QED BY <1>2, <2>1, <2>2 DEF TransfersOK, TokenOK
<1> QED BY <1>1, <1>2

LEMMA StartTransfers ==
    ASSUME TypeOK, OneInDriver, TransfersOK, NEW t \in Threads, Start(t)
    PROVE  TransfersOK'
<1> DEFINE o == th[t].op
<1>1. \A u \in Threads \ {t} : th'[u] = th[u]
    BY OthersStay DEF ThreadStep
<1>2. /\ th[t] \in ThreadStates /\ th[t].at = "prepared" /\ CallOK(t) /\ o \in Ops
      /\ th[t].own = "none" /\ th[t].at \in InDriver
    BY DEF TypeOK, Start, TransfersOK, CallOK, InDriver
<1>3. UNCHANGED <<build, aborts, byDma, token, expired, halved>>
    BY DEF Start
<1>4. \A u \in Threads \ {t} : th[u].op = o => th[u].at \notin InDriver /\ th[u].own = "none"
    BY <1>2, NobodyElse
<1>5. /\ th'[t].at = "waiting" /\ th'[t].own = "running" /\ th'[t].op = o
      /\ (th'[t].early <=> token[o] = 1)
    BY <1>2 DEF Start, TypeOK, ThreadStates
<1>6. /\ hw' = [hw EXCEPT ![o] = [state |-> "running", told |-> FALSE, by |-> t]]
      /\ strayed' = IF token[o] = 1 THEN strayed \cup {o} ELSE strayed
    BY DEF Start
<1>7. hw'[o].state = "running" /\ hw'[o].by = t /\ \A op \in Ops \ {o} : hw'[op] = hw[op]
    BY <1>2, <1>6 DEF TypeOK
<1>8. token[o] \in {0, 1} /\ (token[o] = 1 => Excused(o))
    <2>1. token[o] \in 0 .. 1
        BY <1>2 DEF TypeOK
    <2>2. token[o] = 1 => Excused(o)
        BY <1>2, TokenIsLeft
    <2> QED BY <2>1, <2>2
<1>9. ASSUME NEW u \in Threads PROVE CallOK(u)'
    <2>1. CASE u = t
        BY <1>2, <1>3, <1>5, <1>7, <1>8, <2>1 DEF CallOK
    <2>2. CASE u # t
        <3>1. th'[u] = th[u] /\ CallOK(u) /\ (th[u].at # "app" => th[u].op \in Ops)
            BY <1>1, <2>2 DEF TransfersOK, TypeOK
        <3>2. th[u].at = "waiting" => th[u].op # o
            BY <1>4, <2>2 DEF InDriver
        <3> QED BY <1>3, <1>7, <3>1, <3>2, CallKept DEF Runs
    <2> QED BY <2>1, <2>2
<1>10. ASSUME NEW op \in Ops PROVE TransferOK(op)'
    <2>1. CASE op = o
        <3>1. t # NULL
            BY HalAssumption
        <3> QED BY <1>3, <1>5, <1>6, <1>7, <2>1, <3>1 DEF TransferOK
    <2>2. CASE op # o
        <3>1. hw[op] # NULL => hw[op].by # t
            BY <2>2, HalAssumption DEF TransfersOK, TransferOK
        <3> QED BY <1>1, <1>3, <1>6, <1>7, <2>2, <3>1, TransferKept
    <2> QED BY <2>1, <2>2
<1>11. ASSUME NEW op \in Ops PROVE TokenOK(op)'
    BY <1>1, <1>2, <1>3, TokenKept
<1>12. (strayed \subseteq expired \cup halved)'
    BY <1>3, <1>6, <1>8 DEF TransfersOK, Excused
<1>13. BareOK'
    <2> SUFFICES ASSUME build = "none", aborts PROVE BareOK'
        BY <1>3 DEF BareOK
    <2>1. BareOK /\ (token[o] = 1 => o \in halved) /\ strayed \subseteq halved
        BY <1>2 DEF TransfersOK, BareOK
    <2>2. strayed' \subseteq halved /\ (th'[t].early => o \in halved)
        BY <1>5, <1>6, <2>1
    <2> QED BY <1>1, <1>3, <1>5, <2>1, <2>2 DEF BareOK
<1> QED BY <1>3, <1>9, <1>10, <1>11, <1>12, <1>13 DEF TransfersOK

\* A com driver waits although its start was refused: for a token that is there,
\* or for the end of a transfer that is not its own.
LEMMA RefusedTransfers ==
    ASSUME TypeOK, OneInDriver, TransfersOK, NEW t \in Threads, StartRefused(t)
    PROVE  TransfersOK'
<1> DEFINE o == th[t].op
<1>1. \A u \in Threads \ {t} : th'[u] = th[u]
    BY OthersStay DEF ThreadStep
<1>2. /\ th[t] \in ThreadStates /\ th[t].at = "prepared" /\ CallOK(t) /\ o \in Ops
      /\ th[t].own = "none" /\ th[t].at \in InDriver
    BY DEF TypeOK, StartRefused, TransfersOK, CallOK, InDriver
<1>3. UNCHANGED <<build, aborts, byDma, token, hw, expired, strayed, halved>>
    BY DEF StartRefused
<1>4. \/ /\ aborts /\ th'[t].at = "waiting"
         /\ th'[t].early <=> token[o] = 1 \/ Runs(o)
      \/ /\ ~aborts /\ th'[t].at = "failed"
         /\ th'[t].early = th[t].early
    BY <1>2 DEF StartRefused, TypeOK, ThreadStates
<1>5. th'[t].own = "none" /\ th'[t].op = o
    BY <1>2 DEF StartRefused, TypeOK, ThreadStates
<1>6. CallOK(t)'
    <2>1. token[o] \in 0 .. 1
        BY <1>2 DEF TypeOK
    <2>2. th'[t].at = "waiting" => th'[t].early \/ (token[o] = 0 /\ ~Runs(o))
        BY <1>4, <2>1
    <2> QED BY <1>2, <1>3, <1>4, <1>5, <2>2 DEF CallOK, Runs
<1>7. BareOK'
    <2> SUFFICES ASSUME build = "none", aborts PROVE BareOK'
        BY <1>3 DEF BareOK
    <2>1. BareOK /\ (token[o] = 1 => o \in halved) /\ strayed \subseteq halved
        BY <1>2 DEF TransfersOK, BareOK
    <2>2. Runs(o) => o \in halved
        <3>1. Runs(o) => hw[o].by \in {t, NULL} /\ TransferOK(o)
            BY <1>2, OwnTransfer DEF TransfersOK, Runs
        <3> QED BY <1>2, <2>1, <3>1, HalAssumption DEF TransferOK, Runs
    <2> QED BY <1>1, <1>3, <1>4, <1>5, <2>1, <2>2 DEF BareOK
<1> QED BY <1>1, <1>2, <1>3, <1>5, <1>6, <1>7, Apart

LEMMA ReadyTransfers ==
    ASSUME TypeOK, OneInDriver, TransfersOK, NEW t \in Threads, Ready(t)
    PROVE  TransfersOK'
<1> DEFINE o == th[t].op
<1>1. \A u \in Threads \ {t} : th'[u] = th[u]
    BY OthersStay DEF ThreadStep
<1>2. /\ th[t] \in ThreadStates /\ th[t].at = "waiting" /\ token[o] = 1
      /\ CallOK(t) /\ o \in Ops /\ th[t].at \in InDriver
    BY DEF TypeOK, Ready, TransfersOK, InDriver
<1>3. /\ th'[t].at = "done" /\ th'[t].own = th[t].own /\ th'[t].op = o
      /\ th'[t].early = th[t].early
    BY <1>2 DEF Ready, Goes, TypeOK, ThreadStates
<1>4. UNCHANGED <<build, aborts, byDma, hw, expired, strayed>>
    BY DEF Ready
<1>5. /\ \A op \in Ops : token'[op] \in {token[op], 0}
      /\ build # "none" => token'[o] = 0
    BY <1>2 DEF Ready, TypeOK
<1>6. halved' = IF th[t].own = "half" THEN halved \cup {o} ELSE halved
    BY DEF Ready
<1>7. ASSUME NEW u \in Threads PROVE CallOK(u)'
    <2>1. CASE u = t
        <3>1. th[t].early \/ th[t].own \in {"half", "complete"}
            BY <1>2 DEF CallOK
        <3> QED BY <1>2, <1>3, <1>4, <1>5, <1>6, <2>1, <3>1 DEF CallOK
    <2>2. CASE u # t
        <3>1. th'[u] = th[u] /\ CallOK(u) /\ (th[u].at # "app" => th[u].op \in Ops)
            BY <1>1, <2>2 DEF TransfersOK, TypeOK
        <3> QED BY <1>4, <1>5, <1>6, <3>1, CallKept DEF Runs
    <2> QED BY <2>1, <2>2
<1>8. ASSUME NEW op \in Ops PROVE TransferOK(op)'
    <2>1. CASE hw[op] # NULL /\ hw[op].by = t
        <3>1. TransferOK(op) /\ t # NULL
            BY HalAssumption DEF TransfersOK
        <3>2. /\ op = o
              /\ Runs(op) => /\ th[t].own \in {"running", "half"}
                             /\ th[t].own = "running" => op \in strayed
            BY <1>2, <2>1, <3>1 DEF TransferOK
        <3> QED BY <1>3, <1>4, <1>6, <2>1, <3>1, <3>2 DEF TransferOK, Runs
    <2>2. CASE ~(hw[op] # NULL /\ hw[op].by = t)
        BY <1>1, <1>4, <1>5, <1>6, <2>2, TransferKept
    <2> QED BY <2>1, <2>2
<1>9. ASSUME NEW op \in Ops PROVE TokenOK(op)'
    BY <1>1, <1>3, <1>4, <1>5, <1>6, TokenKept
<1>10. BareOK'
    <2>1. \A u \in Threads \ {t} : th[u].at = "prepared" => th[u].op \in Ops
        BY DEF TypeOK
    <2> QED BY <1>1, <1>3, <1>4, <1>5, <1>6, <2>1 DEF TransfersOK, BareOK
<1>11. (strayed \subseteq expired \cup halved)' /\ (halved # {} => byDma)' /\ halved' \subseteq Rx
    BY <1>2, <1>4, <1>6 DEF TransfersOK, CallOK
<1> QED BY <1>4, <1>7, <1>8, <1>9, <1>10, <1>11 DEF TransfersOK

LEMMA WaitTimeoutTransfers ==
    ASSUME TypeOK, OneInDriver, TransfersOK, NEW t \in Threads, WaitTimeout(t)
    PROVE  TransfersOK'
<1> DEFINE o == th[t].op
<1>1. \A u \in Threads \ {t} : th'[u] = th[u]
    BY OthersStay DEF ThreadStep
<1>2. th[t] \in ThreadStates /\ th[t].at = "waiting" /\ CallOK(t) /\ o \in Ops
    BY DEF TypeOK, WaitTimeout, TransfersOK
<1>3. /\ th'[t].at = "late" /\ th'[t].own = th[t].own /\ th'[t].op = o
      /\ th'[t].early = th[t].early
    BY <1>2 DEF WaitTimeout, Goes, TypeOK, ThreadStates
<1>4. UNCHANGED <<build, aborts, byDma, token, hw, strayed, halved>> /\ expired' = expired \cup {o}
    BY DEF WaitTimeout
<1>5. ASSUME NEW u \in Threads PROVE CallOK(u)'
    <2>1. CASE u = t
        BY <1>2, <1>3, <1>4, <2>1 DEF CallOK
    <2>2. CASE u # t
        BY <1>1, <1>4, <2>2, CallKept DEF TransfersOK, Runs
    <2> QED BY <2>1, <2>2
<1>6. ASSUME NEW op \in Ops PROVE TransferOK(op)'
    <2>1. CASE hw[op] # NULL /\ hw[op].by = t
        <3>1. TransferOK(op) /\ t # NULL
            BY HalAssumption DEF TransfersOK
        <3> QED BY <1>2, <1>3, <1>4, <2>1, <3>1 DEF TransferOK, Runs
    <2>2. CASE ~(hw[op] # NULL /\ hw[op].by = t)
        BY <1>1, <1>4, <2>2, TransferKept
    <2> QED BY <2>1, <2>2
<1>7. ASSUME NEW op \in Ops PROVE TokenOK(op)'
    BY <1>1, <1>3, <1>4, TokenKept
<1>8. BareOK'
    BY <1>1, <1>3, <1>4 DEF TransfersOK, BareOK
<1> QED BY <1>4, <1>5, <1>6, <1>7, <1>8 DEF TransfersOK

LEMMA AfterTimeoutTransfers ==
    ASSUME TypeOK, OneInDriver, TransfersOK, NEW t \in Threads, AfterTimeout(t)
    PROVE  TransfersOK'
<1> DEFINE o == th[t].op
<1>1. \A u \in Threads \ {t} : th'[u] = th[u]
    BY OthersStay DEF ThreadStep
<1>2. /\ th[t] \in ThreadStates /\ th[t].at = "late" /\ CallOK(t) /\ o \in Ops
      /\ th[t].at \in InDriver
    BY DEF TypeOK, AfterTimeout, TransfersOK, InDriver
<1>3. /\ th'[t].at = "failed" /\ th'[t].own = th[t].own /\ th'[t].op = o
      /\ th'[t].early = th[t].early
    BY <1>2 DEF AfterTimeout, Goes, TypeOK, ThreadStates
<1>4. UNCHANGED <<build, aborts, byDma, token, expired, strayed, halved>>
    BY DEF AfterTimeout, history
<1>5. ASSUME NEW op \in Ops
      PROVE  \/ hw'[op] = hw[op] /\ (op = o /\ hw[op] # NULL => ~aborts)
             \/ hw[op] # NULL /\ op = o /\ ~Runs(op)' /\ hw'[op].by = hw[op].by
    <2>1. CASE op = o /\ aborts /\ hw[op] # NULL
        <3>1. hw[op] \in Transfers /\ hw'[op] = [hw[op] EXCEPT !.state = "aborting"]
            BY <2>1 DEF AfterTimeout, TypeOK
        <3> QED BY <2>1, <3>1 DEF Transfers, Runs
    <2>2. CASE ~(op = o /\ aborts /\ hw[op] # NULL)
        BY <2>2 DEF AfterTimeout, TypeOK
    <2> QED BY <2>1, <2>2
<1>6. ASSUME NEW u \in Threads PROVE CallOK(u)'
    <2>1. CASE u = t
        BY <1>2, <1>3, <1>4, <2>1 DEF CallOK
    <2>2. CASE u # t
        <3>1. th'[u] = th[u] /\ CallOK(u) /\ (th[u].at = "waiting" => th[u].op \in Ops)
            BY <1>1, <2>2 DEF TransfersOK, TypeOK
        <3>2. th[u].at = "waiting" /\ Runs(th[u].op)' =>
                Runs(th[u].op) /\ hw'[th[u].op].by = hw[th[u].op].by
            BY <1>5, <3>1 DEF Runs
        <3> QED BY <1>4, <3>1, <3>2, CallKept
    <2> QED BY <2>1, <2>2
<1>7. ASSUME NEW op \in Ops PROVE TransferOK(op)'
    <2>1. CASE hw[op] # NULL /\ hw[op].by = t
        <3>1. TransferOK(op) /\ t # NULL
            BY HalAssumption DEF TransfersOK
        <3>2. op = o
            BY <2>1, <3>1 DEF TransferOK
        <3> QED BY <1>3, <1>4, <1>5, <2>1, <3>1, <3>2 DEF TransferOK, Runs
    <2>2. CASE hw'[op] = hw[op] /\ ~(hw[op] # NULL /\ hw[op].by = t)
        BY <1>1, <1>4, <2>2, TransferKept
    <2>3. CASE hw[op] # NULL /\ hw[op].by # t /\ ~Runs(op)' /\ hw'[op].by = hw[op].by
        <3>1. hw[op] \in Transfers /\ TransferOK(op)
            BY <2>3 DEF TypeOK, TransfersOK
        <3>2. hw[op].by # NULL => th'[hw[op].by] = th[hw[op].by]
            BY <1>1, <2>3, <3>1 DEF Transfers
        <3> QED BY <2>3, <3>1, <3>2 DEF TransferOK
    <2> QED BY <1>5, <2>1, <2>2, <2>3
<1>8. ASSUME NEW op \in Ops PROVE TokenOK(op)'
    BY <1>1, <1>3, <1>4, TokenKept
<1>9. BareOK'
    BY <1>1, <1>3, <1>4 DEF TransfersOK, BareOK
<1> QED BY <1>4, <1>6, <1>7, <1>8, <1>9 DEF TransfersOK

\* The interrupt at the end or at half of a transfer: the token it leaves is its
\* caller's, or it is nobody's for a reason.
LEMMA AnswerTransfers ==
    ASSUME TypeOK, OneInDriver, TransfersOK, NEW o \in Ops, Runs(o),
           NEW what \in {"half", "complete"}, what = "half" => byDma /\ o \in Rx, Tells(o, what),
           hw'[o] = NULL \/ (what = "half" /\ hw'[o].by = hw[o].by),
           \A op \in Ops \ {o} : hw'[op] = hw[op],
           UNCHANGED <<build, aborts, byDma, expired, strayed, halved>>
    PROVE  TransfersOK'
<1> DEFINE by == hw[o].by
<1>1. hw[o] # NULL /\ hw[o] \in Transfers /\ TransferOK(o)
    BY DEF Runs, TypeOK, TransfersOK
<1>2. by \in Threads \cup {NULL}
    BY <1>1 DEF Transfers
<1>3. token'[o] = 1 /\ \A op \in Ops \ {o} : token'[op] = token[op]
    BY DEF Tells, TypeOK
<1>4. \A u \in Threads :
        /\ th'[u].at = th[u].at /\ th'[u].op = th[u].op /\ th'[u].mode = th[u].mode
        /\ th'[u].early = th[u].early
        /\ th'[u].own = IF u = by THEN what ELSE th[u].own
    <2> SUFFICES ASSUME NEW u \in Threads
                 PROVE  /\ th'[u].at = th[u].at /\ th'[u].op = th[u].op
                        /\ th'[u].mode = th[u].mode /\ th'[u].early = th[u].early
                        /\ th'[u].own = IF u = by THEN what ELSE th[u].own
        OBVIOUS
    <2>1. th[u] \in ThreadStates
        BY DEF TypeOK
    <2>2. th'[u] = IF u = by THEN [th[u] EXCEPT !.own = what] ELSE th[u]
        BY DEF Tells
    <2> QED BY <2>1, <2>2 DEF ThreadStates
<1>5. by # NULL => /\ by \in Threads /\ th[by].op = o /\ th[by].own \in {"running", "half"}
                   /\ th[by].at \in {"waiting", "late", "done", "failed"} /\ th[by].at \in InDriver
                   /\ th[by].at = "done" => Excused(o)
    BY <1>1, <1>2 DEF TransferOK, InDriver, TransfersOK, Excused
<1>6. by = NULL => Excused(o)
    BY <1>1 DEF TransferOK, Excused
<1>7. ASSUME NEW u \in Threads, th[u].op = o, th[u].at \in InDriver
      PROVE  u = by \/ by = NULL
    BY <1>5, <1>7, NobodyElse
<1>8. \A op : Excused(op)' <=> Excused(op)
    BY DEF Excused
<1>9. Runs(o)' => hw'[o].by = by
    BY DEF Runs
<1>10. \A op \in Ops \ {o} : Runs(op)' <=> Runs(op)
    BY DEF Runs
<1> HIDE DEF by
<1>11. ASSUME NEW u \in Threads PROVE CallOK(u)'
    <2> DEFINE p == th[u].op
    <2>1. CallOK(u) /\ (th[u].at # "app" => p \in Ops)
        BY DEF TransfersOK, TypeOK
    <2>2. CASE u = by
        <3>1. /\ p = o /\ th[u].own \in {"running", "half"}
              /\ th[u].at \in {"waiting", "late", "done", "failed"}
              /\ th[u].at = "done" => Excused(o)
            BY <1>5, <2>2, HalAssumption
        <3>2. th'[u].own = what
            BY <1>4, <2>2
        <3> QED BY <1>4, <1>8, <2>1, <3>1, <3>2 DEF CallOK
    <2>3. CASE u # by /\ p = o /\ th[u].at # "app"
        <3>1. th'[u].own = th[u].own
            BY <1>4, <2>3
        <3>2. th[u].at \in InDriver => Excused(o)
            BY <1>6, <1>7, <2>3
        <3>3. th[u].at = "waiting" => th[u].early \/ th[u].own \in {"half", "complete"}
            BY <2>1, <2>3 DEF CallOK, by
        <3> QED BY <1>4, <1>8, <2>1, <2>3, <3>1, <3>2, <3>3 DEF CallOK, InDriver
    <2>4. CASE u # by /\ (p # o \/ th[u].at = "app")
        <3>1. th'[u].own = th[u].own
            BY <1>4, <2>4
        <3>2. th[u].at # "app" => /\ token'[p] = token[p] /\ hw'[p] = hw[p]
                                  /\ Runs(p)' <=> Runs(p)
            BY <1>3, <1>4, <1>10, <2>1, <2>4 DEF Runs
        <3> QED BY <1>4, <1>8, <2>1, <3>1, <3>2 DEF CallOK
    <2> QED BY <2>2, <2>3, <2>4
<1>12. ASSUME NEW op \in Ops PROVE TransferOK(op)'
    <2>1. CASE op = o
        <3>1. CASE hw'[o] = NULL
            BY <2>1, <3>1 DEF TransferOK
        <3>2. CASE what = "half" /\ hw'[o].by = by
            <4>1. by # NULL => /\ th'[by].at = th[by].at /\ th'[by].op = th[by].op
                               /\ th'[by].own = "half"
                BY <1>2, <1>4, <3>2
            <4> QED BY <1>1, <2>1, <3>2, <4>1 DEF TransferOK, by
        <3> QED BY <3>1, <3>2 DEF by
    <2>2. CASE op # o /\ hw[op] # NULL
        <3> DEFINE b == hw[op].by
        <3>1. hw[op] \in Transfers /\ TransferOK(op) /\ b \in Threads \cup {NULL}
            BY <2>2 DEF TypeOK, TransfersOK, Transfers
        <3>2. b # NULL => b # by
            BY <1>5, <2>2, <3>1 DEF TransferOK
        <3>3. b # NULL => th'[b].at = th[b].at /\ th'[b].op = th[b].op /\ th'[b].own = th[b].own
            BY <1>4, <3>1, <3>2
        <3>4. hw'[op] = hw[op] /\ token'[op] = token[op] /\ (Runs(op)' <=> Runs(op))
            BY <1>3, <1>10, <2>2
        <3> QED BY <2>2, <3>1, <3>3, <3>4 DEF TransferOK
    <2>3. CASE op # o /\ hw[op] = NULL
        BY <2>3 DEF TransferOK
    <2> QED BY <2>1, <2>2, <2>3
<1>13. ASSUME NEW op \in Ops PROVE TokenOK(op)'
    <2>1. CASE op = o
        <3>1. CASE by = NULL
            BY <1>6, <1>8, <2>1, <3>1 DEF TokenOK
        <3>2. CASE by # NULL
            BY <1>4, <1>5, <2>1, <3>2 DEF TokenOK
        <3> QED BY <3>1, <3>2
    <2>2. CASE op # o
        <3> SUFFICES ASSUME token[op] = 1, build # "none", ~Excused(op)
                     PROVE  \E u \in Threads : th'[u].op = op /\ th'[u].own # "none"
            BY <1>3, <1>8, <2>2 DEF TokenOK
        <3>1. PICK u \in Threads : th[u].op = op /\ th[u].own # "none"
            BY DEF TransfersOK, TokenOK
        <3> QED BY <1>4, <3>1
    <2> QED BY <2>1, <2>2
<1>14. BareOK'
    <2> SUFFICES ASSUME build = "none", aborts
                 PROVE  /\ strayed \subseteq halved
                        /\ \A u \in Threads :
                            /\ th[u].early => th[u].op \in halved
                            /\ th[u].at = "prepared" /\ token'[th[u].op] = 1 => th[u].op \in halved
        BY <1>4 DEF BareOK
    <2>1. BareOK /\ strayed \subseteq halved
        BY DEF TransfersOK, BareOK
    <2>2. ASSUME NEW u \in Threads, th[u].at = "prepared", token'[th[u].op] = 1
          PROVE  th[u].op \in halved
        <3>1. CASE th[u].op = o
            <4>1. by = NULL
                BY <1>5, <1>7, <2>2, <3>1 DEF InDriver
            <4> QED BY <1>1, <2>1, <3>1, <4>1 DEF TransferOK, by
        <3>2. CASE th[u].op # o
            <4>1. th[u].op \in Ops
                BY <2>2 DEF TypeOK
            <4> QED BY <1>3, <2>1, <2>2, <3>2, <4>1 DEF BareOK
        <3> QED BY <3>1, <3>2
    <2> QED BY <2>1, <2>2 DEF BareOK
<1> QED BY <1>11, <1>12, <1>13, <1>14 DEF TransfersOK

\* A transfer that fails, or the end of an abort, tells nobody.
LEMMA StopTransfers ==
    ASSUME TypeOK, TransfersOK, NEW o \in Ops, ~Runs(o)',
           hw'[o] = NULL \/ (hw[o] # NULL /\ hw'[o].by = hw[o].by),
           \A op \in Ops \ {o} : hw'[op] = hw[op],
           UNCHANGED <<build, aborts, byDma, token, th, expired, strayed, halved>>
    PROVE  TransfersOK'
<1>1. ASSUME NEW u \in Threads PROVE CallOK(u)'
    <2>1. CallOK(u) /\ (th[u].at = "waiting" => th[u].op \in Ops)
        BY DEF TransfersOK, TypeOK
    <2>2. th[u].at = "waiting" /\ Runs(th[u].op)' =>
            Runs(th[u].op) /\ hw'[th[u].op].by = hw[th[u].op].by
        BY <2>1 DEF Runs
    <2> QED BY <2>1, <2>2, CallKept
<1>2. ASSUME NEW op \in Ops PROVE TransferOK(op)'
    <2>1. TransferOK(op)
        BY DEF TransfersOK
    <2>2. CASE op = o
        BY <2>1, <2>2 DEF TransferOK
    <2>3. CASE op # o
        BY <2>1, <2>3 DEF TransferOK, Runs
    <2> QED BY <2>2, <2>3
<1>3. ASSUME NEW op \in Ops PROVE TokenOK(op)'
    BY DEF TransfersOK, TokenOK, Excused
<1>4. BareOK'
    BY DEF TransfersOK, BareOK
<1> QED BY <1>1, <1>2, <1>3, <1>4 DEF TransfersOK

LEMMA InterruptTransfers ==
    ASSUME TypeOK, OneInDriver, TransfersOK, NEW o \in Ops, Interrupt(o)
    PROVE  TransfersOK'
<1>1. UNCHANGED <<build, aborts, byDma, expired, strayed, halved>>
    BY InterruptKeeps
<1>2. hw[o] # NULL => hw[o] \in Transfers
    BY DEF TypeOK
<1>3. CASE Complete(o)
    <2>1. hw'[o] = NULL /\ \A op \in Ops \ {o} : hw'[op] = hw[op]
        BY <1>3 DEF Complete, TypeOK
    <2>2. Runs(o) /\ Tells(o, "complete")
        BY <1>3 DEF Complete
    <2> QED BY <1>1, <2>1, <2>2, AnswerTransfers
<1>4. CASE Half(o)
    <2>1. hw'[o] = [hw[o] EXCEPT !.told = TRUE] /\ \A op \in Ops \ {o} : hw'[op] = hw[op]
        BY <1>4 DEF Half, TypeOK
    <2>2. Runs(o) /\ Tells(o, "half") /\ byDma /\ o \in Rx
        BY <1>4 DEF Half
    <2>3. hw'[o].by = hw[o].by
        BY <1>2, <2>1, <2>2 DEF Runs, Transfers
    <2> QED BY <1>1, <2>1, <2>2, <2>3, AnswerTransfers
<1>5. CASE TransferFails(o)
    <2>1. \A op \in Ops \ {o} : hw'[op] = hw[op]
        BY <1>5 DEF TransferFails, TypeOK
    <2>2. Runs(o) /\ UNCHANGED <<token, th>>
        BY <1>5 DEF TransferFails
    <2>3. hw'[o] = NULL \/ hw'[o] = [hw[o] EXCEPT !.state = "aborting"]
        BY <1>5 DEF TransferFails, TypeOK
    <2>4. hw'[o] = NULL \/ (hw'[o].state = "aborting" /\ hw'[o].by = hw[o].by)
        BY <1>2, <2>2, <2>3 DEF Runs, Transfers
    <2> QED BY <1>1, <2>1, <2>2, <2>4, StopTransfers DEF Runs
<1>6. CASE AbortEnds(o)
    <2>1. hw'[o] = NULL /\ \A op \in Ops \ {o} : hw'[op] = hw[op]
        BY <1>6 DEF AbortEnds, TypeOK
    <2>2. UNCHANGED <<token, th>>
        BY <1>6 DEF AbortEnds
    <2> QED BY <1>1, <2>1, <2>2, StopTransfers DEF Runs
<1> QED BY <1>3, <1>4, <1>5, <1>6 DEF Interrupt

LEMMA TransfersStep == TypeOK /\ OneInDriver /\ TransfersOK /\ [Next]_vars => TransfersOK'
<1> SUFFICES ASSUME TypeOK, OneInDriver, TransfersOK, [Next]_vars PROVE TransfersOK'
    OBVIOUS
<1>1. CASE \E t \in Threads, op \in Ops, mode \in {"sync", "async"}, n \in Timeouts :
            Call(t, op, mode, n)
    BY <1>1, CallTransfers
<1>2. ASSUME NEW t \in Threads, ThreadStep(t) PROVE TransfersOK'
    BY <1>2, LockTransfers, ReturnTransfers, SyncTransfers, PrepareTransfers, StartTransfers,
       RefusedTransfers, ReadyTransfers, WaitTimeoutTransfers, AfterTimeoutTransfers DEF ThreadStep
<1>3. CASE \E op \in Ops : Interrupt(op)
    BY <1>3, InterruptTransfers
<1>4. CASE Tick \/ UNCHANGED vars
    <2>1. UNCHANGED <<build, aborts, byDma, token, hw, th, expired, strayed, halved>>
        BY <1>4 DEF Tick, vars, history
    <2> QED BY <2>1 DEF TransfersOK, CallOK, TransferOK, TokenOK, BareOK, Runs, Excused
<1> QED BY <1>1, <1>2, <1>3, <1>4 DEF Next, Interrupt

LEMMA TransfersAlways == Spec => []TransfersOK
<1> QED BY InitTransfers, TransfersStep, TypeCorrect, OneAtATime, PTL DEF Spec

\* hal_device_read_async and write_async: success is the call's own transfer, of
\* a reception by DMA perhaps half of it, or a token or a transfer that was there
\* when it began to wait.
THEOREM Honest == Spec => []HonestUnlessEarly
<1>1. TransfersOK => HonestUnlessEarly
    BY DEF TransfersOK, CallOK, HonestUnlessEarly, HalfTold
<1> QED BY <1>1, TransfersAlways, PTL

\* A semaphore's token that no call awaits was left by a wait that timed out, or
\* by the end of a reception whose half was a success.
THEOREM TokensLeft == Spec => []LeftTokenExplained
<1>1. TransfersOK => LeftTokenExplained
    BY DEF TransfersOK, TokenOK, Excused, LeftTokenExplained, HalfTold
<1> QED BY <1>1, TransfersAlways, PTL

\* No DMA goes on into a buffer that a call has given back, but after a timeout,
\* and with the com drivers only after a start on a token left behind, or after a
\* success at its half.
THEOREM TransfersEnd == Spec => []NoTransferOutlivesCall
<1>1. TransfersOK => NoTransferOutlivesCall
    BY DEF TransfersOK, TransferOK, Runs, NoTransferOutlivesCall, HalfTold
<1> QED BY <1>1, TransfersAlways, PTL

\* Without a kernel, and with drivers that abort, success is success, for whoever
\* sends or receives by interrupts.
THEOREM BareHonest == Spec => []BareComIsHonest
<1>1. TransfersOK => BareComIsHonest
    BY DEF TransfersOK, CallOK, BareOK, BareComIsHonest, HalfTold
<1> QED BY <1>1, TransfersAlways, PTL
=============================================================================
