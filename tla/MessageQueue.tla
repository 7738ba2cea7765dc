---------------------------- MODULE MessageQueue ----------------------------
(***************************************************************************)
(* What a ds_ringbuffer promises: a queue of messages.  A message that was *)
(* accepted is given out whole, once, and in its turn.  When there is no   *)
(* room is not told here: a message may be refused at any time.            *)
(***************************************************************************)
EXTENDS Sequences

CONSTANT Messages       \* what can be written: sequences of bytes

VARIABLES
    queue,      \* the messages accepted and not yet read
    wrote,      \* what the last write returned
    got         \* what the last read returned, and the message

queueVars == <<queue, wrote, got>>

QueueInit == queue = <<>> /\ wrote = "none" /\ got = <<"none", <<>>>>

Accept(m) == queue' = Append(queue, m) /\ wrote' = "SUCCESS" /\ UNCHANGED got
RefuseMessage == wrote' = "NO_RSRC" /\ UNCHANGED <<queue, got>>

Deliver ==
    /\ queue # <<>>
    /\ queue' = Tail(queue)
    /\ got' = <<"SUCCESS", Head(queue)>>
    /\ UNCHANGED wrote

\* The reader's buffer is too small: the message stays.
TooSmall == queue # <<>> /\ got' = <<"PARAM", <<>>>> /\ UNCHANGED <<queue, wrote>>

NothingThere == queue = <<>> /\ got' = <<"NO_RSRC", <<>>>> /\ UNCHANGED <<queue, wrote>>

Discard == queue' = <<>> /\ UNCHANGED <<wrote, got>>

QueueNext ==
    \/ \E m \in Messages : Accept(m)
    \/ RefuseMessage
    \/ Deliver \/ TooSmall \/ NothingThere
    \/ Discard

QueueSpec == QueueInit /\ [][QueueNext]_queueVars
=============================================================================
