---------------------------- MODULE DsRingbuffer ----------------------------
(***************************************************************************)
(* ds_ringbuffer (rte/src/data_structure/ds_ringbuffer.c): a byte ring of  *)
(* messages, each preceded by its size, for one writer and one reader.     *)
(*                                                                         *)
(* With a mutex a call excludes every other.  Without one (a null mutex,   *)
(* as in example/test_ringbuffer.c:12) a reader may be interrupted by the  *)
(* writer, or the other way round, anywhere: a call is then the test of    *)
(* the counters, the copying of bytes, and the update of its own counter.  *)
(* The compiler keeps that order: the copies are calls of memcpy through   *)
(* pointers that may alias the buffer's own fields.                        *)
(***************************************************************************)
EXTENDS Integers, Sequences, PowersOfTwo

CONSTANTS
    Payloads,       \* what tells the bytes of two messages apart
    Sizes,          \* bound: the sizes of messages
    Spaces,         \* bound: the sizes of the buffers that readers bring
    SizeBytes,      \* sizeof(uint32_t), the bytes in front of a message
    CounterMod,     \* 2^32, where head and tail wrap
    Capacities      \* the capacities that users ask for

ASSUME RingAssumption ==
    /\ Sizes \subseteq Nat /\ Spaces \subseteq Nat
    /\ SizeBytes \in Nat \ {0}
    /\ \E k \in 0 .. 32 : CounterMod = 2 ^ k
    /\ \A n \in Capacities : n \in Nat \ {0} /\ 2 * n <= CounterMod

VARIABLES
    data,       \* buffer->data, byte by byte
    capacity,   \* buffer->capacity; 0: there is no buffer
    locked,     \* is there a mutex (buffer->mutex)?
    head, tail, \* the counters of bytes read and written
    writer,     \* where the writer is, and the message it brought
    reader,     \* where the reader is, its space, and the message it copied
    wrote,      \* what the last write returned
    got         \* what the last read returned, and the message

vars == <<data, capacity, locked, head, tail, writer, reader, wrote, got>>
ring == <<data, capacity, locked, head, tail>>

Message(p, n) == [k \in 1 .. n |-> <<p, k>>]
Messages == {Message(p, n) : p \in Payloads, n \in Sizes}

\* The size as it lies in memory.
SizeField(n) == [k \in 1 .. SizeBytes |-> <<n, k>>]
Zero == <<0, 0>>        \* a byte that calloc left

IdleWriter == [at |-> "idle", message |-> <<>>, seen |-> 0]
IdleReader == [at |-> "idle", message |-> <<>>, space |-> 0]

Min2(a, b) == IF a < b THEN a ELSE b

\* memcpy into the ring, and out of it.
Written(d, to, bytes) ==
    [c \in DOMAIN d |-> IF c - to \in 0 .. Len(bytes) - 1 THEN bytes[c - to + 1] ELSE d[c]]
Bytes(from, n) == [k \in 1 .. n |-> data[from + k - 1]]

Offset(counter) == counter % capacity       \* `& (capacity - 1)'
Used     == (tail - head) % CounterMod
FreeSize == capacity - Used                 \* ds_ringbuffer_free_size

Init ==
    /\ data = <<>> /\ capacity = 0 /\ locked = FALSE
    /\ head = 0 /\ tail = 0
    /\ writer = IdleWriter /\ reader = IdleReader
    /\ wrote = "none" /\ got = <<"none", <<>>>>

Create(wanted) ==
    /\ capacity = 0
    /\ capacity' = RoundUpPowOfTwo(wanted)
    /\ locked' \in BOOLEAN
    /\ data' = [c \in 0 .. capacity' - 1 |-> Zero]
    /\ head' = 0 /\ tail' = 0
    /\ UNCHANGED <<writer, reader, wrote, got>>

\* The users destroy a buffer that none of them is using.
Destroy ==
    /\ capacity > 0 /\ writer = IdleWriter /\ reader = IdleReader
    /\ data' = <<>> /\ capacity' = 0 /\ locked' = FALSE /\ head' = 0 /\ tail' = 0
    /\ UNCHANGED <<writer, reader, wrote, got>>

-----------------------------------------------------------------------------
(***************************************************************************)
(* ds_ringbuffer_write.                                                    *)
(***************************************************************************)
WriteWraps(n) == capacity - Offset(tail) < SizeBytes + n

\* head_offset is read first; without a mutex it may be old when it is used,
\* and older than the head that FreeSize is computed from.
WriteStart(m) ==
    /\ capacity > 0 /\ writer = IdleWriter
    /\ locked => reader = IdleReader
    /\ writer' = [at |-> "checking", message |-> m, seen |-> Offset(head)]
    /\ UNCHANGED <<ring, reader, wrote, got>>

\* A bug the checks look for: only the wrapped case is looked at.
FitsUnlessItOverlaps(n, headOffset) ==
    WriteWraps(n) => Offset(tail + n + SizeBytes) < headOffset

Fits(n, headOffset) ==
    /\ FreeSize >= SizeBytes + n
    /\ WriteWraps(n) => Offset(tail + n + SizeBytes) < headOffset

WriteCheck ==
    /\ writer.at = "checking"
    /\ UNCHANGED <<ring, reader, got>>
    /\ IF Fits(Len(writer.message), writer.seen)
       THEN writer' = [writer EXCEPT !.at = "copying"] /\ UNCHANGED wrote
       ELSE writer' = IdleWriter /\ wrote' = "NO_RSRC"

\* The bytes of the message in the ring: in one piece, or wrapped within the
\* size, or wrapped behind it.
WithMessage(m) ==
    LET at    == Offset(tail)
        size  == SizeField(Len(m))
        first == capacity - at      \* first_in_size
    IN CASE ~WriteWraps(Len(m)) -> Written(Written(data, at, size), at + SizeBytes, m)
         [] WriteWraps(Len(m)) /\ first < SizeBytes ->
                Written(Written(Written(data, at, SubSeq(size, 1, first)),
                                0, SubSeq(size, first + 1, SizeBytes)),
                        SizeBytes - first, m)
         [] OTHER ->
                Written(Written(Written(data, at, size),
                                at + SizeBytes, SubSeq(m, 1, first - SizeBytes)),
                        0, SubSeq(m, first - SizeBytes + 1, Len(m)))

WriteCopy ==
    /\ writer.at = "copying"
    /\ data' = WithMessage(writer.message)
    /\ writer' = [writer EXCEPT !.at = "copied"]
    /\ UNCHANGED <<capacity, locked, head, tail, reader, wrote, got>>

\* A bug the checks look for: the message is announced before it is there.
WriteEndTooEarly ==
    /\ writer.at \in {"copying", "copied"}
    /\ tail' = (tail + Len(writer.message) + SizeBytes) % CounterMod
    /\ writer' = IdleWriter
    /\ wrote' = "SUCCESS"
    /\ UNCHANGED <<data, capacity, locked, head, reader, got>>

WriteEnd ==
    /\ writer.at = "copied"
    /\ tail' = (tail + Len(writer.message) + SizeBytes) % CounterMod
    /\ writer' = IdleWriter
    /\ wrote' = "SUCCESS"
    /\ UNCHANGED <<data, capacity, locked, head, reader, got>>

-----------------------------------------------------------------------------
(***************************************************************************)
(* ds_ringbuffer_read.                                                     *)
(***************************************************************************)
ReadStart(space) ==
    /\ capacity > 0 /\ reader = IdleReader
    /\ locked => writer = IdleWriter
    /\ UNCHANGED <<ring, writer, wrote>>
    /\ \/ head = tail /\ got' = <<"NO_RSRC", <<>>>> /\ UNCHANGED reader
       \/ /\ head # tail
          /\ reader' = [IdleReader EXCEPT !.at = "copying", !.space = space]
          /\ UNCHANGED got

\* A bug the checks look for: the part of the size at the ring's beginning is
\* taken for the message.
MessageAtTooEarly(at, n) ==
    LET left == capacity - at IN
    CASE left < SizeBytes -> Bytes(0, n)
      [] left >= SizeBytes /\ left < SizeBytes + n ->
             Bytes(at + SizeBytes, left - SizeBytes) \o Bytes(0, n - (left - SizeBytes))
      [] OTHER -> Bytes(at + SizeBytes, n)

\* The size of the message that starts at an offset, and the message: the
\* size is wrapped, or the message behind it, or neither.
SizeFieldAt(at) ==
    LET first == Min2(capacity - at, SizeBytes) IN
    Bytes(at, first) \o Bytes(0, SizeBytes - first)

IsSize(field, n) == field = SizeField(n)

MessageAt(at, n) ==
    LET left == capacity - at IN
    CASE left < SizeBytes -> Bytes(SizeBytes - left, n)
      [] left >= SizeBytes /\ left < SizeBytes + n ->
             Bytes(at + SizeBytes, left - SizeBytes) \o Bytes(0, n - (left - SizeBytes))
      [] OTHER -> Bytes(at + SizeBytes, n)

ReadCopy ==
    /\ reader.at = "copying"
    /\ UNCHANGED <<ring, writer, wrote>>
    /\ \E n \in Sizes :
        /\ IsSize(SizeFieldAt(Offset(head)), n)
        /\ \/ reader.space < n /\ got' = <<"PARAM", <<>>>> /\ reader' = IdleReader
           \/ /\ reader.space >= n
              /\ reader' = [reader EXCEPT !.at = "copied",
                                          !.message = MessageAt(Offset(head), n)]
              /\ UNCHANGED got

ReadEnd ==
    /\ reader.at = "copied"
    /\ head' = (head + Len(reader.message) + SizeBytes) % CounterMod
    /\ got' = <<"SUCCESS", reader.message>>
    /\ reader' = IdleReader
    /\ UNCHANGED <<data, capacity, locked, tail, writer, wrote>>

Next ==
    \/ \E n \in Capacities : Create(n)
    \/ Destroy
    \/ \E m \in Messages : WriteStart(m)
    \/ WriteCheck \/ WriteCopy \/ WriteEnd
    \/ \E n \in Spaces : ReadStart(n)
    \/ ReadCopy \/ ReadEnd

Spec == Init /\ [][Next]_vars

-----------------------------------------------------------------------------
(***************************************************************************)
(* Properties.                                                             *)
(***************************************************************************)

\* The counters are never further apart than the buffer is long, and what the
\* writer is about to add has room: no byte of an unread message is written.
CountersInStep ==
    /\ Used <= capacity
    /\ writer.at \in {"copying", "copied"} =>
            Used + SizeBytes + Len(writer.message) <= capacity

\* A read that has begun finds a size that some writer wrote.
SizeIsFound ==
    reader.at = "copying" => \E n \in Sizes : IsSize(SizeFieldAt(Offset(head)), n)

\* The last n unread bytes, read as messages.
Unread ==
    LET behind[n \in 0 .. capacity] ==
            LET at   == Offset(tail - n)
                sizes == {s \in Sizes : IsSize(SizeFieldAt(at), s) /\ SizeBytes + s <= n}
            IN IF n = 0 THEN <<>>
               ELSE IF sizes = {} THEN <<"torn">>
               ELSE LET s == CHOOSE s \in sizes : TRUE IN
                    <<MessageAt(at, s)>> \o behind[n - SizeBytes - s]
    IN behind[Used]

\* The ring is a queue of whole messages, in order, however the messages and
\* their sizes wrap, and whether or not a mutex keeps the two users apart.
Abstract == INSTANCE MessageQueue WITH queue <- Unread
IsAQueue == Abstract!QueueSpec
=============================================================================
