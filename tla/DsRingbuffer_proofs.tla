------------------------ MODULE DsRingbuffer_proofs ------------------------
(***************************************************************************)
(* The ring of messages for any messages, capacities and counter width:    *)
(* its counters stay in step, a read finds the size that a write left, and *)
(* the ring is a queue of whole messages, with a mutex and without.        *)
(*                                                                         *)
(* Why: counted backwards from the tail, the unread bytes have boundaries  *)
(* such that a whole message starts at each of them and ends at the next.  *)
(* The writer writes behind the last of them, and adds one; the reader     *)
(* takes the first.                                                        *)
(***************************************************************************)
EXTENDS DsRingbuffer, DsLemmas_proofs

-----------------------------------------------------------------------------
(* The inductive invariant. *)

\* The bytes that a message takes in the ring, and the one at place j.
RecordLength(m) == SizeBytes + Len(m)
RecordByte(m, j) == IF j < SizeBytes THEN <<Len(m), j + 1>> ELSE m[j - SizeBytes + 1]

\* The message lies in the ring from this counter on.
Holds(d, counter, m) ==
    \A j \in 0 .. RecordLength(m) - 1 : d[(counter + j) % capacity] = RecordByte(m, j)

\* At each boundary but the tail's a message starts that ends at another.
Boundaries(d, t, B) ==
    /\ B \subseteq Nat
    /\ 0 \in B
    /\ \A b \in B \ {0} : \E m \in Messages :
         /\ RecordLength(m) <= b
         /\ b - RecordLength(m) \in B
         /\ Holds(d, t - b, m)

WriterType == [at : {"idle", "checking", "copying", "copied"},
               message : Messages \cup {<<>>}, seen : Int]
ReaderType == [at : {"idle", "copying", "copied"},
               message : Messages \cup {<<>>}, space : Int]

RingTypes ==
    /\ capacity \in Nat /\ locked \in BOOLEAN
    /\ head \in 0 .. CounterMod - 1 /\ tail \in 0 .. CounterMod - 1
    /\ writer \in WriterType /\ reader \in ReaderType
    /\ writer.at # "idle" => writer.message \in Messages
    /\ reader.at = "copied" => reader.message \in Messages

\* The counters wrap where the ring does.
RingShape ==
    /\ capacity > 0 => /\ capacity < CounterMod
                       /\ \E q \in Nat : CounterMod = q * capacity
                       /\ DOMAIN data = 0 .. capacity - 1
    /\ capacity = 0 => /\ head = 0 /\ tail = 0
                       /\ writer.at = "idle" /\ reader.at = "idle"

WriterReady ==
    writer.at = "copied" => Holds(data, tail, writer.message)

ReaderReady ==
    /\ reader.at = "copying" => Used > 0
    /\ reader.at = "copied" => /\ RecordLength(reader.message) <= Used
                               /\ Holds(data, tail - Used, reader.message)

UnreadIsWhole == \E B \in SUBSET (0 .. Used) : Used \in B /\ Boundaries(data, tail, B)

RingInv ==
    /\ RingTypes /\ RingShape /\ CountersInStep
    /\ WriterReady /\ ReaderReady /\ UnreadIsWhole

-----------------------------------------------------------------------------
(* Messages and counters. *)

LEMMA RingConstants ==
    /\ Sizes \subseteq Nat /\ Spaces \subseteq Nat
    /\ SizeBytes \in Nat \ {0} /\ CounterMod \in Nat \ {0}
  BY RingAssumption, PowerIsPositive

LEMMA MessageLength ==
    ASSUME NEW m \in Messages
    PROVE  /\ m \in Seq(Payloads \X Nat) /\ Len(m) \in Sizes /\ Len(m) \in Nat
           /\ RecordLength(m) = SizeBytes + Len(m) /\ RecordLength(m) \in Nat \ {0}
<1>1. PICK p \in Payloads, n \in Sizes : m = Message(p, n)
  BY DEF Messages
<1>2. n \in Nat /\ SizeBytes \in Nat \ {0}
  BY RingConstants
<1>3. m = [k \in 1 .. n |-> <<p, k>>]
  BY <1>1 DEF Message
<1>4. \A k \in 1 .. n : <<p, k>> \in Payloads \X Nat
  BY <1>2
<1>5. m \in [1 .. n -> Payloads \X Nat]
  BY <1>3, <1>4
<1>6. m \in Seq(Payloads \X Nat) /\ Len(m) = n
  BY <1>2, <1>5
<1> QED BY <1>2, <1>6 DEF RecordLength

\* A counter that wrapped gives the same offset.
LEMMA WrappedOffset ==
    ASSUME RingTypes, RingShape, capacity > 0, NEW x \in Int, NEW y \in Int
    PROVE  ((x % CounterMod) + y) % capacity = (x + y) % capacity
<1>1. capacity \in Nat \ {0} /\ CounterMod \in Nat \ {0}
  BY RingConstants DEF RingTypes
<1>2. PICK q \in Nat : CounterMod = q * capacity
  BY DEF RingShape
<1>3. PICK p \in Int : x = p * CounterMod + (x % CounterMod)
  BY <1>1, RemainderOf
<1>4. PICK r \in Int : r = x % CounterMod
  BY <1>1, RemainderOf
<1>5. PICK k \in Int : k = - (p * q)
  OBVIOUS
<1>6. p * (q * capacity) = (p * q) * capacity /\ k * capacity = - ((p * q) * capacity)
  BY <1>1, <1>5
<1>7. PICK z \in Int : z = p * CounterMod
  BY <1>1
<1>8. x = z + r /\ k * capacity = - z
  BY <1>2, <1>3, <1>4, <1>6, <1>7
<1>9. (r + y) - (x + y) = k * capacity
  BY <1>8
<1>10. (r + y) % capacity = (x + y) % capacity
  <2>1. PICK a \in Int, b \in Int : a = r + y /\ b = x + y
    OBVIOUS
  <2>2. a - b = k * capacity
    BY <1>9, <2>1
  <2>3. a % capacity = b % capacity
    BY <1>1, <2>2, SameRemainder
  <2> QED BY <2>1, <2>3
<1> QED BY <1>4, <1>10

\* The counter difference is the number of unread bytes, whatever wrapped.
LEMMA UsedIs ==
    ASSUME NEW h \in 0 .. CounterMod - 1, NEW t \in 0 .. CounterMod - 1
    PROVE  /\ (t - h) % CounterMod \in 0 .. CounterMod - 1
           /\ h = t => (t - h) % CounterMod = 0
           /\ h # t => (t - h) % CounterMod > 0
<1>1. CounterMod \in Nat \ {0}
  BY RingConstants
<1>2. t - h \in Int
  OBVIOUS
<1>3. (t - h) % CounterMod \in 0 .. CounterMod - 1
  BY <1>1, <1>2, RemainderOf
<1>4. ASSUME h = t PROVE (t - h) % CounterMod = 0
  <2>1. PICK z \in 0 .. 2 * CounterMod - 1 : z = t - h
    BY <1>1, <1>4
  <2>2. z % CounterMod = IF z < CounterMod THEN z ELSE z - CounterMod
    BY <1>1, SmallRemainder
  <2> QED BY <1>1, <1>4, <2>1, <2>2
<1>5. ASSUME h # t PROVE (t - h) % CounterMod # 0
  <2>1. CASE h < t
    <3>1. PICK z \in 0 .. 2 * CounterMod - 1 : z = t - h /\ z > 0 /\ z < CounterMod
      BY <1>1, <2>1
    <3>2. z % CounterMod = IF z < CounterMod THEN z ELSE z - CounterMod
      BY <1>1, SmallRemainder
    <3> QED BY <3>1, <3>2
  <2>2. CASE h > t
    <3>1. PICK z \in 0 .. 2 * CounterMod - 1 : z = (t - h) + CounterMod /\ z > 0 /\ z < CounterMod
      BY <1>1, <2>2
    <3>2. z % CounterMod = IF z < CounterMod THEN z ELSE z - CounterMod
      BY <1>1, SmallRemainder
    <3>3. PICK y \in Int : y = t - h
      BY <1>2
    <3>4. PICK k \in Int : k = 1
      OBVIOUS
    <3>5. z - y = k * CounterMod
      BY <1>1, <3>1, <3>3, <3>4
    <3>6. z % CounterMod = y % CounterMod
      <4>1. PICK x \in Int : x = z
        BY <1>1
      <4>2. x - y = k * CounterMod
        BY <3>5, <4>1
      <4>3. x % CounterMod = y % CounterMod
        BY <1>1, <4>2, SameRemainder
      <4> QED BY <4>1, <4>3
    <3>7. z % CounterMod > 0
      BY <3>1, <3>2
    <3> QED BY <3>3, <3>6, <3>7
  <2> QED BY <1>5, <2>1, <2>2
<1> QED BY <1>3, <1>4, <1>5

\* The tail moves by n: so many more are unread.
LEMMA UsedAfterWrite ==
    ASSUME NEW h \in 0 .. CounterMod - 1, NEW t \in 0 .. CounterMod - 1, NEW n \in Nat,
           ((t - h) % CounterMod) + n < CounterMod
    PROVE  /\ (t + n) % CounterMod \in 0 .. CounterMod - 1
           /\ (((t + n) % CounterMod) - h) % CounterMod = ((t - h) % CounterMod) + n
<1>1. CounterMod \in Nat \ {0}
  BY RingConstants
<1>2. t - h \in Int /\ t + n \in Int
  OBVIOUS
<1>3. PICK p \in Int : t - h = p * CounterMod + ((t - h) % CounterMod)
  BY <1>1, <1>2, RemainderOf
<1>4. PICK q \in Int : t + n = q * CounterMod + ((t + n) % CounterMod)
  BY <1>1, <1>2, RemainderOf
<1>5. PICK u \in 0 .. CounterMod - 1 : u = (t - h) % CounterMod
  BY <1>1, <1>2, RemainderOf
<1>6. PICK r \in 0 .. CounterMod - 1 : r = (t + n) % CounterMod
  BY <1>1, <1>2, RemainderOf
<1>7. PICK k \in Int : k = p - q
  OBVIOUS
<1>8. k * CounterMod = p * CounterMod - q * CounterMod
  BY <1>1, <1>7
<1>9. PICK x \in Int, y \in Int : x = p * CounterMod /\ y = q * CounterMod
  BY <1>1
<1>10. t - h = x + u /\ t + n = y + r /\ k * CounterMod = x - y
  BY <1>3, <1>4, <1>5, <1>6, <1>8, <1>9
<1>11. PICK s \in 0 .. CounterMod - 1 : s = u + n
  <2>1. u + n < CounterMod /\ u + n \in Nat
    BY <1>5
  <2> QED BY <1>1, <2>1
<1>12. r - h = (x - y) + s
  BY <1>10, <1>11
<1>13. r - h = k * CounterMod + s
  BY <1>10, <1>12
<1>14. (k * CounterMod + s) % CounterMod = s
  BY <1>1, RemainderIs
<1>15. (r - h) % CounterMod = s
  <2>1. PICK z \in Int : z = k * CounterMod + s
    BY <1>1
  <2>2. r - h = z /\ z % CounterMod = s
    BY <1>13, <1>14, <2>1
  <2> QED BY <2>2
<1> QED BY <1>5, <1>6, <1>11, <1>15

\* The head moves by n: so many fewer are unread.
LEMMA UsedAfterRead ==
    ASSUME NEW h \in 0 .. CounterMod - 1, NEW t \in 0 .. CounterMod - 1, NEW n \in Nat,
           n <= (t - h) % CounterMod
    PROVE  /\ (h + n) % CounterMod \in 0 .. CounterMod - 1
           /\ (t - ((h + n) % CounterMod)) % CounterMod = ((t - h) % CounterMod) - n
<1>1. CounterMod \in Nat \ {0}
  BY RingConstants
<1>2. t - h \in Int /\ h + n \in Int
  OBVIOUS
<1>3. PICK p \in Int : t - h = p * CounterMod + ((t - h) % CounterMod)
  BY <1>1, <1>2, RemainderOf
<1>4. PICK q \in Int : h + n = q * CounterMod + ((h + n) % CounterMod)
  BY <1>1, <1>2, RemainderOf
<1>5. PICK u \in 0 .. CounterMod - 1 : u = (t - h) % CounterMod
  BY <1>1, <1>2, RemainderOf
<1>6. PICK r \in 0 .. CounterMod - 1 : r = (h + n) % CounterMod
  BY <1>1, <1>2, RemainderOf
<1>7. PICK k \in Int : k = p + q
  OBVIOUS
<1>8. k * CounterMod = p * CounterMod + q * CounterMod
  BY <1>1, <1>7
<1>9. PICK x \in Int, y \in Int : x = p * CounterMod /\ y = q * CounterMod
  BY <1>1
<1>10. t - h = x + u /\ h + n = y + r /\ k * CounterMod = x + y
  BY <1>3, <1>4, <1>5, <1>6, <1>8, <1>9
<1>11. PICK s \in 0 .. CounterMod - 1 : s = u - n
  <2>1. n <= u
    BY <1>5
  <2> QED BY <1>1, <2>1
<1>12. t - r = (x + y) + s
  BY <1>10, <1>11
<1>13. t - r = k * CounterMod + s
  BY <1>10, <1>12
<1>14. (k * CounterMod + s) % CounterMod = s
  BY <1>1, RemainderIs
<1>15. (t - r) % CounterMod = s
  <2>1. PICK z \in Int : z = k * CounterMod + s
    BY <1>1
  <2>2. t - r = z /\ z % CounterMod = s
    BY <1>13, <1>14, <2>1
  <2> QED BY <2>2
<1> QED BY <1>5, <1>6, <1>11, <1>15

\* Where the oldest unread byte is.
LEMMA OldestOffset ==
    ASSUME RingTypes, RingShape, capacity > 0
    PROVE  (tail - Used) % capacity = Offset(head)
<1>1. CounterMod \in Nat \ {0} /\ capacity \in Nat \ {0} /\ head \in Int /\ tail \in Int
      /\ head \in 0 .. CounterMod - 1
  BY RingConstants DEF RingTypes
<1>2. tail - head \in Int
  BY <1>1
<1>3. PICK p \in Int : tail - head = p * CounterMod + Used
  BY <1>1, <1>2, RemainderOf DEF Used
<1>4. PICK q \in Nat : CounterMod = q * capacity
  BY DEF RingShape
<1>5. PICK k \in Int : k = p * q
  OBVIOUS
<1>6. k * capacity = p * CounterMod
  BY <1>1, <1>4, <1>5
<1>7. PICK u \in Int : u = Used
  BY <1>1, <1>2, RemainderOf DEF Used
<1>8. PICK x \in Int : x = p * CounterMod
  BY <1>1
<1>9. (tail - u) - head = k * capacity
  BY <1>1, <1>3, <1>6, <1>7, <1>8
<1>10. (tail - u) % capacity = head % capacity
  <2>1. PICK a \in Int : a = tail - u
    BY <1>1
  <2>2. a - head = k * capacity
    BY <1>9, <2>1
  <2>3. a % capacity = head % capacity
    BY <1>1, <2>2, SameRemainder
  <2> QED BY <2>1, <2>3
<1> QED BY <1>7, <1>10 DEF Offset

-----------------------------------------------------------------------------
(* What the writer puts into the ring. *)

LEMMA WrittenAt ==
    ASSUME NEW d, NEW to \in Int, NEW bytes, NEW n \in Int, Len(bytes) = n,
           NEW c \in Int, c \in DOMAIN d
    PROVE  /\ DOMAIN Written(d, to, bytes) = DOMAIN d
           /\ to <= c /\ c < to + n => Written(d, to, bytes)[c] = bytes[c - to + 1]
           /\ c < to \/ to + n <= c => Written(d, to, bytes)[c] = d[c]
<1>1. c - to \in 0 .. n - 1 <=> (to <= c /\ c < to + n)
  OBVIOUS
<1> QED BY <1>1 DEF Written

LEMMA SizeFieldIs ==
    ASSUME NEW n
    PROVE  /\ SizeField(n) \in Seq({n} \X Nat) /\ Len(SizeField(n)) = SizeBytes
           /\ \A k \in 1 .. SizeBytes : SizeField(n)[k] = <<n, k>>
<1>1. SizeBytes \in Nat
  BY RingConstants
<1> QED BY <1>1 DEF SizeField

LEMMA PartIs ==
    ASSUME NEW S, NEW s \in Seq(S), NEW a \in 1 .. Len(s) + 1, NEW b \in 0 .. Len(s), a <= b + 1
    PROVE  /\ SubSeq(s, a, b) \in Seq(S) /\ Len(SubSeq(s, a, b)) = b - a + 1
           /\ \A k \in 1 .. b - a + 1 : SubSeq(s, a, b)[k] = s[a + k - 1]
<1>1. Len(s) \in Nat /\ a \in Int /\ b \in Int /\ \A i \in a .. b : s[i] \in S
  OBVIOUS
<1>2. /\ SubSeq(s, a, b) \in Seq(S)
      /\ Len(SubSeq(s, a, b)) = IF a <= b THEN b - a + 1 ELSE 0
      /\ \A i \in 1 .. b - a + 1 : SubSeq(s, a, b)[i] = s[a + i - 1]
  BY <1>1, SubSeqProperties
<1>3. (IF a <= b THEN b - a + 1 ELSE 0) = b - a + 1
  BY <1>1
<1> QED BY <1>2, <1>3

\* Where the parts of a record lie: behind each other, or wrapped in the size,
\* or wrapped in the message.
LEMMA PlacesUnwrapped ==
    ASSUME NEW C \in Int, NEW S \in Int, NEW n \in Int, NEW at \in Int, NEW c \in Int, NEW j \in Int,
           S > 0, n >= 0, 0 <= at, at < C, 0 <= c, c < C,
           c >= at => j = c - at, c < at => j = c - at + C, C - at >= S + n
    PROVE  /\ j < S => /\ at <= c /\ c < at + S /\ c - at + 1 = j + 1 /\ j + 1 \in 1 .. S
           /\ j >= S /\ j < S + n => at + S <= c /\ c < at + S + n /\ c - (at + S) + 1 = j - S + 1
           /\ j >= S + n => c < at \/ at + S + n <= c
<1>1. CASE c >= at
  BY <1>1
<1>2. CASE c < at
  BY <1>2
<1> QED BY <1>1, <1>2

LEMMA PlacesInSize ==
    ASSUME NEW C \in Int, NEW S \in Int, NEW n \in Int, NEW at \in Int, NEW c \in Int, NEW j \in Int,
           NEW first \in Int, NEW left \in Int,
           S > 0, n >= 0, S + n <= C, 0 <= at, at < C, 0 <= c, c < C,
           c >= at => j = c - at, c < at => j = c - at + C,
           first = C - at, first < S, left = S - first
    PROVE  /\ left + n <= at
           /\ c >= at => /\ left + n <= c /\ left <= c /\ c < at + first
                         /\ c - at + 1 = j + 1 /\ j + 1 \in 1 .. first /\ j < S
           /\ c < left => c < at /\ c + 1 \in 1 .. left /\ first + (c + 1) = j + 1 /\ j < S
           /\ left <= c /\ c < left + n
                => /\ c < at /\ c - left + 1 = j - S + 1 /\ j >= S /\ j < S + n
           /\ left + n <= c /\ c < at => j >= S + n
<1>1. left + n <= at
  OBVIOUS
<1>2. CASE c >= at
  BY <1>1, <1>2
<1>3. CASE c < at
  BY <1>1, <1>3
<1> QED BY <1>1, <1>2, <1>3

LEMMA PlacesInMessage ==
    ASSUME NEW C \in Int, NEW S \in Int, NEW n \in Int, NEW at \in Int, NEW c \in Int, NEW j \in Int,
           NEW front \in Int, NEW left \in Int,
           S > 0, n >= 0, S + n <= C, 0 <= at, at < C, 0 <= c, c < C,
           c >= at => j = c - at, c < at => j = c - at + C,
           front = C - at - S, front >= 0, front < n, left = n - front
    PROVE  /\ left <= at /\ front <= n /\ left <= n /\ left >= 0
           /\ c >= at => left <= c /\ j < S + n
           /\ c >= at /\ j < S => /\ c < at + S /\ c - at + 1 = j + 1 /\ j + 1 \in 1 .. S
           /\ c >= at /\ j >= S => /\ at + S <= c /\ c < at + S + front
                                  /\ c - (at + S) + 1 = j - S + 1 /\ j - S + 1 \in 1 .. front
           /\ c < left => /\ c < at /\ c + 1 \in 1 .. left /\ front + (c + 1) = j - S + 1
                          /\ j >= S /\ j < S + n
           /\ left <= c /\ c < at => j >= S + n
<1>1. left <= at
  OBVIOUS
<1>2. CASE c >= at
  BY <1>1, <1>2
<1>3. CASE c < at
  BY <1>1, <1>3
<1> QED BY <1>1, <1>2, <1>3

\* The record is in the ring, and the rest of the ring is as it was: byte c is
\* the record's byte j, or behind the record.
RecordIsAt(result, d, size, m, C, S, n, c, j) ==
    /\ DOMAIN result = 0 .. C - 1
    /\ j < S => result[c] = size[j + 1]
    /\ j >= S /\ j < S + n => result[c] = m[j - S + 1]
    /\ j >= S + n => result[c] = d[c]

\* The numbers of the three cases.
Fitting(C, S, n, at, c, j) ==
    /\ C \in Int /\ S \in Int /\ n \in Int /\ at \in Int /\ c \in Int /\ j \in Int
    /\ S > 0 /\ n >= 0 /\ S + n <= C /\ 0 <= at /\ at < C /\ 0 <= c /\ c < C
    /\ c >= at => j = c - at
    /\ c < at => j = c - at + C

Unwrapped(C, S, n, at, c, j) == Fitting(C, S, n, at, c, j) /\ C - at >= S + n

InSize(C, S, n, at, c, j, first, left) ==
    /\ Fitting(C, S, n, at, c, j) /\ first \in Int /\ left \in Int
    /\ first = C - at /\ first < S /\ left = S - first

InMessage(C, S, n, at, c, j, front, left) ==
    /\ Fitting(C, S, n, at, c, j) /\ front \in Int /\ left \in Int
    /\ front = C - at - S /\ front >= 0 /\ front < n /\ left = n - front

LEMMA RecordUnwrapped ==
    ASSUME NEW C, NEW S, NEW n, NEW at, NEW c, NEW j, Unwrapped(C, S, n, at, c, j),
           NEW d, DOMAIN d = 0 .. C - 1,
           NEW size, Len(size) = S, NEW m, Len(m) = n,
           NEW result, result = Written(Written(d, at, size), at + S, m)
    PROVE  RecordIsAt(result, d, size, m, C, S, n, c, j)
<1>0. /\ C \in Int /\ S \in Int /\ n \in Int /\ at \in Int /\ c \in Int /\ j \in Int
      /\ S > 0 /\ n >= 0 /\ S + n <= C /\ 0 <= at /\ at < C /\ 0 <= c /\ c < C
      /\ (c >= at => j = c - at) /\ (c < at => j = c - at + C)
      /\ C - at >= S + n
  BY DEF Fitting, Unwrapped
<1> USE <1>0
<1> DEFINE one == Written(d, at, size)
<1>1. PICK to \in Int : to = at + S
  OBVIOUS
<1> DEFINE new == Written(one, to, m)
<1>2. c \in 0 .. C - 1 /\ c \in Int
  OBVIOUS
<1>3. /\ DOMAIN one = 0 .. C - 1
      /\ at <= c /\ c < at + S => one[c] = size[c - at + 1]
      /\ c < at \/ at + S <= c => one[c] = d[c]
  BY <1>2, WrittenAt
<1> HIDE DEF one
<1>4. /\ DOMAIN new = 0 .. C - 1
      /\ to <= c /\ c < to + n => new[c] = m[c - to + 1]
      /\ c < to \/ to + n <= c => new[c] = one[c]
  BY <1>2, <1>3, WrittenAt
<1> HIDE DEF new
<1>5. /\ j < S => /\ at <= c /\ c < at + S /\ c - at + 1 = j + 1 /\ j + 1 \in 1 .. S
      /\ j >= S /\ j < S + n => at + S <= c /\ c < at + S + n /\ c - (at + S) + 1 = j - S + 1
      /\ j >= S + n => c < at \/ at + S + n <= c
  BY PlacesUnwrapped
<1>6. ASSUME j < S PROVE new[c] = size[j + 1]
  <2>1. at <= c /\ c < at + S /\ c < to /\ c - at + 1 = j + 1
    BY <1>1, <1>5, <1>6
  <2>2. one[c] = size[c - at + 1]
    BY <1>3, <2>1
  <2>3. new[c] = one[c]
    BY <1>4, <2>1
  <2> QED BY <2>1, <2>2, <2>3
<1>7. ASSUME j >= S, j < S + n PROVE new[c] = m[j - S + 1]
  <2>1. to <= c /\ c < to + n /\ c - to + 1 = j - S + 1
    BY <1>1, <1>5, <1>7
  <2>2. new[c] = m[c - to + 1]
    BY <1>4, <2>1
  <2> QED BY <2>1, <2>2
<1>8. ASSUME j >= S + n PROVE new[c] = d[c]
  <2>1. c < at \/ at + S <= c
    BY <1>5, <1>8
  <2>2. c < to \/ to + n <= c
    BY <1>1, <1>5, <1>8
  <2> QED BY <1>3, <1>4, <2>1, <2>2
<1>9. result = new
  BY <1>1 DEF new, one
<1>10. /\ DOMAIN new = 0 .. C - 1
       /\ j < S => new[c] = size[j + 1]
       /\ j >= S /\ j < S + n => new[c] = m[j - S + 1]
       /\ j >= S + n => new[c] = d[c]
  BY <1>4, <1>6, <1>7, <1>8
<1> QED BY <1>9, <1>10 DEF RecordIsAt

LEMMA RecordInSize ==
    ASSUME NEW C, NEW S, NEW n, NEW at, NEW c, NEW j, NEW first, NEW left,
           InSize(C, S, n, at, c, j, first, left),
           NEW d, DOMAIN d = 0 .. C - 1, NEW A,
           NEW size \in Seq(A), Len(size) = S, NEW m, Len(m) = n,
           NEW result, result = Written(Written(Written(d, at, SubSeq(size, 1, first)),
                         0, SubSeq(size, first + 1, S)), left, m)
    PROVE  RecordIsAt(result, d, size, m, C, S, n, c, j)
<1>0. /\ C \in Int /\ S \in Int /\ n \in Int /\ at \in Int /\ c \in Int /\ j \in Int
      /\ S > 0 /\ n >= 0 /\ S + n <= C /\ 0 <= at /\ at < C /\ 0 <= c /\ c < C
      /\ (c >= at => j = c - at) /\ (c < at => j = c - at + C)
      /\ first \in Int /\ left \in Int
      /\ first = C - at /\ first < S /\ left = S - first
  BY DEF Fitting, InSize
<1> USE <1>0
<1> DEFINE front == SubSeq(size, 1, first)
<1>1. PICK a \in Int : a = first + 1
  OBVIOUS
<1> DEFINE rear == SubSeq(size, a, S)
           one == Written(d, at, front)
           two == Written(one, 0, rear)
           new == Written(two, left, m)
<1>13. result = new
  BY <1>1
<1>2. c \in 0 .. C - 1 /\ c \in Int /\ first >= 1
  OBVIOUS
<1>3. /\ Len(front) = first
      /\ \A k \in 1 .. first : front[k] = size[k]
  <2>1. 1 \in 1 .. Len(size) + 1 /\ first \in 0 .. Len(size) /\ 1 <= first + 1
    BY <1>2
  <2>2. Len(front) = first - 1 + 1 /\ \A k \in 1 .. first - 1 + 1 : front[k] = size[1 + k - 1]
    BY <2>1, PartIs
  <2>3. first - 1 + 1 = first /\ \A k \in 1 .. first : 1 + k - 1 = k
    OBVIOUS
  <2> HIDE DEF front
  <2> QED BY <2>2, <2>3
<1>4. /\ Len(rear) = left
      /\ \A k \in 1 .. left : rear[k] = size[first + k]
  <2>1. a \in 1 .. Len(size) + 1 /\ S \in 0 .. Len(size) /\ a <= S + 1
    BY <1>1, <1>2
  <2>2. Len(rear) = S - a + 1 /\ \A k \in 1 .. S - a + 1 : rear[k] = size[a + k - 1]
    BY <2>1, PartIs
  <2>3. S - a + 1 = left /\ \A k \in 1 .. left : a + k - 1 = first + k
    BY <1>1
  <2> HIDE DEF rear
  <2> QED BY <2>2, <2>3
<1> HIDE DEF front, rear
<1>5. /\ DOMAIN one = 0 .. C - 1
      /\ at <= c /\ c < at + first => one[c] = front[c - at + 1]
      /\ c < at \/ at + first <= c => one[c] = d[c]
  <2>1. Len(front) = first
    BY <1>3
  <2> QED BY <1>2, <2>1, WrittenAt
<1> HIDE DEF one
<1>6. /\ DOMAIN two = 0 .. C - 1
      /\ c < left => two[c] = rear[c + 1]
      /\ left <= c => two[c] = one[c]
  <2>1. PICK to \in Int : to = 0
    OBVIOUS
  <2>2. two = Written(one, to, rear)
    BY <2>1
  <2> HIDE DEF two
  <2>3. /\ DOMAIN two = 0 .. C - 1
        /\ to <= c /\ c < to + left => two[c] = rear[c - to + 1]
        /\ c < to \/ to + left <= c => two[c] = one[c]
    <3>1. Len(rear) = left /\ DOMAIN one = 0 .. C - 1
      BY <1>4, <1>5
    <3> QED BY <1>2, <2>2, <3>1, WrittenAt
  <2>4. to <= c /\ to + left = left /\ c - to + 1 = c + 1
    BY <2>1
  <2> QED BY <2>3, <2>4
<1> HIDE DEF two
<1>7. /\ DOMAIN new = 0 .. C - 1
      /\ left <= c /\ c < left + n => new[c] = m[c - left + 1]
      /\ c < left \/ left + n <= c => new[c] = two[c]
  BY <1>2, <1>6, WrittenAt
<1> HIDE DEF new
<1>8. /\ left + n <= at
      /\ c >= at => /\ left + n <= c /\ left <= c /\ c < at + first
                    /\ c - at + 1 = j + 1 /\ j + 1 \in 1 .. first /\ j < S
      /\ c < left => c < at /\ c + 1 \in 1 .. left /\ first + (c + 1) = j + 1 /\ j < S
      /\ left <= c /\ c < left + n
           => /\ c < at /\ c - left + 1 = j - S + 1 /\ j >= S /\ j < S + n
      /\ left + n <= c /\ c < at => j >= S + n
  BY PlacesInSize
<1>9. CASE c >= at
  <2>1. /\ left + n <= c /\ left <= c /\ c < at + first
        /\ c - at + 1 = j + 1 /\ j + 1 \in 1 .. first /\ j < S /\ at <= c
    BY <1>8, <1>9
  <2>2. one[c] = front[c - at + 1]
    BY <1>5, <2>1
  <2>3. new[c] = two[c] /\ two[c] = one[c]
    BY <1>6, <1>7, <2>1
  <2>4. front[j + 1] = size[j + 1]
    BY <1>3, <2>1
  <2>5. new[c] = size[j + 1] /\ ~(j >= S) /\ ~(j >= S + n)
    BY <2>1, <2>2, <2>3, <2>4
  <2> QED BY <1>13, <1>7, <2>5 DEF RecordIsAt
<1>10. CASE c < left
  <2>1. c + 1 \in 1 .. left /\ first + (c + 1) = j + 1 /\ j < S
    BY <1>8, <1>10
  <2>2. new[c] = two[c] /\ two[c] = rear[c + 1]
    BY <1>6, <1>7, <1>10
  <2>3. rear[c + 1] = size[first + (c + 1)]
    BY <1>4, <2>1
  <2>4. new[c] = size[j + 1]
    BY <2>1, <2>2, <2>3
  <2>5. ~(j >= S) /\ ~(j >= S + n)
    BY <2>1
  <2>6. DOMAIN new = 0 .. C - 1
    BY <1>7
  <2> QED BY <1>13, <2>4, <2>5, <2>6 DEF RecordIsAt
<1>11. CASE left <= c /\ c < left + n
  <2>1. c - left + 1 = j - S + 1 /\ ~(j < S) /\ ~(j >= S + n)
    BY <1>8, <1>11
  <2>2. new[c] = m[c - left + 1]
    BY <1>7, <1>11
  <2>3. new[c] = m[j - S + 1]
    BY <2>1, <2>2
  <2> QED BY <1>13, <1>7, <2>1, <2>3 DEF RecordIsAt
<1>12. CASE left + n <= c /\ c < at
  <2>1. j >= S + n /\ ~(j < S) /\ left <= c
    BY <1>8, <1>12
  <2>2. new[c] = two[c] /\ two[c] = one[c] /\ one[c] = d[c]
    BY <1>5, <1>6, <1>7, <1>12, <2>1
  <2>3. new[c] = d[c] /\ ~(j < S + n)
    BY <2>1, <2>2
  <2> QED BY <1>13, <1>7, <2>1, <2>3 DEF RecordIsAt
<1> QED BY <1>9, <1>10, <1>11, <1>12

LEMMA RecordInMessage ==
    ASSUME NEW C, NEW S, NEW n, NEW at, NEW c, NEW j, NEW front, NEW left,
           InMessage(C, S, n, at, c, j, front, left),
           NEW d, DOMAIN d = 0 .. C - 1, NEW A,
           NEW size, Len(size) = S, NEW m \in Seq(A), Len(m) = n,
           NEW result, result = Written(Written(Written(d, at, size), at + S, SubSeq(m, 1, front)),
                         0, SubSeq(m, front + 1, n))
    PROVE  RecordIsAt(result, d, size, m, C, S, n, c, j)
<1>0. /\ C \in Int /\ S \in Int /\ n \in Int /\ at \in Int /\ c \in Int /\ j \in Int
      /\ S > 0 /\ n >= 0 /\ S + n <= C /\ 0 <= at /\ at < C /\ 0 <= c /\ c < C
      /\ (c >= at => j = c - at) /\ (c < at => j = c - at + C)
      /\ front \in Int /\ left \in Int
      /\ front = C - at - S /\ front >= 0 /\ front < n /\ left = n - front
  BY DEF Fitting, InMessage
<1> USE <1>0
<1>1. PICK a \in Int : a = front + 1
  OBVIOUS
<1>2. PICK to \in Int : to = at + S
  OBVIOUS
<1> DEFINE before == SubSeq(m, 1, front)
           behind == SubSeq(m, a, n)
           one == Written(d, at, size)
           two == Written(one, to, before)
           new == Written(two, 0, behind)
<1>16. result = new
  BY <1>1, <1>2
<1>3. c \in 0 .. C - 1 /\ c \in Int
  OBVIOUS
<1>4. /\ Len(before) = front
      /\ \A k \in 1 .. front : before[k] = m[k]
  <2>1. 1 \in 1 .. Len(m) + 1 /\ front \in 0 .. Len(m) /\ 1 <= front + 1
    OBVIOUS
  <2>2. Len(before) = front - 1 + 1 /\ \A k \in 1 .. front - 1 + 1 : before[k] = m[1 + k - 1]
    BY <2>1, PartIs
  <2>3. front - 1 + 1 = front /\ \A k \in 1 .. front : 1 + k - 1 = k
    OBVIOUS
  <2> HIDE DEF before
  <2> QED BY <2>2, <2>3
<1>5. /\ Len(behind) = left
      /\ \A k \in 1 .. left : behind[k] = m[front + k]
  <2>1. a \in 1 .. Len(m) + 1 /\ n \in 0 .. Len(m) /\ a <= n + 1
    BY <1>1
  <2>2. Len(behind) = n - a + 1 /\ \A k \in 1 .. n - a + 1 : behind[k] = m[a + k - 1]
    BY <2>1, PartIs
  <2>3. n - a + 1 = left /\ \A k \in 1 .. left : a + k - 1 = front + k
    BY <1>1
  <2> HIDE DEF behind
  <2> QED BY <2>2, <2>3
<1> HIDE DEF before, behind
<1>6. /\ DOMAIN one = 0 .. C - 1
      /\ at <= c /\ c < at + S => one[c] = size[c - at + 1]
      /\ c < at \/ at + S <= c => one[c] = d[c]
  BY <1>3, WrittenAt
<1> HIDE DEF one
<1>7. /\ DOMAIN two = 0 .. C - 1
      /\ to <= c /\ c < to + front => two[c] = before[c - to + 1]
      /\ c < to \/ to + front <= c => two[c] = one[c]
  <2>1. Len(before) = front /\ DOMAIN one = 0 .. C - 1 /\ front \in Int /\ c \in DOMAIN one
    BY <1>3, <1>4, <1>6
  <2>2. c - to \in 0 .. front - 1 <=> (to <= c /\ c < to + front)
    OBVIOUS
  <2>3. c < to \/ to + front <= c => ~(to <= c /\ c < to + front)
    OBVIOUS
  <2> QED BY <2>1, <2>2, <2>3 DEF Written
<1> HIDE DEF two
<1>8. /\ DOMAIN new = 0 .. C - 1
      /\ c < left => new[c] = behind[c + 1]
      /\ left <= c => new[c] = two[c]
  <2>1. PICK at0 \in Int : at0 = 0
    OBVIOUS
  <2>2. new = Written(two, at0, behind)
    BY <2>1
  <2> HIDE DEF new
  <2>3. /\ DOMAIN new = 0 .. C - 1
        /\ at0 <= c /\ c < at0 + left => new[c] = behind[c - at0 + 1]
        /\ c < at0 \/ at0 + left <= c => new[c] = two[c]
    <3>1. Len(behind) = left /\ DOMAIN two = 0 .. C - 1 /\ left \in Int /\ c \in DOMAIN two
      BY <1>3, <1>5, <1>7
    <3>2. c - at0 \in 0 .. left - 1 <=> (at0 <= c /\ c < at0 + left)
      OBVIOUS
    <3>3. c < at0 \/ at0 + left <= c => ~(at0 <= c /\ c < at0 + left)
      OBVIOUS
    <3> QED BY <2>2, <3>1, <3>2, <3>3 DEF Written
  <2>4. at0 <= c /\ at0 + left = left /\ c - at0 + 1 = c + 1
    BY <2>1
  <2> QED BY <2>3, <2>4
<1> HIDE DEF new
<1>9. /\ left <= at /\ front <= n /\ left <= n /\ left >= 0
      /\ c >= at => left <= c /\ j < S + n
      /\ c >= at /\ j < S => /\ c < at + S /\ c - at + 1 = j + 1 /\ j + 1 \in 1 .. S
      /\ c >= at /\ j >= S => /\ at + S <= c /\ c < at + S + front
                             /\ c - (at + S) + 1 = j - S + 1 /\ j - S + 1 \in 1 .. front
      /\ c < left => /\ c < at /\ c + 1 \in 1 .. left /\ front + (c + 1) = j - S + 1
                     /\ j >= S /\ j < S + n
      /\ left <= c /\ c < at => j >= S + n
  BY PlacesInMessage
<1>10. CASE c >= at /\ j < S
  <2>1. left <= c /\ at <= c /\ c < at + S /\ c < to /\ c - at + 1 = j + 1
    BY <1>2, <1>9, <1>10
  <2>2. new[c] = two[c] /\ two[c] = one[c] /\ one[c] = size[c - at + 1]
    BY <1>6, <1>7, <1>8, <2>1
  <2>3. new[c] = size[j + 1]
    BY <2>1, <2>2
  <2>5. ~(j >= S) /\ ~(j >= S + n)
    BY <1>10
  <2>4. DOMAIN new = 0 .. C - 1 /\ j < S
    BY <1>8, <1>10
  <2> QED BY <1>16, <2>3, <2>4, <2>5 DEF RecordIsAt
<1>11. CASE c >= at /\ j >= S
  <2>1. /\ left <= c /\ to <= c /\ c < to + front /\ c - to + 1 = j - S + 1
        /\ j - S + 1 \in 1 .. front /\ ~(j < S) /\ ~(j >= S + n)
    BY <1>2, <1>9, <1>11
  <2>2. new[c] = two[c] /\ two[c] = before[c - to + 1]
    BY <1>7, <1>8, <2>1
  <2>3. before[j - S + 1] = m[j - S + 1]
    BY <1>4, <2>1
  <2>4. new[c] = m[j - S + 1]
    BY <2>1, <2>2, <2>3
  <2> QED BY <1>16, <1>8, <2>1, <2>4 DEF RecordIsAt
<1>12. CASE c < left
  <2>1. c + 1 \in 1 .. left /\ front + (c + 1) = j - S + 1 /\ ~(j < S) /\ ~(j >= S + n)
    BY <1>9, <1>12
  <2>2. new[c] = behind[c + 1] /\ behind[c + 1] = m[front + (c + 1)]
    BY <1>5, <1>8, <1>12, <2>1
  <2>3. new[c] = m[j - S + 1]
    BY <2>1, <2>2
  <2> QED BY <1>16, <1>8, <2>1, <2>3 DEF RecordIsAt
<1>13. CASE left <= c /\ c < at
  <2>1. j >= S + n /\ ~(j < S) /\ ~(j < S + n) /\ c < to
    BY <1>2, <1>9, <1>13
  <2>2. new[c] = two[c] /\ two[c] = one[c] /\ one[c] = d[c]
    BY <1>6, <1>7, <1>8, <1>13, <2>1
  <2>3. new[c] = d[c]
    BY <2>2
  <2> QED BY <1>16, <1>8, <2>1, <2>3 DEF RecordIsAt
<1>14. j < S \/ j >= S
  OBVIOUS
<1>15. c >= at \/ c < left \/ (left <= c /\ c < at)
  BY <1>9
<1> QED BY <1>10, <1>11, <1>12, <1>13, <1>14, <1>15

\* The place of a byte, counted from the tail on.
PlaceOf(c, at) == IF c >= at THEN c - at ELSE c - at + capacity

LEMMA WithMessageAt ==
    ASSUME NEW m \in Messages, capacity \in Nat \ {0}, DOMAIN data = 0 .. capacity - 1,
           RecordLength(m) <= capacity, NEW at \in 0 .. capacity - 1, at = Offset(tail),
           NEW c \in 0 .. capacity - 1
    PROVE  /\ DOMAIN WithMessage(m) = DOMAIN data
           /\ PlaceOf(c, at) < RecordLength(m) => WithMessage(m)[c] = RecordByte(m, PlaceOf(c, at))
           /\ PlaceOf(c, at) >= RecordLength(m) => WithMessage(m)[c] = data[c]
<1> DEFINE size == SizeField(Len(m))
<1>1. PICK n \in Int : n = Len(m) /\ n >= 0
  BY MessageLength
<1>2. PICK C \in Int, S \in Int : C = capacity /\ S = SizeBytes /\ S > 0
  BY RingConstants
<1>3. S + n <= C /\ RecordLength(m) = S + n
  BY <1>1, <1>2, MessageLength
<1>4. at \in Int /\ c \in Int /\ 0 <= at /\ at < C /\ 0 <= c /\ c < C /\ DOMAIN data = 0 .. C - 1
  BY <1>2
<1>5. PICK j \in Int : /\ j = PlaceOf(c, at)
                       /\ c >= at => j = c - at
                       /\ c < at => j = c - at + C
  BY <1>2, <1>4 DEF PlaceOf
<1>6. /\ size \in Seq({n} \X Nat) /\ Len(size) = S
      /\ \A k \in 1 .. S : size[k] = <<n, k>>
      /\ m \in Seq(Payloads \X Nat)
  BY <1>1, <1>2, SizeFieldIs, MessageLength
<1>7. /\ j < S => RecordByte(m, j) = size[j + 1]
      /\ j >= S => RecordByte(m, j) = m[j - S + 1]
  <2>1. j >= 0
    BY <1>4, <1>5
  <2>2. j < S => j + 1 \in 1 .. S
    BY <2>1
  <2> HIDE DEF size
  <2>3. ASSUME j < S PROVE RecordByte(m, j) = size[j + 1]
    <3>1. size[j + 1] = <<n, j + 1>>
      BY <1>6, <2>2, <2>3
    <3> QED BY <1>1, <1>2, <2>3, <3>1 DEF RecordByte
  <2>4. ASSUME j >= S PROVE RecordByte(m, j) = m[j - S + 1]
    BY <1>2, <2>4 DEF RecordByte
  <2> QED BY <2>3, <2>4
<1>8. PICK first \in Int : first = C - at
  BY <1>4
<1> HIDE DEF size
<1>14. PICK d : d = data
  OBVIOUS
<1>15. PICK field : field = size
  OBVIOUS
<1>16. /\ S > 0 /\ n >= 0 /\ S + n <= C /\ 0 <= at /\ at < C /\ 0 <= c /\ c < C
       /\ (c >= at => j = c - at) /\ (c < at => j = c - at + C)
       /\ at \in Int /\ c \in Int
  BY <1>1, <1>2, <1>3, <1>4, <1>5
<1>17. DOMAIN d = 0 .. C - 1 /\ Len(field) = S /\ Len(m) = n
       /\ field \in Seq({n} \X Nat) /\ m \in Seq(Payloads \X Nat)
  BY <1>1, <1>4, <1>6, <1>14, <1>15
<1>9. SUFFICES /\ DOMAIN WithMessage(m) = 0 .. C - 1
               /\ j < S => WithMessage(m)[c] = size[j + 1]
               /\ j >= S /\ j < S + n => WithMessage(m)[c] = m[j - S + 1]
               /\ j >= S + n => WithMessage(m)[c] = data[c]
  <2>1. j < S \/ j >= S
    BY <1>5
  <2>2. j < S => ~(j >= S + n)
    BY <1>1
  <2> QED BY <1>3, <1>4, <1>5, <1>7, <2>1, <2>2
<1>10. WriteWraps(Len(m)) <=> first < S + n
  BY <1>1, <1>2, <1>8 DEF WriteWraps
<1>11. CASE ~WriteWraps(Len(m))
  <2>1. WithMessage(m) = Written(Written(data, at, size), at + S, m)
    BY <1>2, <1>11 DEF WithMessage, size
  <2>2. Unwrapped(C, S, n, at, c, j)
    BY <1>8, <1>10, <1>11, <1>16 DEF Unwrapped, Fitting
  <2>3. PICK new : new = WithMessage(m)
    OBVIOUS
  <2>4. new = Written(Written(d, at, field), at + S, m)
    BY <1>14, <1>15, <2>1, <2>3
  <2>5. RecordIsAt(new, d, field, m, C, S, n, c, j)
    BY <1>17, <2>2, <2>4, RecordUnwrapped
  <2> QED BY <1>14, <1>15, <2>3, <2>5 DEF RecordIsAt
<1>12. CASE WriteWraps(Len(m)) /\ first < S
  <2>1. PICK left \in Int : left = S - first
    OBVIOUS
  <2>6. InSize(C, S, n, at, c, j, first, left)
    BY <1>8, <1>12, <1>16, <2>1 DEF InSize, Fitting
  <2>2. WithMessage(m) = Written(Written(Written(data, at, SubSeq(size, 1, first)),
                                         0, SubSeq(size, first + 1, S)), left, m)
    BY <1>2, <1>8, <1>12, <2>1 DEF WithMessage, size
  <2>3. PICK new : new = WithMessage(m)
    OBVIOUS
  <2>4. new = Written(Written(Written(d, at, SubSeq(field, 1, first)),
                              0, SubSeq(field, first + 1, S)), left, m)
    BY <1>14, <1>15, <2>2, <2>3
  <2>5. RecordIsAt(new, d, field, m, C, S, n, c, j)
    BY <1>17, <2>6, <2>4, RecordInSize
  <2> QED BY <1>14, <1>15, <2>3, <2>5 DEF RecordIsAt
<1>13. CASE WriteWraps(Len(m)) /\ ~(first < S)
  <2>1. PICK front \in Int : front = C - at - S
    BY <1>4
  <2>2. PICK left \in Int : left = n - front
    OBVIOUS
  <2>3. InMessage(C, S, n, at, c, j, front, left)
    <3>1. first < S + n /\ ~(first < S)
      BY <1>10, <1>13
    <3>2. Fitting(C, S, n, at, c, j)
      BY <1>16 DEF Fitting
    <3>3. front = first - S
      BY <1>8, <1>16, <2>1
    <3>4. front >= 0 /\ front < n
      BY <3>1, <3>3
    <3> QED BY <2>1, <2>2, <3>2, <3>4 DEF InMessage
  <2>4. WithMessage(m) = Written(Written(Written(data, at, size), at + S, SubSeq(m, 1, front)),
                                 0, SubSeq(m, front + 1, n))
    <3>1. capacity - Offset(tail) - SizeBytes = front
      BY <1>2, <2>1
    <3> QED BY <1>1, <1>2, <1>8, <1>13, <3>1 DEF WithMessage, size
  <2>5. PICK new : new = WithMessage(m)
    OBVIOUS
  <2>6. new = Written(Written(Written(d, at, field), at + S, SubSeq(m, 1, front)),
                      0, SubSeq(m, front + 1, n))
    BY <1>14, <1>15, <2>4, <2>5
  <2>7. RecordIsAt(new, d, field, m, C, S, n, c, j)
    BY <1>17, <2>3, <2>6, RecordInMessage
  <2> QED BY <1>14, <1>15, <2>5, <2>7 DEF RecordIsAt
<1> QED BY <1>11, <1>12, <1>13

\* A message that has room is written whole, and behind what is unread.
LEMMA RecordWritten ==
    ASSUME NEW m \in Messages, capacity \in Nat \ {0}, DOMAIN data = 0 .. capacity - 1,
           tail \in Int, RecordLength(m) <= capacity
    PROVE  /\ DOMAIN WithMessage(m) = 0 .. capacity - 1
           /\ Holds(WithMessage(m), tail, m)
           /\ \A i \in Int : i >= 1 /\ i + RecordLength(m) <= capacity =>
                WithMessage(m)[(tail - i) % capacity] = data[(tail - i) % capacity]
<1>1. PICK at \in 0 .. capacity - 1 : at = tail % capacity /\ at = Offset(tail)
  BY RemainderOf DEF Offset
<1>2. PICK L \in Nat : L = RecordLength(m) /\ L > 0
  BY MessageLength
<1>3. ASSUME NEW j \in 0 .. capacity - 1
      PROVE  /\ (tail + j) % capacity \in 0 .. capacity - 1
             /\ PlaceOf((tail + j) % capacity, at) = j
  <2>1. (tail + j) % capacity = IF at + j < capacity THEN at + j ELSE at + j - capacity
    <3>1. j \in 0 .. capacity
      OBVIOUS
    <3> QED BY <1>1, <3>1, NextRemainder
  <2> QED BY <2>1 DEF PlaceOf
<1>4. ASSUME NEW j \in 0 .. capacity - 1
      PROVE  /\ DOMAIN WithMessage(m) = DOMAIN data
             /\ j < L => WithMessage(m)[(tail + j) % capacity] = RecordByte(m, j)
             /\ j >= L => WithMessage(m)[(tail + j) % capacity] = data[(tail + j) % capacity]
  <2>1. PICK c \in 0 .. capacity - 1 : c = (tail + j) % capacity /\ PlaceOf(c, at) = j
    BY <1>3
  <2>2. /\ DOMAIN WithMessage(m) = DOMAIN data
        /\ PlaceOf(c, at) < RecordLength(m) => WithMessage(m)[c] = RecordByte(m, PlaceOf(c, at))
        /\ PlaceOf(c, at) >= RecordLength(m) => WithMessage(m)[c] = data[c]
    BY <1>1, WithMessageAt
  <2> QED BY <1>2, <2>1, <2>2
<1>5. DOMAIN WithMessage(m) = 0 .. capacity - 1
  <2>1. 0 \in 0 .. capacity - 1
    OBVIOUS
  <2> QED BY <1>4, <2>1
<1>6. Holds(WithMessage(m), tail, m)
  <2> SUFFICES ASSUME NEW j \in 0 .. RecordLength(m) - 1
               PROVE  WithMessage(m)[(tail + j) % capacity] = RecordByte(m, j)
    BY DEF Holds
  <2>1. j \in 0 .. capacity - 1 /\ j < L
    BY <1>2
  <2> QED BY <1>4, <2>1
<1>7. ASSUME NEW i \in Int, i >= 1, i + RecordLength(m) <= capacity
      PROVE  WithMessage(m)[(tail - i) % capacity] = data[(tail - i) % capacity]
  <2>1. PICK j \in Int : j = capacity - i
    OBVIOUS
  <2>2. j \in 0 .. capacity - 1 /\ j >= L
    BY <1>2, <1>7, <2>1
  <2>3. (tail + j) % capacity = (tail - i) % capacity
    <3>1. PICK x \in Int, y \in Int, k \in Int : x = tail + j /\ y = tail - i /\ k = 1
      OBVIOUS
    <3>2. x - y = k * capacity
      BY <2>1, <3>1
    <3>3. x % capacity = y % capacity
      BY <3>2, SameRemainder
    <3> QED BY <3>1, <3>3
  <2> QED BY <1>4, <2>2, <2>3
<1> QED BY <1>5, <1>6, <1>7

-----------------------------------------------------------------------------
(* What the reader finds in the ring. *)

LEMMA BytesAre ==
    ASSUME NEW from \in Int, NEW n \in Nat
    PROVE  /\ Bytes(from, n) \in Seq({data[i] : i \in Int}) /\ Len(Bytes(from, n)) = n
           /\ \A k \in 1 .. n : Bytes(from, n)[k] = data[from + k - 1]
<1>1. \A k \in 1 .. n : from + k - 1 \in Int
  OBVIOUS
<1>2. \A k \in 1 .. n : data[from + k - 1] \in {data[i] : i \in Int}
  BY <1>1
<1>3. Bytes(from, n) \in [1 .. n -> {data[i] : i \in Int}]
  BY <1>2 DEF Bytes
<1>4. Bytes(from, n) \in Seq({data[i] : i \in Int}) /\ Len(Bytes(from, n)) = n
  BY <1>3
<1> QED BY <1>4 DEF Bytes

LEMMA OnePiece ==
    ASSUME NEW S, NEW s \in Seq(S), NEW from \in Int, NEW n \in Nat, Len(s) = n,
           \A k \in 1 .. n : s[k] = data[from + k - 1]
    PROVE  Bytes(from, n) = s
<1>1. s = [k \in 1 .. n |-> s[k]]
  OBVIOUS
<1> QED BY <1>1 DEF Bytes

LiesInTwo(s, f, g, a, b, n) ==
    /\ f \in Int /\ g \in Int /\ a \in Nat /\ b \in Nat /\ n \in Nat
    /\ n = a + b /\ Len(s) = n
    /\ \A k \in 1 .. a : s[k] = data[f + k - 1]
    /\ \A k \in a + 1 .. n : s[k] = data[g + (k - a) - 1]

LEMMA TwoPieces ==
    ASSUME NEW S, NEW s \in Seq(S), NEW f, NEW g, NEW a, NEW b, NEW n, LiesInTwo(s, f, g, a, b, n)
    PROVE  Bytes(f, a) \o Bytes(g, b) = s
<1>0. /\ f \in Int /\ g \in Int /\ a \in Nat /\ b \in Nat /\ n \in Nat
      /\ n = a + b /\ Len(s) = n
  BY DEF LiesInTwo
<1> USE <1>0
<1>7. /\ \A k \in 1 .. a : s[k] = data[f + k - 1]
      /\ \A k \in a + 1 .. n : s[k] = data[g + (k - a) - 1]
  BY DEF LiesInTwo
<1> DEFINE T == {data[i] : i \in Int}
           one == Bytes(f, a)
           two == Bytes(g, b)
<1>1. one \in Seq(T) /\ Len(one) = a /\ \A k \in 1 .. a : one[k] = data[f + k - 1]
  BY BytesAre
<1>2. two \in Seq(T) /\ Len(two) = b /\ \A k \in 1 .. b : two[k] = data[g + k - 1]
  BY BytesAre
<1> HIDE DEF T, one, two
<1>3. /\ one \o two \in Seq(T) /\ Len(one \o two) = n
      /\ \A k \in 1 .. n : (one \o two)[k] = IF k <= a THEN one[k] ELSE two[k - a]
  <2>1. /\ one \o two \in Seq(T) /\ Len(one \o two) = Len(one) + Len(two)
        /\ \A k \in 1 .. Len(one) + Len(two) :
             (one \o two)[k] = IF k <= Len(one) THEN one[k] ELSE two[k - Len(one)]
    BY <1>1, <1>2, ConcatProperties
  <2>2. Len(one) = a /\ Len(one) + Len(two) = n
    BY <1>1, <1>2
  <2> QED BY <2>1, <2>2
<1>4. ASSUME NEW k \in 1 .. n PROVE (one \o two)[k] = s[k]
  <2>1. CASE k <= a
    <3>1. (one \o two)[k] = one[k] /\ k \in 1 .. a
      BY <1>3, <2>1
    <3>2. one[k] = data[f + k - 1]
      BY <1>1, <3>1
    <3>3. s[k] = data[f + k - 1]
      BY <1>7, <3>1
    <3> QED BY <3>1, <3>2, <3>3
  <2>2. CASE k > a
    <3>1. PICK i \in 1 .. b : i = k - a
      BY <2>2
    <3>6. (one \o two)[k] = two[k - a]
      BY <1>3, <2>2
    <3>2. (one \o two)[k] = two[i] /\ k \in a + 1 .. n
      BY <2>2, <3>1, <3>6
    <3>3. two[i] = data[g + i - 1]
      BY <1>2
    <3>4. s[k] = data[g + (k - a) - 1]
      BY <1>7, <3>2
    <3>5. s[k] = data[g + i - 1]
      BY <3>1, <3>4
    <3> QED BY <3>2, <3>3, <3>5
  <2>3. k <= a \/ k > a
    OBVIOUS
  <2> QED BY <2>1, <2>2, <2>3
<1>5. one \o two = [k \in 1 .. n |-> (one \o two)[k]] /\ s = [k \in 1 .. n |-> s[k]]
  <2>1. one \o two \in Seq(T) /\ Len(one \o two) = n
    BY <1>3
  <2>2. PICK w : w = one \o two
    OBVIOUS
  <2>5. w \in Seq(T) /\ Len(w) = n
    BY <2>1, <2>2
  <2>3. w = [k \in 1 .. n |-> w[k]]
    BY <2>5
  <2>4. s = [k \in 1 .. n |-> s[k]]
    OBVIOUS
  <2> QED BY <2>2, <2>3, <2>4
<1>6. one \o two = s
  BY <1>4, <1>5
<1> QED BY <1>6 DEF one, two

\* The record's byte j is where the offset, or the ring's beginning, says.
LEMMA HeldByte ==
    ASSUME capacity \in Nat \ {0}, NEW x \in Int, NEW m \in Messages, RecordLength(m) <= capacity,
           Holds(data, x, m), NEW at \in 0 .. capacity - 1, at = x % capacity,
           NEW j \in 0 .. RecordLength(m) - 1
    PROVE  /\ at + j < capacity => data[at + j] = RecordByte(m, j)
           /\ at + j >= capacity => data[at + j - capacity] = RecordByte(m, j)
<1>1. RecordLength(m) \in Nat
  BY MessageLength
<1>2. j \in 0 .. capacity
  BY <1>1
<1>3. (x + j) % capacity = IF at + j < capacity THEN at + j ELSE at + j - capacity
  BY <1>2, NextRemainder
<1>4. data[(x + j) % capacity] = RecordByte(m, j)
  BY DEF Holds
<1> QED BY <1>1, <1>3, <1>4

LEMMA HeldSize ==
    ASSUME capacity \in Nat \ {0}, NEW x \in Int, NEW m \in Messages, RecordLength(m) <= capacity,
           Holds(data, x, m), NEW at \in 0 .. capacity - 1, at = x % capacity
    PROVE  SizeFieldAt(at) = SizeField(Len(m))
<1>1. PICK n \in Nat, S \in Nat : n = Len(m) /\ S = SizeBytes /\ S > 0 /\ RecordLength(m) = S + n
  BY MessageLength, RingConstants
<1>2. PICK first \in Nat : /\ first = Min2(capacity - at, S) /\ first <= S
                           /\ first = capacity - at \/ (first = S /\ first <= capacity - at)
  BY DEF Min2
<1>3. PICK rest \in Nat : rest = S - first
  BY <1>2
<1> DEFINE s == SizeField(n)
<1>4. s \in Seq({n} \X Nat) /\ Len(s) = S /\ \A k \in 1 .. S : s[k] = <<n, k>>
  BY <1>1, SizeFieldIs
<1> HIDE DEF s
<1>5. ASSUME NEW k \in 1 .. S
      PROVE  /\ k <= first => s[k] = data[at + k - 1]
             /\ k > first => s[k] = data[0 + (k - first) - 1]
  <2>1. PICK j \in Int : j = k - 1
    OBVIOUS
  <2>2. j \in 0 .. RecordLength(m) - 1 /\ j < S
    BY <1>1, <2>1
  <2>3. /\ at + j < capacity => data[at + j] = RecordByte(m, j)
        /\ at + j >= capacity => data[at + j - capacity] = RecordByte(m, j)
    BY <2>2, HeldByte
  <2>4. RecordByte(m, j) = <<n, k>>
    <3>1. j + 1 = k
      BY <2>1
    <3> QED BY <1>1, <2>2, <3>1 DEF RecordByte
  <2>5. s[k] = <<n, k>>
    BY <1>4
  <2>6. k <= first => at + j < capacity /\ at + j = at + k - 1
    BY <1>2, <2>1
  <2>7. k > first => at + j >= capacity /\ at + j - capacity = 0 + (k - first) - 1
    BY <1>2, <2>1
  <2> QED BY <2>3, <2>4, <2>5, <2>6, <2>7
<1>6. \A k \in 1 .. first : s[k] = data[at + k - 1]
  BY <1>2, <1>5
<1>7. \A k \in first + 1 .. S : s[k] = data[0 + (k - first) - 1]
  BY <1>5
<1>8. S = first + rest /\ 0 \in Int /\ at \in Int
  BY <1>3
<1>9. Bytes(at, first) \o Bytes(0, rest) = s
  <2>1. LiesInTwo(s, at, 0, first, rest, S)
    BY <1>4, <1>6, <1>7, <1>8 DEF LiesInTwo
  <2>2. s \in Seq({n} \X Nat)
    BY <1>4
  <2> QED BY <2>1, <2>2, TwoPieces
<1> QED BY <1>1, <1>2, <1>3, <1>9 DEF SizeFieldAt, s

LEMMA HeldMessage ==
    ASSUME capacity \in Nat \ {0}, NEW x \in Int, NEW m \in Messages, RecordLength(m) <= capacity,
           Holds(data, x, m), NEW at \in 0 .. capacity - 1, at = x % capacity
    PROVE  MessageAt(at, Len(m)) = m
<1>1. PICK n \in Nat, S \in Nat : n = Len(m) /\ S = SizeBytes /\ S > 0 /\ RecordLength(m) = S + n
  BY MessageLength, RingConstants
<1>2. PICK left \in Nat : left = capacity - at
  OBVIOUS
<1>3. m \in Seq(Payloads \X Nat) /\ Len(m) = n
  BY <1>1, MessageLength
<1>4. ASSUME NEW k \in 1 .. n
      PROVE  /\ S + k <= left => m[k] = data[at + S + k - 1]
             /\ S + k > left => m[k] = data[(S + k) - left - 1]
  <2>1. PICK j \in Int : j = S + k - 1
    OBVIOUS
  <2>2. j \in 0 .. RecordLength(m) - 1 /\ ~(j < S) /\ j - S + 1 = k
    BY <1>1, <2>1
  <2>3. /\ at + j < capacity => data[at + j] = RecordByte(m, j)
        /\ at + j >= capacity => data[at + j - capacity] = RecordByte(m, j)
    BY <2>2, HeldByte
  <2>4. RecordByte(m, j) = m[k]
    BY <1>1, <2>2 DEF RecordByte
  <2>5. S + k <= left => at + j < capacity /\ at + j = at + S + k - 1
    BY <1>2, <2>1
  <2>6. S + k > left => at + j >= capacity /\ at + j - capacity = (S + k) - left - 1
    BY <1>2, <2>1
  <2> QED BY <2>3, <2>4, <2>5, <2>6
<1>5. CASE left < S
  <2>1. PICK from \in Int : from = S - left
    OBVIOUS
  <2>2. \A k \in 1 .. n : S + k > left /\ (S + k) - left - 1 = from + k - 1
    BY <1>5, <2>1
  <2>3. \A k \in 1 .. n : m[k] = data[from + k - 1]
    BY <1>4, <2>2
  <2>4. Bytes(from, n) = m
    BY <1>3, <2>3, OnePiece
  <2>5. MessageAt(at, Len(m)) = Bytes(SizeBytes - left, Len(m))
    BY <1>1, <1>2, <1>5 DEF MessageAt
  <2> QED BY <1>1, <2>1, <2>4, <2>5
<1>6. CASE left >= S /\ left < S + n
  <2>1. PICK a \in Nat : a = left - S
    BY <1>6
  <2>2. PICK b \in Nat : b = n - a
    BY <1>6, <2>1
  <2>3. PICK f \in Int : f = at + S
    OBVIOUS
  <2>4. n = a + b /\ 0 \in Int
    BY <2>2
  <2>5. ASSUME NEW k \in 1 .. a PROVE m[k] = data[f + k - 1]
    <3>1. k \in 1 .. n /\ S + k <= left /\ at + S + k - 1 = f + k - 1
      BY <2>1, <2>3, <2>4
    <3> QED BY <1>4, <3>1
  <2>6. ASSUME NEW k \in a + 1 .. n PROVE m[k] = data[0 + (k - a) - 1]
    <3>1. k \in 1 .. n /\ S + k > left /\ (S + k) - left - 1 = 0 + (k - a) - 1
      BY <2>1, <2>4
    <3> QED BY <1>4, <3>1
  <2>7. Bytes(f, a) \o Bytes(0, b) = m
    <3>1. LiesInTwo(m, f, 0, a, b, n)
      BY <1>3, <2>4, <2>5, <2>6 DEF LiesInTwo
    <3>2. m \in Seq(Payloads \X Nat)
      BY <1>3
    <3> QED BY <3>1, <3>2, TwoPieces
  <2>8. MessageAt(at, Len(m)) = Bytes(at + SizeBytes, left - SizeBytes)
                                  \o Bytes(0, Len(m) - (left - SizeBytes))
    <3>1. ~(left < S)
      BY <1>6
    <3> QED BY <1>1, <1>2, <1>6, <3>1 DEF MessageAt
  <2> QED BY <1>1, <2>1, <2>2, <2>3, <2>7, <2>8
<1>7. CASE left >= S + n
  <2>1. PICK from \in Int : from = at + S
    OBVIOUS
  <2>2. \A k \in 1 .. n : S + k <= left /\ at + S + k - 1 = from + k - 1
    BY <1>7, <2>1
  <2>3. \A k \in 1 .. n : m[k] = data[from + k - 1]
    BY <1>4, <2>2
  <2>4. Bytes(from, n) = m
    BY <1>3, <2>3, OnePiece
  <2>5. MessageAt(at, Len(m)) = Bytes(at + SizeBytes, Len(m))
    <3>1. ~(left < S) /\ ~(left >= S /\ left < S + n)
      BY <1>7
    <3> QED BY <1>1, <1>2, <3>1 DEF MessageAt
  <2> QED BY <1>1, <2>1, <2>4, <2>5
<1> QED BY <1>5, <1>6, <1>7

\* Two messages at one place are one message, and a size names one length.
LEMMA HeldOnce ==
    ASSUME NEW d, NEW x, NEW m \in Messages, NEW w \in Messages, Holds(d, x, m), Holds(d, x, w)
    PROVE  m = w
<1>1. /\ m \in Seq(Payloads \X Nat) /\ Len(m) \in Nat /\ RecordLength(m) = SizeBytes + Len(m)
      /\ w \in Seq(Payloads \X Nat) /\ Len(w) \in Nat /\ RecordLength(w) = SizeBytes + Len(w)
      /\ SizeBytes \in Nat /\ SizeBytes > 0
  BY MessageLength, RingConstants
<1>2. Len(m) = Len(w)
  <2>1. 0 \in 0 .. RecordLength(m) - 1 /\ 0 \in 0 .. RecordLength(w) - 1
    BY <1>1
  <2>2. RecordByte(m, 0) = RecordByte(w, 0)
    BY <2>1 DEF Holds
  <2>3. RecordByte(m, 0) = <<Len(m), 0 + 1>> /\ RecordByte(w, 0) = <<Len(w), 0 + 1>>
    BY <1>1 DEF RecordByte
  <2> QED BY <2>2, <2>3
<1>3. ASSUME NEW k \in 1 .. Len(m) PROVE m[k] = w[k]
  <2>1. PICK j \in Int : j = SizeBytes + k - 1
    BY <1>1
  <2>2. j \in 0 .. RecordLength(m) - 1 /\ j \in 0 .. RecordLength(w) - 1
    BY <1>1, <1>2, <2>1
  <2>3. ~(j < SizeBytes) /\ j - SizeBytes + 1 = k
    BY <1>1, <2>1
  <2>4. RecordByte(m, j) = RecordByte(w, j)
    BY <2>2 DEF Holds
  <2> QED BY <2>3, <2>4 DEF RecordByte
<1>4. m = [k \in 1 .. Len(m) |-> m[k]] /\ w = [k \in 1 .. Len(m) |-> w[k]]
  <2>1. m = [k \in 1 .. Len(m) |-> m[k]]
    BY <1>1
  <2>2. w = [k \in 1 .. Len(w) |-> w[k]]
    BY <1>1
  <2> QED BY <1>2, <2>1, <2>2
<1> QED BY <1>3, <1>4

LEMMA SizeIsOne ==
    ASSUME NEW n, NEW k, SizeField(n) = SizeField(k)
    PROVE  n = k
<1>1. 1 \in 1 .. SizeBytes
  BY RingConstants
<1>2. SizeField(n)[1] = <<n, 1>> /\ SizeField(k)[1] = <<k, 1>>
  BY <1>1 DEF SizeField
<1> QED BY <1>2

-----------------------------------------------------------------------------
(* The boundaries of the unread messages. *)

LEMMA NothingUnread ==
    ASSUME NEW d, NEW t
    PROVE  Boundaries(d, t, {0})
BY DEF Boundaries

\* A message that is written where there is room leaves the unread ones alone.
LEMMA BoundariesKept ==
    ASSUME NEW m \in Messages, capacity \in Nat \ {0}, DOMAIN data = 0 .. capacity - 1, tail \in Int,
           NEW u \in Nat, u + RecordLength(m) <= capacity,
           NEW b \in 1 .. u, NEW w \in Messages, RecordLength(w) <= b, Holds(data, tail - b, w)
    PROVE  Holds(WithMessage(m), tail - b, w)
<1> SUFFICES ASSUME NEW j \in 0 .. RecordLength(w) - 1
             PROVE  WithMessage(m)[((tail - b) + j) % capacity] = RecordByte(w, j)
  BY DEF Holds
<1>1. PICK k \in Int, L \in Int : k = RecordLength(w) /\ L = RecordLength(m) /\ L > 0
  BY MessageLength
<1>2. PICK i \in Int : i = b - j
  BY <1>1
<1>3. i >= 1 /\ i + L <= capacity /\ (tail - b) + j = tail - i
  BY <1>1, <1>2
<1>4. WithMessage(m)[(tail - i) % capacity] = data[(tail - i) % capacity]
  <2>1. RecordLength(m) <= capacity /\ i + RecordLength(m) <= capacity
    BY <1>1, <1>3
  <2>2. \A n \in Int : n >= 1 /\ n + RecordLength(m) <= capacity =>
           WithMessage(m)[(tail - n) % capacity] = data[(tail - n) % capacity]
    BY <2>1, RecordWritten
  <2> QED BY <1>3, <2>1, <2>2
<1>5. data[((tail - b) + j) % capacity] = RecordByte(w, j)
  BY DEF Holds
<1> QED BY <1>3, <1>4, <1>5

\* Two counters with the same offset: a message at one is at the other.
LEMMA HeldAtTheSame ==
    ASSUME NEW d, NEW x \in Int, NEW y \in Int, NEW m,
           \A j \in Int : (x + j) % capacity = (y + j) % capacity,
           Holds(d, x, m), RecordLength(m) \in Int
    PROVE  Holds(d, y, m)
BY DEF Holds

\* The tail moves by the length of a message; what lay behind the old tail lies
\* so much further behind the new one.
LEMMA TailMoved ==
    ASSUME RingTypes, RingShape, capacity > 0, NEW L \in Nat, NEW b \in Int, NEW j \in Int
    PROVE  ((((tail + L) % CounterMod) - (b + L)) + j) % capacity = ((tail - b) + j) % capacity
<1>1. PICK x \in Int, y \in Int : x = tail + L /\ y = j - (b + L)
  BY DEF RingTypes
<1>2. PICK r \in Int : r = x % CounterMod
  BY RingConstants, RemainderOf
<1>3. (r + y) % capacity = (x + y) % capacity
  BY <1>2, WrappedOffset
<1>4. PICK t \in Int : t = tail
  BY DEF RingTypes
<1>5. (r - (b + L)) + j = r + y /\ x + y = (t - b) + j
  BY <1>1, <1>4
<1> QED BY <1>1, <1>2, <1>3, <1>4, <1>5

LEMMA HeldBehindNewTail ==
    ASSUME RingTypes, RingShape, capacity > 0, NEW L \in Nat, NEW b \in Int, NEW d,
           NEW m \in Messages, Holds(d, tail - b, m)
    PROVE  Holds(d, ((tail + L) % CounterMod) - (b + L), m)
<1>1. PICK x \in Int : x = tail - b
  BY DEF RingTypes
<1>2. PICK y \in Int : y = ((tail + L) % CounterMod) - (b + L)
  <2>1. PICK z \in Int : z = tail + L
    BY DEF RingTypes
  <2>2. z % CounterMod \in Int
    BY RingConstants, RemainderOf
  <2> QED BY <2>1, <2>2
<1>3. ASSUME NEW j \in Int PROVE (x + j) % capacity = (y + j) % capacity
  <2>1. (y + j) % capacity = (x + j) % capacity
    BY <1>1, <1>2, TailMoved
  <2> QED BY <2>1
<1>4. RecordLength(m) \in Int
  BY MessageLength
<1>5. Holds(d, y, m)
  BY <1>1, <1>3, <1>4, HeldAtTheSame
<1> QED BY <1>2, <1>5

\* The oldest unread message.
LEMMA OldestMessage ==
    ASSUME RingInv, capacity > 0, Used > 0
    PROVE  \E m \in Messages : /\ RecordLength(m) <= Used
                               /\ Holds(data, tail - Used, m)
                               /\ SizeFieldAt(Offset(head)) = SizeField(Len(m))
                               /\ MessageAt(Offset(head), Len(m)) = m
<1>1. PICK u \in Nat : u = Used /\ u > 0 /\ u <= capacity
  <2>1. Used \in 0 .. CounterMod - 1
    BY UsedIs DEF RingInv, RingTypes, Used
  <2> QED BY <2>1, RingConstants DEF RingInv, CountersInStep
<1>2. PICK B : u \in B /\ Boundaries(data, tail, B)
  BY <1>1 DEF RingInv, UnreadIsWhole
<1>3. PICK m \in Messages : RecordLength(m) <= u /\ Holds(data, tail - u, m)
  BY <1>1, <1>2 DEF Boundaries
<1>4. capacity \in Nat \ {0} /\ head \in Int /\ tail \in Int
  BY RingConstants DEF RingInv, RingTypes
<1>5. PICK x \in Int : x = tail - u
  BY <1>4
<1>6. PICK at \in 0 .. capacity - 1 : at = x % capacity
  BY <1>4, RemainderOf
<1>7. Offset(head) = at
  BY <1>1, <1>5, <1>6, OldestOffset DEF RingInv
<1>8. RecordLength(m) <= capacity
  <2>1. PICK k \in Int : k = RecordLength(m)
    BY MessageLength
  <2>2. PICK c \in Int : c = capacity
    BY <1>4
  <2>3. u <= c /\ k <= u
    BY <1>1, <1>3, <2>1, <2>2
  <2>4. k <= c
    BY <2>3
  <2> QED BY <2>1, <2>2, <2>4
<1>9. SizeFieldAt(at) = SizeField(Len(m)) /\ MessageAt(at, Len(m)) = m
  <2>1. Holds(data, x, m)
    BY <1>3, <1>5
  <2> QED BY <1>4, <1>6, <1>8, <2>1, HeldSize, HeldMessage
<1> QED BY <1>1, <1>3, <1>7, <1>9

-----------------------------------------------------------------------------
(* Every step keeps the invariant. *)

LEMMA RingInvInit == Init => RingInv
<1> SUFFICES ASSUME Init PROVE RingInv
  OBVIOUS
<1>1. Used = 0
  BY RingConstants, UsedIs DEF Init, Used
<1>2. RingTypes
  <2>1. IdleWriter \in WriterType /\ IdleWriter.at = "idle"
    BY DEF IdleWriter, WriterType
  <2>2. IdleReader \in ReaderType /\ IdleReader.at = "idle"
    BY DEF IdleReader, ReaderType
  <2>3. 0 \in 0 .. CounterMod - 1
    BY RingConstants
  <2> QED BY <2>1, <2>2, <2>3 DEF Init, RingTypes
<1>3. RingShape
  BY DEF Init, RingShape, IdleWriter, IdleReader
<1>4. CountersInStep
  BY <1>1 DEF Init, CountersInStep, IdleWriter
<1>5. WriterReady /\ ReaderReady
  BY DEF Init, WriterReady, ReaderReady, IdleWriter, IdleReader
<1>6. UnreadIsWhole
  <2>1. {0} \in SUBSET (0 .. Used) /\ Used \in {0}
    BY <1>1
  <2> QED BY <2>1, NothingUnread DEF UnreadIsWhole
<1> QED BY <1>2, <1>3, <1>4, <1>5, <1>6 DEF RingInv

\* Between 0 and the width of a counter.
LEMMA UsedType ==
    ASSUME RingTypes
    PROVE  Used \in 0 .. CounterMod - 1 /\ Used \in Nat
BY UsedIs, RingConstants DEF RingTypes, Used

\* An empty buffer, of any capacity.
LEMMA NewRing ==
    ASSUME RingInv, capacity = 0 \/ (writer = IdleWriter /\ reader = IdleReader),
           UNCHANGED <<writer, reader>>, head' = 0, tail' = 0, locked' \in BOOLEAN,
           capacity' \in Nat, capacity' < CounterMod,
           capacity' > 0 => /\ \E q \in Nat : CounterMod = q * capacity'
                            /\ DOMAIN data' = 0 .. capacity' - 1
    PROVE  RingInv'
<1>1. writer'.at = "idle" /\ reader'.at = "idle"
  BY DEF RingInv, RingShape, IdleWriter, IdleReader
<1>2. Used' = 0
  BY RingConstants, UsedIs DEF Used
<1>3. RingTypes'
  BY RingConstants DEF RingInv, RingTypes
<1>4. RingShape'
  BY <1>1 DEF RingShape
<1>5. CountersInStep'
  BY <1>1, <1>2 DEF CountersInStep
<1>6. WriterReady' /\ ReaderReady'
  BY <1>1 DEF WriterReady, ReaderReady
<1>7. UnreadIsWhole'
  <2>1. {0} \in SUBSET (0 .. Used') /\ Used' \in {0}
    BY <1>2
  <2>2. Boundaries(data, tail, {0})'
    BY DEF Boundaries
  <2> QED BY <2>1, <2>2 DEF UnreadIsWhole
<1> QED BY <1>3, <1>4, <1>5, <1>6, <1>7 DEF RingInv

LEMMA CreateKeeps ==
    ASSUME RingInv, NEW n \in Capacities, Create(n)
    PROVE  RingInv'
<1>1. n \in Nat \ {0} /\ 2 * n <= CounterMod
  BY RingAssumption
<1>2. PICK p : p = RoundUpPowOfTwo(n)
  OBVIOUS
<1>3. PICK k \in Nat : p = 2 ^ k /\ p \in Nat \ {0} /\ n <= p /\ (p = 1 \/ p \div 2 < n)
  BY <1>1, <1>2, RoundedUp
<1>4. p < CounterMod
  <2>1. CASE p = 1
    BY <1>1, <2>1, RingConstants
  <2>2. CASE p \div 2 < n
    <3>1. p <= 2 * (p \div 2) + 1
      BY <1>3
    <3>2. p <= 2 * n - 1
      BY <1>1, <1>3, <2>2, <3>1
    <3> QED BY <1>1, <1>3, <3>2, RingConstants
  <2> QED BY <1>3, <2>1, <2>2
<1>5. PICK K \in Nat : CounterMod = 2 ^ K
  BY RingAssumption
<1>6. \E q \in Nat : CounterMod = q * p
  <2>1. 2 ^ k < 2 ^ K
    BY <1>3, <1>4, <1>5
  <2>2. \E q \in Nat : 2 ^ K = q * 2 ^ k
    BY <2>1, PowerDivides
  <2> QED BY <1>3, <1>5, <2>2
<1>7. capacity' = p /\ capacity' \in Nat
  BY <1>2, <1>3 DEF Create
<1>8. DOMAIN data' = 0 .. capacity' - 1 /\ head' = 0 /\ tail' = 0 /\ locked' \in BOOLEAN
      /\ capacity = 0 /\ UNCHANGED <<writer, reader>>
  BY DEF Create
<1> QED BY <1>4, <1>6, <1>7, <1>8, NewRing

LEMMA DestroyKeeps ==
    ASSUME RingInv, Destroy
    PROVE  RingInv'
<1>1. /\ writer = IdleWriter /\ reader = IdleReader /\ UNCHANGED <<writer, reader>>
      /\ head' = 0 /\ tail' = 0 /\ locked' \in BOOLEAN /\ capacity' = 0
  BY DEF Destroy
<1>2. capacity' \in Nat /\ capacity' < CounterMod
  BY <1>1, RingConstants
<1>3. ~(capacity' > 0)
  BY <1>1
<1> QED BY <1>1, <1>2, <1>3, NewRing

\* What a step that leaves the buffer alone leaves alone.
LEMMA BufferKept ==
    ASSUME RingInv, UNCHANGED ring
    PROVE  /\ Used' = Used /\ UnreadIsWhole' /\ Offset(head)' = Offset(head)
           /\ capacity \in Nat /\ capacity' = capacity /\ locked' \in BOOLEAN
           /\ head' \in 0 .. CounterMod - 1 /\ tail' \in 0 .. CounterMod - 1
           /\ capacity' > 0 => /\ capacity' < CounterMod
                               /\ \E q \in Nat : CounterMod = q * capacity'
                               /\ DOMAIN data' = 0 .. capacity' - 1
           /\ capacity' = 0 => head' = 0 /\ tail' = 0
           /\ \A c, m : Holds(data, c, m)' <=> Holds(data, c, m)
           /\ Used' \in Nat /\ Used' <= capacity'
<1>1. data' = data /\ capacity' = capacity /\ locked' = locked /\ head' = head /\ tail' = tail
  BY DEF ring
<1>2. Used' = Used
  BY <1>1 DEF Used
<1>3. \A c, m : Holds(data, c, m)' <=> Holds(data, c, m)
  BY <1>1 DEF Holds
<1>4. \A B : Boundaries(data, tail, B)' <=> Boundaries(data, tail, B)
  BY <1>1 DEF Boundaries, Holds
<1>5. UnreadIsWhole'
  BY <1>2, <1>4 DEF RingInv, UnreadIsWhole
<1>6. Offset(head)' = Offset(head)
  BY <1>1 DEF Offset
<1>7. RingTypes /\ RingShape /\ Used <= capacity /\ Used \in Nat
  BY UsedType DEF RingInv, CountersInStep
<1> QED BY <1>1, <1>2, <1>3, <1>5, <1>6, <1>7 DEF RingTypes, RingShape

LEMMA WriteStartKeeps ==
    ASSUME RingInv, NEW m \in Messages, WriteStart(m)
    PROVE  RingInv'
<1>1. /\ capacity > 0 /\ UNCHANGED ring /\ reader' = reader
      /\ writer' = [at |-> "checking", message |-> m, seen |-> Offset(head)]
  BY DEF WriteStart
<1>2. capacity \in Nat \ {0} /\ head \in Int /\ tail \in Int
  BY <1>1 DEF RingInv, RingTypes
<1>3. Offset(head) \in Int
  BY <1>2, RemainderOf DEF Offset
<1>4. writer' \in WriterType /\ writer'.at = "checking" /\ writer'.message \in Messages
  BY <1>1, <1>3 DEF WriterType
<1>5. RingTypes'
  BY <1>1, <1>4, BufferKept DEF RingInv, RingTypes
<1>6. RingShape'
  BY <1>1, <1>2, BufferKept DEF RingShape
<1>7. CountersInStep'
  BY <1>1, <1>4, BufferKept DEF CountersInStep
<1>8. WriterReady'
  BY <1>4 DEF WriterReady
<1>9. ReaderReady'
  BY <1>1, BufferKept DEF RingInv, ReaderReady, ring, Holds
<1> QED BY <1>1, <1>5, <1>6, <1>7, <1>8, <1>9, BufferKept DEF RingInv

LEMMA WriteCheckKeeps ==
    ASSUME RingInv, WriteCheck
    PROVE  RingInv'
<1>1. writer.at = "checking" /\ UNCHANGED ring /\ reader' = reader
  BY DEF WriteCheck
<1>2. PICK m \in Messages : m = writer.message
  BY <1>1 DEF RingInv, RingTypes
<1>3. PICK u \in Nat, n \in Nat : u = Used /\ n = Len(m) /\ SizeBytes \in Nat
  BY UsedType, MessageLength, RingConstants DEF RingInv
<1>4. writer \in WriterType /\ capacity \in Nat
  BY DEF RingInv, RingTypes
<1>5. \/ writer' = [writer EXCEPT !.at = "copying"] /\ Fits(n, writer.seen)
      \/ writer' = IdleWriter
  BY <1>2, <1>3 DEF WriteCheck
<1>6. /\ writer' \in WriterType /\ writer'.at \in {"idle", "copying"}
      /\ writer'.at = "copying" => writer'.message = m /\ u + SizeBytes + n <= capacity
  <2>1. CASE writer' = [writer EXCEPT !.at = "copying"] /\ Fits(n, writer.seen)
    <3>1. writer' \in WriterType /\ writer'.at = "copying" /\ writer'.message = m
      BY <1>2, <1>4, <2>1 DEF WriterType
    <3>2. FreeSize >= SizeBytes + n
      BY <2>1 DEF Fits
    <3>3. capacity - u >= SizeBytes + n
      BY <1>3, <3>2 DEF FreeSize
    <3>4. u + SizeBytes + n <= capacity
      BY <1>3, <1>4, <3>3
    <3> QED BY <3>1, <3>4
  <2>2. CASE writer' = IdleWriter
    BY <2>2 DEF WriterType, IdleWriter
  <2> QED BY <1>5, <2>1, <2>2
<1>7. RingTypes'
  BY <1>1, <1>2, <1>6, BufferKept DEF RingInv, RingTypes
<1>8. RingShape'
  <2>1. capacity # 0
    BY <1>1 DEF RingInv, RingShape
  <2> QED BY <1>1, <1>6, <2>1, BufferKept DEF RingShape
<1>9. CountersInStep'
  <2>1. writer'.at \in {"copying", "copied"} => u + SizeBytes + Len(writer'.message) <= capacity
    BY <1>3, <1>6
  <2> QED BY <1>1, <1>3, <2>1, BufferKept DEF CountersInStep
<1>10. WriterReady'
  BY <1>6 DEF WriterReady
<1>11. ReaderReady'
  BY <1>1, BufferKept DEF RingInv, ReaderReady, ring, Holds
<1> QED BY <1>1, <1>7, <1>8, <1>9, <1>10, <1>11, BufferKept DEF RingInv

LEMMA WriteCopyKeeps ==
    ASSUME RingInv, WriteCopy
    PROVE  RingInv'
<1>1. /\ writer.at = "copying" /\ writer' = [writer EXCEPT !.at = "copied"] /\ reader' = reader
      /\ data' = WithMessage(writer.message)
      /\ capacity' = capacity /\ locked' = locked /\ head' = head /\ tail' = tail
  BY DEF WriteCopy
<1>2. PICK m \in Messages : m = writer.message
  BY <1>1 DEF RingInv, RingTypes
<1>3. /\ writer \in WriterType /\ writer' \in WriterType
      /\ writer'.at = "copied" /\ writer'.message = m
  BY <1>1, <1>2 DEF RingInv, RingTypes, WriterType
<1>4. capacity \in Nat \ {0} /\ tail \in Int /\ DOMAIN data = 0 .. capacity - 1
  <2>1. capacity # 0
    BY <1>1 DEF RingInv, RingShape
  <2> QED BY <2>1 DEF RingInv, RingTypes, RingShape
<1>5. PICK u \in Nat, L \in Nat : u = Used /\ L = RecordLength(m) /\ L = SizeBytes + Len(m)
                                 /\ SizeBytes \in Nat /\ Len(m) \in Nat
  BY UsedType, MessageLength, RingConstants DEF RingInv
<1>6. u + SizeBytes + Len(m) <= capacity
  BY <1>1, <1>2, <1>5 DEF RingInv, CountersInStep
<1>7. u + L <= capacity /\ L <= capacity
  BY <1>4, <1>5, <1>6
<1>8. /\ DOMAIN WithMessage(m) = 0 .. capacity - 1
      /\ Holds(WithMessage(m), tail, m)
  BY <1>4, <1>5, <1>7, RecordWritten
<1>9. ASSUME NEW b \in 1 .. u, NEW w \in Messages, RecordLength(w) <= b, Holds(data, tail - b, w)
      PROVE  Holds(WithMessage(m), tail - b, w)
  <2>1. u + RecordLength(m) <= capacity
    BY <1>5, <1>7
  <2> QED BY <1>4, <1>9, <2>1, BoundariesKept
<1>10. Used' = u
  BY <1>1, <1>5 DEF Used
<1>11. \A d, c, w : Holds(d, c, w)' <=> Holds(d', c, w)
  BY <1>1 DEF Holds
<1>12. RingTypes'
  BY <1>1, <1>2, <1>3 DEF RingInv, RingTypes
<1>13. RingShape'
  BY <1>1, <1>2, <1>4, <1>8 DEF RingInv, RingShape
<1>14. CountersInStep'
  BY <1>1, <1>3, <1>4, <1>5, <1>6, <1>7, <1>10 DEF CountersInStep
<1>15. WriterReady'
  BY <1>1, <1>2, <1>3, <1>8 DEF WriterReady, Holds
<1>16. ReaderReady'
  <2>1. reader.at = "copying" => Used' > 0
    BY <1>5, <1>10 DEF RingInv, ReaderReady
  <2>2. ASSUME reader.at = "copied"
        PROVE  RecordLength(reader.message) <= u /\ Holds(WithMessage(m), tail - u, reader.message)
    <3>1. PICK w \in Messages : w = reader.message
      BY <2>2 DEF RingInv, RingTypes
    <3>2. RecordLength(w) <= u /\ Holds(data, tail - u, w)
      BY <1>5, <2>2, <3>1 DEF RingInv, ReaderReady
    <3>3. u \in 1 .. u
      BY <1>5, <3>2, MessageLength
    <3> QED BY <1>9, <3>1, <3>2, <3>3
  <2>3. ASSUME reader.at = "copied" PROVE (RecordLength(reader.message) <= Used)'
    BY <1>1, <1>10, <2>2, <2>3
  <2>4. ASSUME reader.at = "copied" PROVE Holds(data, tail - Used, reader.message)'
    <3>1. Holds(WithMessage(m), tail - u, reader.message)
      BY <2>2, <2>4
    <3>2. /\ (tail - Used)' = tail - u /\ data' = WithMessage(m)
          /\ capacity' = capacity /\ reader' = reader
      BY <1>1, <1>2, <1>10
    <3> QED BY <3>1, <3>2 DEF Holds
  <2> QED BY <1>1, <2>1, <2>3, <2>4 DEF ReaderReady
<1>17. UnreadIsWhole'
  <2>1. PICK B \in SUBSET (0 .. u) : u \in B /\ Boundaries(data, tail, B)
    BY <1>5 DEF RingInv, UnreadIsWhole
  <2>2. ASSUME NEW b \in B \ {0}
        PROVE  \E w \in Messages : /\ RecordLength(w) <= b
                                   /\ b - RecordLength(w) \in B
                                   /\ Holds(WithMessage(m), tail - b, w)
    <3>1. PICK w \in Messages : /\ RecordLength(w) <= b /\ b - RecordLength(w) \in B
                                /\ Holds(data, tail - b, w)
      BY <2>1, <2>2 DEF Boundaries
    <3>2. b \in 1 .. u
      BY <2>1, <2>2
    <3> QED BY <1>9, <3>1, <3>2
  <2>3. Boundaries(WithMessage(m), tail, B)
    BY <2>1, <2>2 DEF Boundaries
  <2>4. Boundaries(data, tail, B)'
    BY <1>1, <1>2, <2>3 DEF Boundaries, Holds, RecordLength
  <2> QED BY <1>10, <2>1, <2>4 DEF UnreadIsWhole
<1> QED BY <1>12, <1>13, <1>14, <1>15, <1>16, <1>17 DEF RingInv

\* The room that a message takes is there, in a counter too.
LEMMA WriterHasRoom ==
    ASSUME RingInv, writer.at = "copied"
    PROVE  /\ writer.message \in Messages /\ capacity \in Nat \ {0}
           /\ Used + RecordLength(writer.message) <= capacity
           /\ Used + RecordLength(writer.message) < CounterMod
           /\ (tail + Len(writer.message) + SizeBytes) % CounterMod
                = (tail + RecordLength(writer.message)) % CounterMod
<1>1. PICK m \in Messages : m = writer.message
  BY DEF RingInv, RingTypes
<1>2. capacity \in Nat \ {0} /\ capacity < CounterMod /\ CounterMod \in Int
  <2>1. capacity # 0
    BY DEF RingInv, RingShape
  <2> QED BY <2>1, RingConstants DEF RingInv, RingTypes, RingShape
<1>3. PICK u \in Nat, L \in Nat, n \in Nat, S \in Nat :
         u = Used /\ L = RecordLength(m) /\ n = Len(m) /\ S = SizeBytes /\ L = S + n
  BY UsedType, MessageLength, RingConstants DEF RingInv
<1>4. u + S + n <= capacity
  BY <1>1, <1>3 DEF RingInv, CountersInStep
<1>5. u + L <= capacity /\ u + L < CounterMod
  BY <1>2, <1>3, <1>4
<1>6. (tail + n + S) % CounterMod = (tail + L) % CounterMod
  <2>1. tail + n + S = tail + L
    BY <1>3 DEF RingInv, RingTypes
  <2> QED BY <2>1
<1> QED BY <1>1, <1>2, <1>3, <1>5, <1>6

LEMMA WriteEndKeeps ==
    ASSUME RingInv, WriteEnd
    PROVE  RingInv'
<1>1. /\ writer.at = "copied" /\ writer' = IdleWriter /\ reader' = reader /\ data' = data
      /\ capacity' = capacity /\ locked' = locked /\ head' = head
      /\ tail' = (tail + Len(writer.message) + SizeBytes) % CounterMod
  BY DEF WriteEnd
<1>2. PICK m \in Messages : m = writer.message
  BY <1>1 DEF RingInv, RingTypes
<1>3. PICK u \in Nat, L \in Nat : u = Used /\ L = RecordLength(m) /\ L > 0
  BY UsedType, MessageLength DEF RingInv
<1>4. /\ capacity \in Nat \ {0} /\ u + L <= capacity /\ u + L < CounterMod
      /\ tail' = (tail + L) % CounterMod
  BY <1>1, <1>2, <1>3, WriterHasRoom
<1>5. RingTypes /\ RingShape /\ head \in 0 .. CounterMod - 1 /\ tail \in 0 .. CounterMod - 1
  BY DEF RingInv, RingTypes
<1>6. tail' \in 0 .. CounterMod - 1 /\ Used' = u + L
  <2>1. ((tail - head) % CounterMod) + L < CounterMod
    BY <1>3, <1>4 DEF Used
  <2>2. /\ (tail + L) % CounterMod \in 0 .. CounterMod - 1
        /\ (((tail + L) % CounterMod) - head) % CounterMod = ((tail - head) % CounterMod) + L
    BY <1>5, <2>1, UsedAfterWrite
  <2> QED BY <1>1, <1>3, <1>4, <2>2 DEF Used
<1>7. IdleWriter \in WriterType /\ IdleWriter.at = "idle"
  BY DEF IdleWriter, WriterType
<1>8. ASSUME NEW b \in Int, NEW w \in Messages, Holds(data, tail - b, w)
      PROVE  Holds(data, tail' - (b + L), w)
  <2>1. Holds(data, ((tail + L) % CounterMod) - (b + L), w)
    BY <1>4, <1>5, <1>8, HeldBehindNewTail
  <2> QED BY <1>4, <2>1
<1>9. RingTypes'
  BY <1>1, <1>6, <1>7 DEF RingInv, RingTypes
<1>10. RingShape'
  BY <1>1, <1>4, <1>5 DEF RingShape
<1>11. CountersInStep'
  BY <1>1, <1>4, <1>6, <1>7 DEF CountersInStep
<1>12. WriterReady'
  BY <1>1, <1>7 DEF WriterReady
<1>13. ReaderReady'
  <2>1. reader.at = "copying" => Used' > 0
    BY <1>3, <1>6
  <2>2. ASSUME reader.at = "copied"
        PROVE  RecordLength(reader.message) <= u + L /\ Holds(data, tail' - (u + L), reader.message)
    <3>1. PICK w \in Messages : w = reader.message
      BY <2>2 DEF RingInv, RingTypes
    <3>2. RecordLength(w) <= u /\ Holds(data, tail - u, w)
      BY <1>3, <2>2, <3>1 DEF RingInv, ReaderReady
    <3>3. RecordLength(w) <= u + L
      BY <1>3, <3>2, MessageLength
    <3>4. Holds(data, tail' - (u + L), w)
      BY <1>8, <3>2
    <3> QED BY <3>1, <3>3, <3>4
  <2>3. ASSUME reader.at = "copied" PROVE (RecordLength(reader.message) <= Used)'
    BY <1>1, <1>6, <2>2, <2>3
  <2>4. ASSUME reader.at = "copied" PROVE Holds(data, tail - Used, reader.message)'
    <3>1. Holds(data, tail' - (u + L), reader.message)
      BY <2>2, <2>4
    <3>2. (tail - Used)' = tail' - (u + L) /\ data' = data /\ capacity' = capacity /\ reader' = reader
      BY <1>1, <1>6
    <3> QED BY <3>1, <3>2 DEF Holds
  <2> QED BY <1>1, <2>1, <2>3, <2>4 DEF ReaderReady
<1>14. UnreadIsWhole'
  <2>1. PICK B \in SUBSET (0 .. u) : u \in B /\ Boundaries(data, tail, B)
    BY <1>3 DEF RingInv, UnreadIsWhole
  <2>2. PICK D : D = {b + L : b \in B} \cup {0}
    OBVIOUS
  <2>3. D \in SUBSET (0 .. u + L) /\ u + L \in D /\ 0 \in D
    BY <1>3, <2>1, <2>2
  <2>4. ASSUME NEW e \in D \ {0}
        PROVE  \E w \in Messages : /\ RecordLength(w) <= e
                                   /\ e - RecordLength(w) \in D
                                   /\ Holds(data, tail' - e, w)
    <3>1. PICK b \in B : e = b + L /\ b \in Nat
      BY <2>1, <2>2, <2>4
    <3>2. CASE b = 0
      <4>1. Holds(data, tail - 0, m)
        <5>1. Holds(data, tail, m) /\ tail - 0 = tail
          BY <1>1, <1>2, <1>5 DEF RingInv, WriterReady
        <5> QED BY <5>1
      <4>2. Holds(data, tail' - (0 + L), m)
        BY <1>8, <4>1
      <4>3. e = L /\ 0 + L = L /\ e - RecordLength(m) = 0 /\ RecordLength(m) <= e
        BY <1>3, <3>1, <3>2
      <4> QED BY <2>3, <4>2, <4>3
    <3>3. CASE b # 0
      <4>1. PICK w \in Messages : /\ RecordLength(w) <= b /\ b - RecordLength(w) \in B
                                  /\ Holds(data, tail - b, w)
        BY <2>1, <3>1, <3>3 DEF Boundaries
      <4>2. Holds(data, tail' - (b + L), w)
        BY <1>8, <3>1, <4>1
      <4>3. PICK k \in Nat : k = RecordLength(w)
        BY MessageLength
      <4>4. k <= e /\ e - k = (b - k) + L
        BY <1>3, <3>1, <4>1, <4>3
      <4>5. e - k \in D
        BY <2>2, <4>1, <4>3, <4>4
      <4> QED BY <3>1, <4>2, <4>3, <4>4, <4>5
    <3> QED BY <3>2, <3>3
  <2>5. Boundaries(data, tail', D)
    <3>1. D \subseteq Nat
      BY <1>3, <2>3
    <3> QED BY <2>3, <2>4, <3>1 DEF Boundaries
  <2>6. Boundaries(data, tail, D)'
    BY <1>1, <2>5 DEF Boundaries, Holds
  <2> QED BY <1>6, <2>3, <2>6 DEF UnreadIsWhole
<1> QED BY <1>9, <1>10, <1>11, <1>12, <1>13, <1>14 DEF RingInv

-----------------------------------------------------------------------------

LEMMA ReadStartKeeps ==
    ASSUME RingInv, NEW space \in Spaces, ReadStart(space)
    PROVE  RingInv'
<1>1. capacity > 0 /\ UNCHANGED ring /\ writer' = writer
      /\ (UNCHANGED reader \/ (head # tail /\ reader' = [IdleReader EXCEPT !.at = "copying", !.space = space]))
  BY DEF ReadStart
<1>2. space \in Int
  BY RingConstants
<1>3. RingTypes'
  <2>1. CASE UNCHANGED reader
    BY <1>1, <2>1, BufferKept DEF RingInv, RingTypes
  <2>2. CASE reader' = [IdleReader EXCEPT !.at = "copying", !.space = space]
    <3>1. reader' \in ReaderType /\ reader'.at = "copying"
      BY <1>2, <2>2 DEF IdleReader, ReaderType
    <3> QED BY <1>1, <3>1, BufferKept DEF RingInv, RingTypes
  <2> QED BY <1>1, <2>1, <2>2
<1>4. RingShape'
  BY <1>1, BufferKept DEF RingShape
<1>5. CountersInStep'
  BY <1>1, BufferKept DEF RingInv, CountersInStep
<1>6. WriterReady'
  BY <1>1 DEF RingInv, WriterReady, ring, Holds
<1>7. ReaderReady'
  <2>1. CASE UNCHANGED reader
    BY <1>1, <2>1, BufferKept DEF RingInv, ReaderReady, ring, Holds
  <2>2. CASE head # tail /\ reader' = [IdleReader EXCEPT !.at = "copying", !.space = space]
    <3>1. reader'.at = "copying"
      BY <2>2 DEF IdleReader
    <3>2. Used > 0
      BY <2>2, UsedIs DEF RingInv, RingTypes, Used
    <3> QED BY <1>1, <3>1, <3>2, BufferKept DEF ReaderReady
  <2> QED BY <1>1, <2>1, <2>2
<1> QED BY <1>1, <1>3, <1>4, <1>5, <1>6, <1>7, BufferKept DEF RingInv

LEMMA ReadCopyKeeps ==
    ASSUME RingInv, ReadCopy
    PROVE  RingInv'
<1>1. /\ reader.at = "copying" /\ UNCHANGED ring /\ writer' = writer
  BY DEF ReadCopy
<1>2. capacity \in Nat \ {0}
  <2>1. capacity # 0
    BY <1>1 DEF RingInv, RingShape
  <2> QED BY <2>1 DEF RingInv, RingTypes
<1>3. PICK w \in Messages : /\ RecordLength(w) <= Used
                            /\ Holds(data, tail - Used, w)
                            /\ SizeFieldAt(Offset(head)) = SizeField(Len(w))
                            /\ MessageAt(Offset(head), Len(w)) = w
  <2>1. Used > 0 /\ capacity > 0
    BY <1>1, <1>2 DEF RingInv, ReaderReady
  <2> QED BY <2>1, OldestMessage
<1>4. PICK n \in Sizes : /\ IsSize(SizeFieldAt(Offset(head)), n)
                         /\ \/ reader' = IdleReader
                            \/ reader' = [reader EXCEPT !.at = "copied",
                                                        !.message = MessageAt(Offset(head), n)]
  BY DEF ReadCopy
<1>5. n = Len(w)
  BY <1>3, <1>4, SizeIsOne DEF IsSize
<1>6. \/ reader' = IdleReader
      \/ reader' = [reader EXCEPT !.at = "copied", !.message = w]
  BY <1>3, <1>4, <1>5
<1>7. /\ reader' \in ReaderType /\ reader'.at \in {"idle", "copied"}
      /\ reader'.at = "copied" => reader'.message = w
  <2>1. reader \in ReaderType
    BY DEF RingInv, RingTypes
  <2>2. CASE reader' = IdleReader
    BY <2>2 DEF IdleReader, ReaderType
  <2>3. CASE reader' = [reader EXCEPT !.at = "copied", !.message = w]
    BY <2>1, <2>3 DEF ReaderType
  <2> QED BY <1>6, <2>2, <2>3
<1>8. RingTypes'
  BY <1>1, <1>7, BufferKept DEF RingInv, RingTypes
<1>9. RingShape'
  BY <1>1, <1>2, BufferKept DEF RingShape
<1>10. CountersInStep'
  BY <1>1, BufferKept DEF RingInv, CountersInStep
<1>11. WriterReady'
  BY <1>1 DEF RingInv, WriterReady, ring, Holds
<1>12. ReaderReady'
  <2>1. ASSUME reader'.at = "copied" PROVE Holds(data, tail - Used, reader.message)'
    <3>1. (tail - Used)' = tail - Used /\ data' = data /\ capacity' = capacity /\ reader'.message = w
      BY <1>1, <1>7, <2>1, BufferKept DEF ring
    <3> QED BY <1>3, <3>1 DEF Holds
  <2>2. ASSUME reader'.at = "copied" PROVE (RecordLength(reader.message) <= Used)'
    BY <1>1, <1>3, <1>7, <2>2, BufferKept
  <2>3. reader'.at # "copying"
    BY <1>7
  <2> QED BY <2>1, <2>2, <2>3 DEF ReaderReady
<1> QED BY <1>1, <1>8, <1>9, <1>10, <1>11, <1>12, BufferKept DEF RingInv

\* The message that the reader copied is the oldest one: what is behind it
\* starts at a boundary.
LEMMA ReadEndKeeps ==
    ASSUME RingInv, ReadEnd
    PROVE  RingInv'
<1>1. /\ reader.at = "copied" /\ reader' = IdleReader /\ writer' = writer /\ data' = data
      /\ capacity' = capacity /\ locked' = locked /\ tail' = tail
      /\ head' = (head + Len(reader.message) + SizeBytes) % CounterMod
  BY DEF ReadEnd
<1>2. PICK m \in Messages : m = reader.message
  BY <1>1 DEF RingInv, RingTypes
<1>3. PICK u \in Nat, L \in Nat : u = Used /\ L = RecordLength(m) /\ L > 0 /\ L = SizeBytes + Len(m)
  BY UsedType, MessageLength DEF RingInv
<1>4. L <= u /\ Holds(data, tail - u, m)
  BY <1>1, <1>2, <1>3 DEF RingInv, ReaderReady
<1>5. RingTypes /\ RingShape /\ head \in 0 .. CounterMod - 1 /\ tail \in 0 .. CounterMod - 1
  BY DEF RingInv, RingTypes
<1>6. capacity \in Nat \ {0} /\ u <= capacity
  <2>1. capacity # 0
    BY <1>1 DEF RingInv, RingShape
  <2> QED BY <1>3, <2>1 DEF RingInv, RingTypes, CountersInStep
<1>7. PICK v \in Nat : v = u - L
  BY <1>4
<1>8. head' \in 0 .. CounterMod - 1 /\ Used' = v
  <2>1. head + Len(m) + SizeBytes = head + L
    BY <1>3, <1>5, MessageLength, RingConstants
  <2>2. head' = (head + L) % CounterMod
    BY <1>1, <1>2, <2>1
  <2>3. L <= (tail - head) % CounterMod
    BY <1>3, <1>4 DEF Used
  <2>4. /\ (head + L) % CounterMod \in 0 .. CounterMod - 1
        /\ (tail - ((head + L) % CounterMod)) % CounterMod = ((tail - head) % CounterMod) - L
    BY <1>5, <2>3, UsedAfterRead
  <2> QED BY <1>1, <1>3, <1>7, <2>2, <2>4 DEF Used
<1>9. IdleReader \in ReaderType /\ IdleReader.at = "idle"
  BY DEF IdleReader, ReaderType
<1>10. RingTypes'
  BY <1>1, <1>8, <1>9 DEF RingInv, RingTypes
<1>11. RingShape'
  BY <1>1, <1>6 DEF RingInv, RingShape
<1>12. CountersInStep'
  <2>1. v <= capacity
    BY <1>6, <1>7
  <2>2. ASSUME writer.at \in {"copying", "copied"}
        PROVE  v + SizeBytes + Len(writer.message) <= capacity
    <3>1. PICK w \in Messages : w = writer.message
      BY <2>2 DEF RingInv, RingTypes
    <3>2. u + SizeBytes + Len(w) <= capacity
      BY <1>3, <2>2, <3>1 DEF RingInv, CountersInStep
    <3>3. v + SizeBytes + Len(w) <= capacity
      BY <1>6, <1>7, <3>2, MessageLength, RingConstants
    <3> QED BY <3>1, <3>3
  <2> QED BY <1>1, <1>8, <2>1, <2>2 DEF CountersInStep
<1>13. WriterReady'
  BY <1>1 DEF RingInv, WriterReady, Holds
<1>14. ReaderReady'
  BY <1>1, <1>9 DEF ReaderReady
<1>15. UnreadIsWhole'
  <2>1. PICK B \in SUBSET (0 .. u) : u \in B /\ Boundaries(data, tail, B)
    BY <1>3 DEF RingInv, UnreadIsWhole
  <2>2. v \in B
    <3>1. PICK w \in Messages : /\ RecordLength(w) <= u /\ u - RecordLength(w) \in B
                                /\ Holds(data, tail - u, w)
      BY <1>3, <1>4, <2>1 DEF Boundaries
    <3>2. w = m
      BY <1>4, <3>1, HeldOnce
    <3> QED BY <1>3, <1>7, <3>1, <3>2
  <2>3. PICK D : D = {b \in B : b <= v}
    OBVIOUS
  <2>4. D \in SUBSET (0 .. v) /\ v \in D /\ 0 \in D /\ D \subseteq Nat
    <3>1. 0 \in B
      BY <2>1 DEF Boundaries
    <3>2. \A b \in D : b \in Nat /\ b <= v
      BY <1>7, <2>1, <2>3
    <3>3. D \subseteq 0 .. v /\ D \subseteq Nat
      BY <1>7, <3>2
    <3>4. v \in D /\ 0 \in D
      BY <1>7, <2>2, <2>3, <3>1
    <3> QED BY <3>3, <3>4
  <2>5. ASSUME NEW b \in D \ {0}
        PROVE  \E w \in Messages : /\ RecordLength(w) <= b
                                   /\ b - RecordLength(w) \in D
                                   /\ Holds(data, tail - b, w)
    <3>1. b \in B \ {0} /\ b <= v /\ b \in Nat
      BY <2>3, <2>4, <2>5
    <3>2. PICK w \in Messages : /\ RecordLength(w) <= b /\ b - RecordLength(w) \in B
                                /\ Holds(data, tail - b, w)
      BY <2>1, <3>1 DEF Boundaries
    <3>3. PICK k \in Nat : k = RecordLength(w)
      BY MessageLength
    <3>4. b - k \in D
      BY <1>7, <2>3, <3>1, <3>2, <3>3
    <3> QED BY <3>2, <3>3, <3>4
  <2>6. Boundaries(data, tail, D)
    BY <2>4, <2>5 DEF Boundaries
  <2>7. Boundaries(data, tail, D)'
    BY <1>1, <2>6 DEF Boundaries, Holds
  <2> QED BY <1>8, <2>4, <2>7 DEF UnreadIsWhole
<1> QED BY <1>10, <1>11, <1>12, <1>13, <1>14, <1>15 DEF RingInv

LEMMA RingInvStep == RingInv /\ [Next]_vars => RingInv'
<1> SUFFICES ASSUME RingInv, [Next]_vars PROVE RingInv'
  OBVIOUS
<1>1. ASSUME NEW n \in Capacities, Create(n) PROVE RingInv'
  BY <1>1, CreateKeeps
<1>2. CASE Destroy
  BY <1>2, DestroyKeeps
<1>3. ASSUME NEW m \in Messages, WriteStart(m) PROVE RingInv'
  BY <1>3, WriteStartKeeps
<1>4. CASE WriteCheck
  BY <1>4, WriteCheckKeeps
<1>5. CASE WriteCopy
  BY <1>5, WriteCopyKeeps
<1>6. CASE WriteEnd
  BY <1>6, WriteEndKeeps
<1>7. ASSUME NEW n \in Spaces, ReadStart(n) PROVE RingInv'
  BY <1>7, ReadStartKeeps
<1>8. CASE ReadCopy
  BY <1>8, ReadCopyKeeps
<1>9. CASE ReadEnd
  BY <1>9, ReadEndKeeps
<1>10. CASE UNCHANGED vars
  BY <1>10 DEF vars, RingInv, RingTypes, RingShape, CountersInStep, WriterReady, ReaderReady,
              UnreadIsWhole, Boundaries, Holds, Used
<1> QED BY <1>1, <1>2, <1>3, <1>4, <1>5, <1>6, <1>7, <1>8, <1>9, <1>10 DEF Next

\* At every moment the unread bytes are whole messages, up to the one that is
\* being written, and what the reader copied is the oldest of them.
THEOREM RingInvariant == Spec => []RingInv
<1>1. Init => RingInv
  BY RingInvInit
<1>2. RingInv /\ [Next]_vars => RingInv'
  BY RingInvStep
<1> QED BY <1>1, <1>2, PTL DEF Spec

\* The counters are never further apart than the buffer is long, however they
\* wrap, and what the writer is about to add has room (the test in
\* ds_ringbuffer_write still holds when its bytes are copied and announced).
THEOREM CountersStayInStep == Spec => []CountersInStep
<1>1. RingInv => CountersInStep
  BY DEF RingInv
<1> QED BY <1>1, RingInvariant, PTL

\* A read that has begun finds a size that some writer wrote, wrapped or not,
\* also while a writer without a mutex is copying.
THEOREM SizesAreFound == Spec => []SizeIsFound
<1>1. ASSUME RingInv PROVE SizeIsFound
  <2> SUFFICES ASSUME reader.at = "copying"
               PROVE  \E n \in Sizes : IsSize(SizeFieldAt(Offset(head)), n)
    BY DEF SizeIsFound
  <2>1. capacity > 0 /\ Used > 0
    BY <1>1 DEF RingInv, RingTypes, RingShape, ReaderReady
  <2>2. PICK m \in Messages : SizeFieldAt(Offset(head)) = SizeField(Len(m))
    BY <1>1, <2>1, OldestMessage
  <2>3. Len(m) \in Sizes
    BY MessageLength
  <2> QED BY <2>2, <2>3 DEF IsSize
<1> QED BY <1>1, RingInvariant, PTL

-----------------------------------------------------------------------------
(* The messages that the unread bytes are. *)

\* The body of Unread's recursion.
BehindStep(behind, n) ==
    LET at   == Offset(tail - n)
        sizes == {s \in Sizes : IsSize(SizeFieldAt(at), s) /\ SizeBytes + s <= n}
    IN IF n = 0 THEN <<>>
       ELSE IF sizes = {} THEN <<"torn">>
       ELSE LET s == CHOOSE s \in sizes : TRUE IN
            <<MessageAt(at, s)>> \o behind[n - SizeBytes - s]

LEMMA UnreadChoice ==
    Unread = (CHOOSE f : f = [n \in 0 .. capacity |-> BehindStep(f, n)])[Used]
BY DEF Unread, BehindStep

\* The body looks behind n only.
LEMMA BehindLooksBehind ==
    ASSUME NEW f, NEW g, NEW n \in Nat, \A k \in 0 .. n - 1 : f[k] = g[k]
    PROVE  BehindStep(f, n) = BehindStep(g, n)
<1> DEFINE at == Offset(tail - n)
           sizes == {s \in Sizes : IsSize(SizeFieldAt(at), s) /\ SizeBytes + s <= n}
           s == CHOOSE s \in sizes : TRUE
<1>1. CASE n = 0 \/ sizes = {}
  BY <1>1 DEF BehindStep
<1>2. CASE n # 0 /\ sizes # {}
  <2>1. s \in sizes
    BY <1>2
  <2>6. s \in Sizes /\ SizeBytes + s <= n
    BY <2>1
  <2>7. Sizes \subseteq Nat /\ SizeBytes \in Nat /\ SizeBytes > 0
    BY RingConstants
  <2> HIDE DEF s
  <2>2. s \in Nat /\ SizeBytes + s <= n /\ SizeBytes \in Nat /\ SizeBytes > 0
    BY <2>6, <2>7
  <2>3. n - SizeBytes - s \in 0 .. n - 1
    BY <2>2
  <2>4. f[n - SizeBytes - s] = g[n - SizeBytes - s]
    BY <2>3
  <2>5. /\ BehindStep(f, n) = <<MessageAt(at, s)>> \o f[n - SizeBytes - s]
        /\ BehindStep(g, n) = <<MessageAt(at, s)>> \o g[n - SizeBytes - s]
    BY <1>2 DEF BehindStep, s
  <2> QED BY <2>4, <2>5
<1> QED BY <1>1, <1>2

\* The recursion has a solution, at any length.
LEMMA BehindExists ==
    ASSUME NEW c \in Nat
    PROVE  \E f : f = [n \in 0 .. c |-> BehindStep(f, n)]
<1> DEFINE Solved(k) == \E f : f = [n \in 0 .. k |-> BehindStep(f, n)]
           Bad == {k \in Nat : ~Solved(k)}
<1> SUFFICES ASSUME Bad # {} PROVE FALSE
  OBVIOUS
<1>1. Bad \subseteq Nat
  OBVIOUS
<1> HIDE DEF Bad
<1>2. PICK k \in Bad : \A i \in Bad : k <= i
  BY <1>1, LeastNatural
<1>3. k \in Nat /\ ~Solved(k)
  BY DEF Bad
<1>4. CASE k = 0
  <2> DEFINE f == [n \in 0 .. 0 |-> <<>>]
  <2>1. \A n \in 0 .. 0 : BehindStep(f, n) = <<>>
    BY DEF BehindStep
  <2> HIDE DEF f
  <2>2. f = [n \in 0 .. 0 |-> BehindStep(f, n)]
    BY <2>1 DEF f
  <2> QED BY <1>3, <1>4, <2>2
<1>5. CASE k > 0
  <2>1. k - 1 \in Nat /\ ~(k <= k - 1)
    BY <1>3, <1>5
  <2>2. Solved(k - 1)
    BY <1>2, <2>1 DEF Bad
  <2>3. PICK f : f = [n \in 0 .. k - 1 |-> BehindStep(f, n)]
    BY <2>2
  <2>4. PICK last : last = BehindStep(f, k)
    OBVIOUS
  <2> DEFINE g == [n \in 0 .. k |-> IF n < k THEN f[n] ELSE last]
  <2>5. \A n \in 0 .. k - 1 : f[n] = g[n]
    BY <1>3
  <2>6. ASSUME NEW n \in 0 .. k PROVE g[n] = BehindStep(g, n)
    <3>1. \A i \in 0 .. n - 1 : f[i] = g[i]
      BY <1>3, <2>5
    <3>2. n \in Nat
      BY <1>3
    <3> HIDE DEF g
    <3>3. BehindStep(f, n) = BehindStep(g, n)
      BY <3>1, <3>2, BehindLooksBehind
    <3>4. CASE n < k
      <4>1. n \in 0 .. k - 1
        BY <1>3, <3>4
      <4>2. f[n] = BehindStep(f, n)
        BY <2>3, <4>1
      <4> QED BY <2>5, <3>3, <4>1, <4>2
    <3>5. CASE n = k
      <4>1. g[n] = last
        BY <1>3, <3>5 DEF g
      <4> QED BY <2>4, <3>3, <3>5, <4>1
    <3> QED BY <1>3, <3>4, <3>5
  <2>7. g = [n \in 0 .. k |-> g[n]]
    OBVIOUS
  <2> HIDE DEF g
  <2>8. g = [n \in 0 .. k |-> BehindStep(g, n)]
    BY <2>6, <2>7
  <2> QED BY <1>3, <2>8
<1> QED BY <1>3, <1>4, <1>5

\* Read backwards from the tail, each held message stands before what is
\* behind it.
ReadsBackwards(F) ==
    /\ F[0] = <<>>
    /\ \A b \in 1 .. capacity : \A m \in Messages :
         RecordLength(m) <= b /\ Holds(data, tail - b, m)
            => F[b] = <<m>> \o F[b - RecordLength(m)]

LEMMA UnreadReads ==
    RingTypes /\ RingShape /\ Used <= capacity => \E F : Unread = F[Used] /\ ReadsBackwards(F)
<1> SUFFICES ASSUME RingTypes, RingShape, Used <= capacity
             PROVE  \E F : Unread = F[Used] /\ ReadsBackwards(F)
  OBVIOUS
<1>1. capacity \in Nat /\ tail \in Int /\ Used \in Nat
  BY UsedType DEF RingTypes
<1>2. \E f : f = [n \in 0 .. capacity |-> BehindStep(f, n)]
  BY <1>1, BehindExists
<1>3. PICK F : F = CHOOSE f : f = [n \in 0 .. capacity |-> BehindStep(f, n)]
  OBVIOUS
<1>4. F = [n \in 0 .. capacity |-> BehindStep(F, n)]
  BY <1>2, <1>3
<1>5. Unread = F[Used]
  BY <1>3, UnreadChoice
<1>6. F[0] = <<>>
  <2>1. 0 \in 0 .. capacity
    BY <1>1
  <2>2. F[0] = BehindStep(F, 0)
    BY <1>4, <2>1
  <2> QED BY <2>2 DEF BehindStep
<1>7. ASSUME NEW b \in 1 .. capacity, NEW m \in Messages,
             RecordLength(m) <= b, Holds(data, tail - b, m)
      PROVE  F[b] = <<m>> \o F[b - RecordLength(m)]
  <2>1. PICK x \in Int : x = tail - b
    BY <1>1
  <2>2. capacity \in Nat \ {0} /\ b \in Nat /\ b # 0 /\ b \in 0 .. capacity
    BY <1>1
  <2>3. PICK at \in 0 .. capacity - 1 : at = x % capacity /\ at = Offset(tail - b)
    BY <2>1, <2>2, RemainderOf DEF Offset
  <2>4. PICK n \in Nat, L \in Nat : n = Len(m) /\ L = RecordLength(m) /\ L = SizeBytes + n /\ n \in Sizes
    BY MessageLength
  <2>5. SizeFieldAt(at) = SizeField(n) /\ MessageAt(at, n) = m
    <3>1. Holds(data, x, m) /\ RecordLength(m) <= capacity
      BY <1>1, <1>7, <2>1, <2>4
    <3> QED BY <2>2, <2>3, <2>4, <3>1, HeldSize, HeldMessage
  <2> DEFINE sizes == {s \in Sizes : IsSize(SizeFieldAt(at), s) /\ SizeBytes + s <= b}
  <2>6. sizes = {n}
    <3>1. SizeBytes + n <= b
      BY <1>7, <2>4
    <3>2. \A s \in Sizes : IsSize(SizeFieldAt(at), s) <=> s = n
      BY <2>5, SizeIsOne DEF IsSize
    <3> QED BY <2>4, <3>1, <3>2
  <2>7. (CHOOSE s \in sizes : TRUE) = n
    BY <2>6
  <2>8. BehindStep(F, b) = <<MessageAt(at, n)>> \o F[b - SizeBytes - n]
    BY <2>2, <2>3, <2>6, <2>7 DEF BehindStep
  <2>9. b - SizeBytes - n = b - L
    BY <2>2, <2>4, RingConstants
  <2>10. F[b] = BehindStep(F, b)
    BY <1>4, <2>2
  <2> QED BY <2>4, <2>5, <2>8, <2>9, <2>10
<1> QED BY <1>5, <1>6, <1>7 DEF ReadsBackwards

LEMMA UnreadReadsNext ==
    RingTypes' /\ RingShape' /\ (Used <= capacity)'
        => (\E F : Unread = F[Used] /\ ReadsBackwards(F))'
BY UnreadReads, PTL

-----------------------------------------------------------------------------
(* The ring is a queue of messages. *)

LEMMA PutInFront ==
    ASSUME NEW S, NEW s \in Seq(S), NEW w \in S, NEW m \in S
    PROVE  /\ <<w>> \o s \in Seq(S) /\ <<w>> \o s # <<>>
           /\ Head(<<w>> \o s) = w /\ Tail(<<w>> \o s) = s
           /\ <<w>> \o Append(s, m) = Append(<<w>> \o s, m)
<1>1. <<w>> \in Seq(S) /\ Len(<<w>>) = 1 /\ <<w>>[1] = w
  OBVIOUS
<1>2. PICK one \in Seq(S) : one = <<w>> /\ Len(one) = 1 /\ one[1] = w
  BY <1>1
<1>3. PICK t : t = one \o s
  OBVIOUS
<1>4. /\ t \in Seq(S) /\ Len(t) = 1 + Len(s)
      /\ \A k \in 1 .. 1 + Len(s) : t[k] = IF k <= 1 THEN one[k] ELSE s[k - 1]
  BY <1>2, <1>3, ConcatProperties
<1>5. t # <<>> /\ Head(t) = w
  <2>1. 1 \in 1 .. 1 + Len(s) /\ Len(t) > 0
    BY <1>4
  <2>2. t[1] = w
    BY <1>2, <1>4, <2>1
  <2> QED BY <1>4, <2>1, <2>2
<1>6. Tail(t) = s
  <2>1. PICK v \in Seq(S) : v = Tail(t) /\ Len(v) = Len(s) /\ \A k \in 1 .. Len(s) : v[k] = t[k + 1]
    <3>1. /\ Tail(t) \in Seq(S) /\ Len(Tail(t)) = Len(t) - 1
          /\ \A k \in 1 .. Len(Tail(t)) : Tail(t)[k] = t[k + 1]
      BY <1>4, <1>5, HeadTailProperties
    <3>2. Len(t) - 1 = Len(s)
      BY <1>4
    <3> QED BY <3>1, <3>2
  <2>2. ASSUME NEW k \in 1 .. Len(s) PROVE v[k] = s[k]
    <3>1. k + 1 \in 1 .. 1 + Len(s) /\ ~(k + 1 <= 1) /\ (k + 1) - 1 = k
      OBVIOUS
    <3>2. t[k + 1] = s[k]
      BY <1>4, <3>1
    <3> QED BY <2>1, <3>2
  <2> QED BY <2>1, <2>2, SeqEqual
<1>7. one \o Append(s, m) = Append(t, m)
  <2>1. PICK l \in Seq(S) : l = <<m>>
    <3>1. <<m>> \in Seq(S)
      OBVIOUS
    <3> QED BY <3>1
  <2>2. Append(s, m) = s \o l /\ Append(t, m) = t \o l
    BY <1>4, <2>1, AppendIsConcat
  <2>3. (one \o s) \o l = one \o (s \o l)
    BY ConcatAssociative
  <2> QED BY <1>3, <2>2, <2>3
<1> QED BY <1>2, <1>3, <1>4, <1>5, <1>6, <1>7

\* F reads the u unread bytes, whose boundaries are B.
UnreadAs(B, u, F) ==
    /\ capacity \in Nat /\ u \in Nat /\ u <= capacity /\ B \subseteq 0 .. u
    /\ Boundaries(data, tail, B)
    /\ ReadsBackwards(F)

\* At boundary b the message w starts, of k bytes.
StartsAt(B, F, b, w, k) ==
    /\ k = RecordLength(w) /\ k > 0 /\ k <= b /\ b - k \in B
    /\ Holds(data, tail - b, w) /\ F[b] = <<w>> \o F[b - k]

\* What a record takes of a boundary.
LEMMA BoundaryBefore ==
    ASSUME NEW B, NEW u, NEW F, UnreadAs(B, u, F),
           NEW b \in B, b # 0
    PROVE  \E w \in Messages, k \in Nat : StartsAt(B, F, b, w, k)
<1>1. PICK w \in Messages : RecordLength(w) <= b /\ b - RecordLength(w) \in B /\ Holds(data, tail - b, w)
  BY DEF UnreadAs, Boundaries
<1>2. PICK k \in Nat : k = RecordLength(w) /\ k > 0
  BY MessageLength
<1>3. b \in 1 .. capacity
  BY DEF UnreadAs
<1>4. F[b] = <<w>> \o F[b - RecordLength(w)]
  BY <1>1, <1>3 DEF UnreadAs, ReadsBackwards
<1> QED BY <1>1, <1>2, <1>4 DEF StartsAt

\* At every boundary the bytes read as messages.
LEMMA ReadsMessages ==
    ASSUME NEW B, NEW u, NEW F, UnreadAs(B, u, F)
    PROVE  \A b \in B : F[b] \in Seq(Messages)
<1> DEFINE Bad == {b \in B : F[b] \notin Seq(Messages)}
<1> SUFFICES ASSUME Bad # {} PROVE FALSE
  OBVIOUS
<1>1. Bad \subseteq Nat
  <2>1. B \subseteq Nat
    BY DEF UnreadAs
  <2> QED BY <2>1
<1> HIDE DEF Bad
<1>2. PICK b \in Bad : \A i \in Bad : b <= i
  BY <1>1, LeastNatural
<1>3. b \in B /\ b \in Nat /\ F[b] \notin Seq(Messages)
  BY <1>1, <1>2 DEF Bad, UnreadAs
<1>4. b # 0
  <2>1. F[0] = <<>>
    BY DEF UnreadAs, ReadsBackwards
  <2>2. <<>> \in Seq(Messages)
    OBVIOUS
  <2> QED BY <1>3, <2>1, <2>2
<1>5. PICK w \in Messages, k \in Nat : k > 0 /\ k <= b /\ b - k \in B /\ F[b] = <<w>> \o F[b - k]
  <2>1. b \in B /\ b # 0
    BY <1>3, <1>4
  <2>2. \E w \in Messages, k \in Nat : StartsAt(B, F, b, w, k)
    BY <2>1, BoundaryBefore
  <2> QED BY <2>2 DEF StartsAt
<1>6. F[b - k] \in Seq(Messages)
  <2>1. ~(b <= b - k)
    BY <1>3, <1>5
  <2>2. b - k \notin Bad
    BY <1>2, <2>1
  <2> QED BY <1>5, <2>2 DEF Bad
<1>7. <<w>> \o F[b - k] \in Seq(Messages)
  BY <1>6, PutInFront
<1> QED BY <1>3, <1>5, <1>7

\* What stays when bytes are written in the free part.
LEMMA SameWhenHeld ==
    ASSUME NEW B, NEW u, NEW F, UnreadAs(B, u, F), NEW G, G[0] = <<>>,
           \A b \in 1 .. u : \A w \in Messages :
              RecordLength(w) <= b /\ Holds(data, tail - b, w) => G[b] = <<w>> \o G[b - RecordLength(w)]
    PROVE  \A b \in B : G[b] = F[b]
<1> DEFINE Bad == {b \in B : G[b] # F[b]}
<1> SUFFICES ASSUME Bad # {} PROVE FALSE
  OBVIOUS
<1>1. Bad \subseteq Nat
  <2>1. B \subseteq Nat
    BY DEF UnreadAs
  <2> QED BY <2>1
<1> HIDE DEF Bad
<1>2. PICK b \in Bad : \A i \in Bad : b <= i
  BY <1>1, LeastNatural
<1>3. b \in B /\ b \in Nat /\ b <= u /\ G[b] # F[b]
  BY <1>1, <1>2 DEF Bad, UnreadAs
<1>4. b # 0
  BY <1>3 DEF UnreadAs, ReadsBackwards
<1>5. PICK w \in Messages, k \in Nat :
         /\ k = RecordLength(w) /\ k > 0 /\ k <= b /\ b - k \in B
         /\ Holds(data, tail - b, w) /\ F[b] = <<w>> \o F[b - k]
  <2>1. b \in B /\ b # 0
    BY <1>3, <1>4
  <2>2. \E w \in Messages, k \in Nat : StartsAt(B, F, b, w, k)
    BY <2>1, BoundaryBefore
  <2> QED BY <2>2 DEF StartsAt
<1>6. G[b - k] = F[b - k]
  <2>1. ~(b <= b - k)
    BY <1>3, <1>5
  <2>2. b - k \notin Bad
    BY <1>2, <2>1
  <2> QED BY <1>5, <2>2 DEF Bad
<1>7. b \in 1 .. u
  BY <1>3, <1>4 DEF UnreadAs
<1>8. G[b] = <<w>> \o G[b - k]
  BY <1>5, <1>7
<1> QED BY <1>3, <1>5, <1>6, <1>8

OneMore(G, u, L, m) ==
    /\ G[L] = <<m>>
    /\ \A b \in 1 .. u : \A w \in Messages :
         RecordLength(w) <= b /\ Holds(data, tail - b, w)
            => G[b + L] = <<w>> \o G[(b - RecordLength(w)) + L]

\* What is appended when the tail moves behind a message.
LEMMA OneMoreWhenHeld ==
    ASSUME NEW B, NEW u, NEW F, UnreadAs(B, u, F), NEW G, NEW m \in Messages, NEW L \in Nat,
           OneMore(G, u, L, m)
    PROVE  \A b \in B : G[b + L] = Append(F[b], m)
<1> DEFINE Bad == {b \in B : G[b + L] # Append(F[b], m)}
<1> SUFFICES ASSUME Bad # {} PROVE FALSE
  OBVIOUS
<1>1. Bad \subseteq Nat
  <2>1. B \subseteq Nat
    BY DEF UnreadAs
  <2> QED BY <2>1
<1> HIDE DEF Bad
<1>2. PICK b \in Bad : \A i \in Bad : b <= i
  BY <1>1, LeastNatural
<1>3. b \in B /\ b \in Nat /\ b <= u /\ G[b + L] # Append(F[b], m)
  BY <1>1, <1>2 DEF Bad, UnreadAs
<1>4. b # 0
  <2>1. F[0] = <<>>
    BY DEF UnreadAs, ReadsBackwards
  <2>2. Append(<<>>, m) = <<m>> /\ 0 + L = L
    OBVIOUS
  <2>3. G[L] = <<m>>
    BY DEF OneMore
  <2> QED BY <1>3, <2>1, <2>2, <2>3
<1>5. PICK w \in Messages, k \in Nat :
         /\ k = RecordLength(w) /\ k > 0 /\ k <= b /\ b - k \in B
         /\ Holds(data, tail - b, w) /\ F[b] = <<w>> \o F[b - k]
  <2>1. b \in B /\ b # 0
    BY <1>3, <1>4
  <2>2. \E w \in Messages, k \in Nat : StartsAt(B, F, b, w, k)
    BY <2>1, BoundaryBefore
  <2> QED BY <2>2 DEF StartsAt
<1>6. G[(b - k) + L] = Append(F[b - k], m)
  <2>1. ~(b <= b - k)
    BY <1>3, <1>5
  <2>2. b - k \notin Bad
    BY <1>2, <2>1
  <2> QED BY <1>5, <2>2 DEF Bad
<1>7. b \in 1 .. u
  BY <1>3, <1>4 DEF UnreadAs
<1>8. G[b + L] = <<w>> \o G[(b - k) + L]
  BY <1>5, <1>7 DEF OneMore
<1>9. F[b - k] \in Seq(Messages)
  BY <1>5, ReadsMessages
<1>10. <<w>> \o Append(F[b - k], m) = Append(<<w>> \o F[b - k], m)
  BY <1>9, PutInFront
<1> QED BY <1>3, <1>5, <1>6, <1>8, <1>10

LEMMA UnreadIsRead ==
    ASSUME RingInv
    PROVE  \E B, F : /\ UnreadAs(B, Used, F) /\ Used \in B /\ Used \in Nat
                     /\ Unread = F[Used] /\ Unread \in Seq(Messages)
<1>1. RingTypes /\ RingShape /\ Used <= capacity /\ Used \in Nat /\ capacity \in Nat
  BY UsedType DEF RingInv, CountersInStep, RingTypes
<1>2. PICK F : Unread = F[Used] /\ ReadsBackwards(F)
  BY <1>1, UnreadReads
<1>3. PICK B \in SUBSET (0 .. Used) : Used \in B /\ Boundaries(data, tail, B)
  BY DEF RingInv, UnreadIsWhole
<1>4. UnreadAs(B, Used, F)
  BY <1>1, <1>2, <1>3 DEF UnreadAs
<1>5. F[Used] \in Seq(Messages)
  <2>1. \A b \in B : F[b] \in Seq(Messages)
    BY <1>4, ReadsMessages
  <2> QED BY <1>3, <2>1
<1> QED BY <1>1, <1>2, <1>3, <1>4, <1>5

LEMMA UnreadIsReadNext ==
    ASSUME RingInv'
    PROVE  \E G : Unread' = G[Used'] /\ ReadsBackwards(G)'
<1>1. RingTypes' /\ RingShape' /\ (Used <= capacity)'
  BY DEF RingInv, CountersInStep
<1>2. (\E F : Unread = F[Used] /\ ReadsBackwards(F))'
  BY <1>1, UnreadReadsNext
<1> QED BY <1>2

LEMMA NothingIsRead ==
    ASSUME RingInv, Used = 0
    PROVE  Unread = <<>>
<1>1. PICK B, F : UnreadAs(B, Used, F) /\ Unread = F[Used]
  BY UnreadIsRead
<1> QED BY <1>1 DEF UnreadAs, ReadsBackwards

LEMMA NothingIsReadNext ==
    ASSUME RingInv', Used' = 0
    PROVE  Unread' = <<>>
<1>1. PICK G : Unread' = G[Used'] /\ ReadsBackwards(G)'
  BY UnreadIsReadNext
<1> QED BY <1>1 DEF ReadsBackwards

\* The first of the unread messages.
LEMMA OldestIsFirst ==
    ASSUME RingInv, capacity > 0, Used > 0, NEW m \in Messages, RecordLength(m) <= Used,
           Holds(data, tail - Used, m), NEW B, NEW F, UnreadAs(B, Used, F), Used \in B
    PROVE  F[Used] = <<m>> \o F[Used - RecordLength(m)] /\ Used - RecordLength(m) \in B
<1>1. PICK u \in Nat : u = Used /\ u # 0
  BY UsedType DEF RingInv
<1>2. UnreadAs(B, u, F) /\ u \in B
  BY <1>1
<1>3. PICK w \in Messages, k \in Nat : StartsAt(B, F, u, w, k)
  BY <1>1, <1>2, BoundaryBefore
<1>4. Holds(data, tail - u, w) /\ Holds(data, tail - u, m)
  BY <1>1, <1>3 DEF StartsAt
<1>5. w = m
  BY <1>4, HeldOnce
<1> QED BY <1>1, <1>3, <1>5 DEF StartsAt

LEMMA SomethingIsRead ==
    ASSUME RingInv, capacity > 0, Used > 0
    PROVE  Unread # <<>>
<1>1. PICK m \in Messages : RecordLength(m) <= Used /\ Holds(data, tail - Used, m)
  BY OldestMessage
<1>2. PICK B, F : UnreadAs(B, Used, F) /\ Used \in B /\ Unread = F[Used]
  BY UnreadIsRead
<1>3. F[Used] = <<m>> \o F[Used - RecordLength(m)] /\ Used - RecordLength(m) \in B
  BY <1>1, <1>2, OldestIsFirst
<1>4. F[Used - RecordLength(m)] \in Seq(Messages)
  BY <1>2, <1>3, ReadsMessages
<1> QED BY <1>2, <1>3, <1>4, PutInFront

\* Nothing changes for the reader when the unread messages stay in their places.
LEMMA UnreadKept ==
    ASSUME RingInv, RingInv', capacity' = capacity, tail' = tail, Used' = Used,
           \A b \in 1 .. Used : \A w \in Messages :
              RecordLength(w) <= b /\ Holds(data, tail - b, w) => Holds(data, tail - b, w)'
    PROVE  Unread' = Unread
<1>1. PICK B, F : UnreadAs(B, Used, F) /\ Used \in B /\ Unread = F[Used] /\ Used \in Nat
  BY UnreadIsRead
<1>2. PICK G : Unread' = G[Used'] /\ ReadsBackwards(G)'
  BY UnreadIsReadNext
<1>3. PICK u \in Nat : u = Used
  BY <1>1
<1>4. G[0] = <<>>
  BY <1>2 DEF ReadsBackwards
<1>5. ASSUME NEW b \in 1 .. u, NEW w \in Messages, RecordLength(w) <= b, Holds(data, tail - b, w)
      PROVE  G[b] = <<w>> \o G[b - RecordLength(w)]
  <2>1. b \in 1 .. capacity /\ b \in 1 .. Used
    BY <1>1, <1>3 DEF UnreadAs
  <2>2. Holds(data, tail - b, w)'
    BY <1>5, <2>1
  <2> QED BY <1>2, <1>5, <2>1, <2>2 DEF ReadsBackwards
<1>6. UnreadAs(B, u, F)
  BY <1>1, <1>3
<1>7. \A b \in B : G[b] = F[b]
  BY <1>4, <1>5, <1>6, SameWhenHeld
<1> QED BY <1>1, <1>2, <1>7

LEMMA UnreadOfSameBuffer ==
    ASSUME RingInv, RingInv', UNCHANGED ring
    PROVE  Unread' = Unread
<1>1. data' = data /\ capacity' = capacity /\ tail' = tail /\ Used' = Used
  BY DEF ring, Used
<1>2. \A b \in 1 .. Used : \A w \in Messages :
         RecordLength(w) <= b /\ Holds(data, tail - b, w) => Holds(data, tail - b, w)'
  BY <1>1 DEF Holds
<1> QED BY <1>1, <1>2, UnreadKept

\* The bytes of a message that is not announced yet are not read.
LEMMA UnreadWhileCopying ==
    ASSUME RingInv, RingInv', WriteCopy
    PROVE  Unread' = Unread
<1>1. /\ writer.at = "copying" /\ data' = WithMessage(writer.message)
      /\ capacity' = capacity /\ head' = head /\ tail' = tail /\ Used' = Used
  BY DEF WriteCopy, Used
<1>2. PICK m \in Messages : m = writer.message
  BY <1>1 DEF RingInv, RingTypes
<1>3. capacity \in Nat \ {0} /\ tail \in Int /\ DOMAIN data = 0 .. capacity - 1
  <2>1. capacity # 0
    BY <1>1 DEF RingInv, RingShape
  <2> QED BY <2>1 DEF RingInv, RingTypes, RingShape
<1>4. PICK u \in Nat : u = Used
  BY UsedType DEF RingInv
<1>5. u + RecordLength(m) <= capacity
  <2>1. u + SizeBytes + Len(m) <= capacity
    BY <1>1, <1>2, <1>4 DEF RingInv, CountersInStep
  <2> QED BY <1>3, <2>1, MessageLength, RingConstants
<1>6. ASSUME NEW b \in 1 .. u, NEW w \in Messages, RecordLength(w) <= b, Holds(data, tail - b, w)
      PROVE  Holds(data, tail - b, w)'
  <2>1. Holds(WithMessage(m), tail - b, w)
    BY <1>3, <1>5, <1>6, BoundariesKept
  <2> QED BY <1>1, <1>2, <2>1 DEF Holds
<1> QED BY <1>1, <1>4, <1>6, UnreadKept

LEMMA UnreadAfterWrite ==
    ASSUME RingInv, RingInv', WriteEnd
    PROVE  writer.message \in Messages /\ Unread' = Append(Unread, writer.message)
<1>1. /\ writer.at = "copied" /\ data' = data /\ capacity' = capacity /\ head' = head
      /\ tail' = (tail + Len(writer.message) + SizeBytes) % CounterMod
  BY DEF WriteEnd
<1>2. PICK m \in Messages : m = writer.message
  BY <1>1 DEF RingInv, RingTypes
<1>3. PICK B, F : UnreadAs(B, Used, F) /\ Used \in B /\ Unread = F[Used] /\ Used \in Nat
  BY UnreadIsRead
<1>4. PICK u \in Nat, L \in Nat : u = Used /\ L = RecordLength(m) /\ L > 0
  BY UsedType, MessageLength DEF RingInv
<1>5. /\ capacity \in Nat \ {0} /\ u + L <= capacity /\ u + L < CounterMod
      /\ tail' = (tail + L) % CounterMod
  BY <1>1, <1>2, <1>4, WriterHasRoom
<1>6. RingTypes /\ RingShape /\ head \in 0 .. CounterMod - 1 /\ tail \in 0 .. CounterMod - 1
  BY DEF RingInv, RingTypes
<1>7. Used' = u + L
  <2>1. ((tail - head) % CounterMod) + L < CounterMod
    BY <1>4, <1>5 DEF Used
  <2>2. (((tail + L) % CounterMod) - head) % CounterMod = ((tail - head) % CounterMod) + L
    BY <1>6, <2>1, UsedAfterWrite
  <2> QED BY <1>1, <1>4, <1>5, <2>2 DEF Used
<1>8. PICK G : Unread' = G[Used'] /\ ReadsBackwards(G)'
  BY UnreadIsReadNext
<1>9. ASSUME NEW b \in Nat, b + L <= capacity, NEW w \in Messages, RecordLength(w) <= b + L,
             Holds(data, tail - b, w)
      PROVE  G[b + L] = <<w>> \o G[(b + L) - RecordLength(w)]
  <2>1. PICK e \in 1 .. capacity : e = b + L
    BY <1>4, <1>5, <1>9
  <2>2. Holds(data, tail' - (b + L), w)
    <3>1. Holds(data, ((tail + L) % CounterMod) - (b + L), w)
      BY <1>5, <1>6, <1>9, HeldBehindNewTail
    <3> QED BY <1>5, <3>1
  <2>3. Holds(data, tail - e, w)'
    BY <1>1, <2>1, <2>2 DEF Holds
  <2>4. e \in 1 .. capacity'
    BY <1>1
  <2>5. RecordLength(w) <= e
    BY <1>9, <2>1
  <2>6. G[e] = <<w>> \o G[e - RecordLength(w)]
    BY <1>8, <2>3, <2>4, <2>5 DEF ReadsBackwards
  <2> QED BY <2>1, <2>6
<1>10. G[L] = <<m>>
  <2>1. Holds(data, tail, m) /\ tail - 0 = tail
    BY <1>1, <1>2, <1>6 DEF RingInv, WriterReady
  <2>2. 0 + L <= capacity /\ RecordLength(m) <= 0 + L /\ 0 \in Nat
    BY <1>4, <1>5
  <2>3. G[0 + L] = <<m>> \o G[(0 + L) - RecordLength(m)]
    BY <1>9, <2>1, <2>2
  <2>4. 0 + L = L /\ (0 + L) - RecordLength(m) = 0
    BY <1>4
  <2>5. G[0] = <<>>
    BY <1>8 DEF ReadsBackwards
  <2>6. <<m>> \o <<>> = <<m>>
    OBVIOUS
  <2> QED BY <2>3, <2>4, <2>5, <2>6
<1>11. ASSUME NEW b \in 1 .. u, NEW w \in Messages, RecordLength(w) <= b, Holds(data, tail - b, w)
       PROVE  G[b + L] = <<w>> \o G[(b - RecordLength(w)) + L]
  <2>1. PICK k \in Nat : k = RecordLength(w)
    BY MessageLength
  <2>2. b \in Nat /\ b + L <= capacity /\ k <= b + L /\ (b + L) - k = (b - k) + L
    BY <1>4, <1>5, <1>11, <2>1
  <2>3. G[b + L] = <<w>> \o G[(b + L) - RecordLength(w)]
    BY <1>9, <1>11, <2>1, <2>2
  <2> QED BY <2>1, <2>2, <2>3
<1>12. UnreadAs(B, u, F) /\ u \in B
  BY <1>3, <1>4
<1>14. OneMore(G, u, L, m)
  BY <1>10, <1>11 DEF OneMore
<1>13. \A b \in B : G[b + L] = Append(F[b], m)
  BY <1>12, <1>14, OneMoreWhenHeld
<1> QED BY <1>2, <1>3, <1>4, <1>7, <1>8, <1>12, <1>13

LEMMA UnreadAfterRead ==
    ASSUME RingInv, RingInv', ReadEnd
    PROVE  /\ Unread # <<>> /\ Head(Unread) = reader.message
           /\ Unread' = Tail(Unread)
<1>1. /\ reader.at = "copied" /\ data' = data /\ capacity' = capacity /\ tail' = tail
      /\ head' = (head + Len(reader.message) + SizeBytes) % CounterMod
  BY DEF ReadEnd
<1>2. PICK m \in Messages : m = reader.message
  BY <1>1 DEF RingInv, RingTypes
<1>3. PICK B, F : UnreadAs(B, Used, F) /\ Used \in B /\ Unread = F[Used] /\ Used \in Nat
  BY UnreadIsRead
<1>4. PICK u \in Nat, L \in Nat : /\ u = Used /\ L = RecordLength(m) /\ L > 0
                                  /\ L = SizeBytes + Len(m)
  BY UsedType, MessageLength DEF RingInv
<1>5. L <= u /\ Holds(data, tail - u, m)
  BY <1>1, <1>2, <1>4 DEF RingInv, ReaderReady
<1>6. capacity > 0
  BY <1>3, <1>4, <1>5 DEF UnreadAs
<1>7. /\ F[Used] = <<m>> \o F[Used - RecordLength(m)] /\ Used - RecordLength(m) \in B
  <2>1. Used > 0 /\ RecordLength(m) <= Used /\ Holds(data, tail - Used, m)
    BY <1>4, <1>5
  <2> QED BY <1>3, <1>6, <2>1, OldestIsFirst
<1>8. PICK v \in B : v = u - L /\ F[u] = <<m>> \o F[v]
  BY <1>4, <1>7
<1>9. Used' = v
  <2>1. head \in 0 .. CounterMod - 1 /\ tail \in 0 .. CounterMod - 1
    BY DEF RingInv, RingTypes
  <2>2. head + Len(m) + SizeBytes = head + L
    BY <1>4, <2>1, MessageLength, RingConstants
  <2>3. L <= (tail - head) % CounterMod
    BY <1>4, <1>5 DEF Used
  <2>4. (tail - ((head + L) % CounterMod)) % CounterMod = ((tail - head) % CounterMod) - L
    BY <2>1, <2>3, UsedAfterRead
  <2> QED BY <1>1, <1>2, <1>4, <1>8, <2>2, <2>4 DEF Used
<1>10. PICK G : Unread' = G[Used'] /\ ReadsBackwards(G)'
  BY UnreadIsReadNext
<1>11. G[0] = <<>>
  BY <1>10 DEF ReadsBackwards
<1>12. ASSUME NEW b \in 1 .. u, NEW w \in Messages, RecordLength(w) <= b, Holds(data, tail - b, w)
       PROVE  G[b] = <<w>> \o G[b - RecordLength(w)]
  <2>1. b \in 1 .. capacity'
    BY <1>1, <1>3, <1>4 DEF UnreadAs
  <2>2. Holds(data, tail - b, w)'
    BY <1>1, <1>12 DEF Holds
  <2> QED BY <1>10, <1>12, <2>1, <2>2 DEF ReadsBackwards
<1>13. UnreadAs(B, u, F)
  BY <1>3, <1>4
<1>14. \A b \in B : G[b] = F[b]
  BY <1>11, <1>12, <1>13, SameWhenHeld
<1>15. Unread' = F[v]
  BY <1>9, <1>10, <1>14
<1>16. F[v] \in Seq(Messages)
  BY <1>13, ReadsMessages
<1>17. <<m>> \o F[v] # <<>> /\ Head(<<m>> \o F[v]) = m /\ Tail(<<m>> \o F[v]) = F[v]
  BY <1>16, PutInFront
<1> QED BY <1>2, <1>3, <1>4, <1>8, <1>15, <1>17

-----------------------------------------------------------------------------

\* A step of the ring is a step of the queue, or none.
QueueStep == [Abstract!QueueNext]_(Abstract!queueVars)

LEMMA EmptyRefines ==
    ASSUME RingInv, RingInv', (\E n \in Capacities : Create(n)) \/ Destroy
    PROVE  QueueStep
<1>1. head' = 0 /\ tail' = 0 /\ UNCHANGED <<wrote, got>>
  BY DEF Create, Destroy
<1>2. Used' = 0
  BY <1>1, RingConstants, UsedIs DEF Used
<1>3. Unread' = <<>>
  BY <1>2, NothingIsReadNext
<1> QED BY <1>1, <1>3 DEF QueueStep, Abstract!QueueNext, Abstract!Discard

LEMMA WriteCheckRefines ==
    ASSUME RingInv, RingInv', WriteCheck
    PROVE  QueueStep
<1>1. UNCHANGED ring /\ got' = got /\ (UNCHANGED wrote \/ wrote' = "NO_RSRC")
  BY DEF WriteCheck
<1>2. Unread' = Unread
  BY <1>1, UnreadOfSameBuffer
<1> QED BY <1>1, <1>2 DEF QueueStep, Abstract!QueueNext, Abstract!RefuseMessage, Abstract!queueVars

LEMMA WriteEndRefines ==
    ASSUME RingInv, RingInv', WriteEnd
    PROVE  QueueStep
<1>1. wrote' = "SUCCESS" /\ got' = got
  BY DEF WriteEnd
<1>2. writer.message \in Messages /\ Unread' = Append(Unread, writer.message)
  BY UnreadAfterWrite
<1> QED BY <1>1, <1>2 DEF QueueStep, Abstract!QueueNext, Abstract!Accept

LEMMA ReadStartRefines ==
    ASSUME RingInv, RingInv', NEW n \in Spaces, ReadStart(n)
    PROVE  QueueStep
<1>1. /\ UNCHANGED ring /\ wrote' = wrote
      /\ UNCHANGED got \/ (head = tail /\ got' = <<"NO_RSRC", <<>>>>)
  BY DEF ReadStart
<1>2. Unread' = Unread
  BY <1>1, UnreadOfSameBuffer
<1>3. head = tail => Unread = <<>>
  <2>1. head = tail => Used = 0
    BY UsedIs DEF RingInv, RingTypes, Used
  <2> QED BY <2>1, NothingIsRead
<1> QED BY <1>1, <1>2, <1>3 DEF QueueStep, Abstract!QueueNext, Abstract!NothingThere, Abstract!queueVars

LEMMA ReadCopyRefines ==
    ASSUME RingInv, RingInv', ReadCopy
    PROVE  QueueStep
<1>1. /\ reader.at = "copying" /\ UNCHANGED ring /\ wrote' = wrote
      /\ UNCHANGED got \/ got' = <<"PARAM", <<>>>>
  BY DEF ReadCopy
<1>2. Unread' = Unread
  BY <1>1, UnreadOfSameBuffer
<1>3. Unread # <<>>
  <2>1. Used > 0
    BY <1>1 DEF RingInv, ReaderReady
  <2>2. capacity > 0
    BY <1>1 DEF RingInv, RingShape, RingTypes
  <2> QED BY <2>1, <2>2, SomethingIsRead
<1> QED BY <1>1, <1>2, <1>3 DEF QueueStep, Abstract!QueueNext, Abstract!TooSmall, Abstract!queueVars

LEMMA ReadEndRefines ==
    ASSUME RingInv, RingInv', ReadEnd
    PROVE  QueueStep
<1>1. got' = <<"SUCCESS", reader.message>> /\ wrote' = wrote
  BY DEF ReadEnd
<1>2. Unread # <<>> /\ Head(Unread) = reader.message /\ Unread' = Tail(Unread)
  BY UnreadAfterRead
<1> QED BY <1>1, <1>2 DEF QueueStep, Abstract!QueueNext, Abstract!Deliver

LEMMA QuietStepRefines ==
    ASSUME Unread' = Unread, UNCHANGED <<wrote, got>>
    PROVE  QueueStep
BY DEF QueueStep, Abstract!queueVars

LEMMA RingRefines ==
    ASSUME RingInv, RingInv', [Next]_vars
    PROVE  QueueStep
<1>1. CASE (\E n \in Capacities : Create(n)) \/ Destroy
  BY <1>1, EmptyRefines
<1>2. CASE \E m \in Messages : WriteStart(m)
  <2>1. UNCHANGED ring /\ UNCHANGED <<wrote, got>>
    BY <1>2 DEF WriteStart
  <2> QED BY <2>1, UnreadOfSameBuffer, QuietStepRefines
<1>3. CASE WriteCheck
  BY <1>3, WriteCheckRefines
<1>4. CASE WriteCopy
  <2>1. Unread' = Unread
    BY <1>4, UnreadWhileCopying
  <2>2. UNCHANGED <<wrote, got>>
    BY <1>4 DEF WriteCopy
  <2> QED BY <2>1, <2>2, QuietStepRefines
<1>5. CASE WriteEnd
  BY <1>5, WriteEndRefines
<1>6. CASE \E n \in Spaces : ReadStart(n)
  BY <1>6, ReadStartRefines
<1>7. CASE ReadCopy
  BY <1>7, ReadCopyRefines
<1>8. CASE ReadEnd
  BY <1>8, ReadEndRefines
<1>9. CASE UNCHANGED vars
  <2>1. UNCHANGED ring /\ UNCHANGED <<wrote, got>>
    BY <1>9 DEF vars, ring
  <2> QED BY <2>1, UnreadOfSameBuffer, QuietStepRefines
<1> QED BY <1>1, <1>2, <1>3, <1>4, <1>5, <1>6, <1>7, <1>8, <1>9 DEF Next

LEMMA RingStartsEmpty == Init => Abstract!QueueInit
<1> SUFFICES ASSUME Init PROVE Abstract!QueueInit
  OBVIOUS
<1>1. Unread = <<>>
  <2>1. Used = 0
    BY RingConstants, UsedIs DEF Init, Used
  <2> QED BY <2>1, RingInvInit, NothingIsRead
<1> QED BY <1>1 DEF Init, Abstract!QueueInit

\* The ring is a queue: every message that ds_ringbuffer_write accepted is
\* given out by ds_ringbuffer_read whole, once and in its turn, for any
\* messages, capacities and counter width, wherever sizes and messages wrap,
\* with a mutex and, for one writer and one reader, without.
THEOREM RingIsAQueue == Spec => IsAQueue
<1>1. Init => RingInv /\ Abstract!QueueInit
  BY RingInvInit, RingStartsEmpty
<1>2. RingInv /\ [Next]_vars => RingInv'
  BY RingInvStep
<1>3. RingInv /\ RingInv' /\ [Next]_vars => [Abstract!QueueNext]_(Abstract!queueVars)
  BY RingRefines DEF QueueStep
<1> QED BY <1>1, <1>2, <1>3, PTL DEF Spec, IsAQueue, Abstract!QueueSpec
=============================================================================
