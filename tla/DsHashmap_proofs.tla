-------------------------- MODULE DsHashmap_proofs --------------------------
(***************************************************************************)
(* The hash table for any threads, keys, hash and initial size: TableInv   *)
(* is inductive, and from it follow that the table is a map but for the    *)
(* keys it has lost, that chains are filed, and that lost keys stay lost.  *)
(*                                                                         *)
(* One lemma per action says that it keeps TableInv and satisfies          *)
(* LostKept; those of the sections under a chain's lock share ChainStep    *)
(* (the chains and the calls) and HistoryStep (what is found of each key). *)
(***************************************************************************)
EXTENDS DsHashmap, FiniteSetTheorems, SequenceTheorems, TLAPS

Item == [key : Keys, val : Values \cup {NULL}]

Distinct(items) ==
    \A i, j \in 1 .. Len(items) : items[i].key = items[j].key => i = j

LookIn(items, k) == IF Find(items, k) = 0 THEN Absent ELSE items[Find(items, k)].val

-----------------------------------------------------------------------------
(* Remainders. *)

LEMMA SlotIsRemainder ==
    ASSUME NEW h \in Nat, NEW n \in Nat \ {0}
    PROVE  /\ Slot(h, n) \in 0 .. n - 1
           /\ \E q \in Nat : h = q * n + Slot(h, n)
<1> DEFINE q == h \div n
           r == h % n
<1>1. r \in 0 .. n - 1 /\ q \in Int /\ h = n * q + r
  OBVIOUS
<1>2. r = Slot(h, n)
  BY DEF Slot
<1> HIDE DEF q, r
<1>3. q >= 0
  <2>1. q <= -1 => n * q <= n * (-1)
    BY <1>1
  <2> QED BY <1>1, <2>1
<1>4. n * q = q * n
  BY <1>1
<1>5. q \in Nat /\ h = q * n + Slot(h, n)
  BY <1>1, <1>2, <1>3, <1>4
<1> QED BY <1>1, <1>2, <1>5

LEMMA RemainderIsUnique ==
    ASSUME NEW n \in Nat \ {0}, NEW q \in Int, NEW p \in Int,
           NEW r \in 0 .. n - 1, NEW s \in 0 .. n - 1, q * n + r = p * n + s
    PROVE  r = s
<1>1. CASE q = p
  BY <1>1
<1>2. CASE q >= p + 1
  <2>1. q * n >= (p + 1) * n
    BY <1>2
  <2>2. (p + 1) * n = p * n + n
    OBVIOUS
  <2> QED BY <2>1, <2>2
<1>3. CASE p >= q + 1
  <2>1. p * n >= (q + 1) * n
    BY <1>3
  <2>2. (q + 1) * n = q * n + n
    OBVIOUS
  <2> QED BY <2>1, <2>2
<1> QED BY <1>1, <1>2, <1>3

LEMMA SlotOfTwice ==
    ASSUME NEW h \in Nat, NEW n \in Nat \ {0}
    PROVE  Slot(h, n) = Slot(Slot(h, 2 * n), n)
<1> DEFINE m == Slot(h, 2 * n)
<1>1. 2 * n \in Nat \ {0}
  OBVIOUS
<1>2. m \in Nat
  BY <1>1, SlotIsRemainder
<1>3. PICK q \in Nat : h = q * (2 * n) + m
  BY <1>1, SlotIsRemainder
<1>4. PICK p \in Nat : m = p * n + Slot(m, n)
  BY <1>2, SlotIsRemainder
<1>5. PICK o \in Nat : h = o * n + Slot(h, n)
  BY SlotIsRemainder
<1>6. Slot(m, n) \in 0 .. n - 1 /\ Slot(h, n) \in 0 .. n - 1
  BY <1>2, SlotIsRemainder
<1> HIDE DEF m
<1>7. (2 * q + p) * n + Slot(m, n) = o * n + Slot(h, n)
  <2>1. (2 * q + p) * n = q * (2 * n) + p * n
    OBVIOUS
  <2> QED BY <1>2, <1>3, <1>4, <1>5, <1>6, <2>1
<1>8. 2 * q + p \in Int /\ o \in Int
  OBVIOUS
<1>9. Slot(m, n) = Slot(h, n)
  BY <1>6, <1>7, <1>8, RemainderIsUnique
<1> QED BY <1>9 DEF m

-----------------------------------------------------------------------------
(* The items of one chain. *)

LEMMA FindIsFirst ==
    ASSUME NEW items \in Seq(Item), Distinct(items), NEW k
    PROVE  /\ \A j \in 1 .. Len(items) : items[j].key = k => Find(items, k) = j
           /\ (\A j \in 1 .. Len(items) : items[j].key # k) => Find(items, k) = 0
           /\ Find(items, k) \in 0 .. Len(items)
           /\ Find(items, k) # 0 => items[Find(items, k)].key = k
<1> DEFINE I == {j \in 1 .. Len(items) : items[j].key = k}
<1>1. Find(items, k) = IF I # {} THEN Min(I) ELSE 0
  BY DEF Find, SelectInSeq
<1>2. ASSUME NEW j \in 1 .. Len(items), items[j].key = k PROVE Find(items, k) = j
  <2>1. I = {j}
    BY <1>2 DEF Distinct
  <2>2. Min({j}) = j
    BY <1>2 DEF Min
  <2> QED BY <1>1, <2>1, <2>2
<1>3. ASSUME \A j \in 1 .. Len(items) : items[j].key # k PROVE Find(items, k) = 0
  BY <1>1, <1>3
<1>4. Len(items) \in Nat
  OBVIOUS
<1> QED BY <1>2, <1>3, <1>4

\* What a lookup finds on a chain.
LEMMA LookInItems ==
    ASSUME NEW items \in Seq(Item), Distinct(items), NEW k
    PROVE  /\ \A j \in 1 .. Len(items) : items[j].key = k => LookIn(items, k) = items[j].val
           /\ (\A j \in 1 .. Len(items) : items[j].key # k) => LookIn(items, k) = Absent
           /\ LookIn(items, k) = Absent => \A j \in 1 .. Len(items) : items[j].key # k
<1>1. \A j \in 1 .. Len(items) : items[j].key = k => LookIn(items, k) = items[j].val
  BY FindIsFirst DEF LookIn
<1>2. (\A j \in 1 .. Len(items) : items[j].key # k) => LookIn(items, k) = Absent
  BY FindIsFirst DEF LookIn
<1>3. ASSUME NEW j \in 1 .. Len(items) PROVE items[j].val # Absent
  <2>1. items[j] \in Item
    OBVIOUS
  <2> QED BY <2>1, HashmapAssumption DEF Item
<1> QED BY <1>1, <1>2, <1>3

\* An item is hung on to the end.
LEMMA AfterAppend ==
    ASSUME NEW items \in Seq(Item), Distinct(items), NEW item \in Item,
           Find(items, item.key) = 0
    PROVE  LET new == Append(items, item) IN
           /\ new \in Seq(Item) /\ Distinct(new) /\ Len(new) = Len(items) + 1
           /\ \A k : LookIn(new, k) = IF k = item.key THEN item.val ELSE LookIn(items, k)
<1> DEFINE new == Append(items, item)
<1>1. /\ new \in Seq(Item) /\ Len(new) = Len(items) + 1 /\ Len(items) \in Nat
      /\ \A j \in 1 .. Len(items) : new[j] = items[j]
      /\ new[Len(items) + 1] = item
  OBVIOUS
<1>2. \A j \in 1 .. Len(items) : items[j].key # item.key
  BY FindIsFirst
<1> HIDE DEF new
<1>3. Distinct(new)
  BY <1>1, <1>2 DEF Distinct
<1>4. ASSUME NEW k PROVE LookIn(new, k) = IF k = item.key THEN item.val ELSE LookIn(items, k)
  <2>1. CASE k = item.key
    BY <1>1, <1>3, <2>1, LookInItems
  <2>2. CASE k # item.key
    <3>1. CASE \E j \in 1 .. Len(items) : items[j].key = k
      <4>1. PICK j \in 1 .. Len(items) : items[j].key = k
        BY <3>1
      <4>2. j \in 1 .. Len(new) /\ new[j] = items[j]
        BY <1>1
      <4>3. LookIn(items, k) = items[j].val
        BY <4>1, LookInItems
      <4>4. LookIn(new, k) = new[j].val
        BY <1>1, <1>3, <4>1, <4>2, LookInItems
      <4> QED BY <2>2, <4>2, <4>3, <4>4
    <3>2. CASE \A j \in 1 .. Len(items) : items[j].key # k
      <4>1. \A j \in 1 .. Len(new) : new[j].key # k
        BY <1>1, <2>2, <3>2
      <4>2. LookIn(items, k) = Absent
        BY <3>2, LookInItems
      <4>3. LookIn(new, k) = Absent
        BY <1>1, <1>3, <4>1, LookInItems
      <4> QED BY <2>2, <4>2, <4>3
    <3> QED BY <3>1, <3>2
  <2> QED BY <2>1, <2>2
<1> QED BY <1>1, <1>3, <1>4 DEF new

\* An item gets a new value.
LEMMA AfterRevalue ==
    ASSUME NEW items \in Seq(Item), Distinct(items), NEW f \in 1 .. Len(items), NEW v,
           NEW new \in Seq(Item), Len(new) = Len(items), new[f].val = v,
           \A j \in 1 .. Len(items) : new[j].key = items[j].key,
           \A j \in 1 .. Len(items) : j # f => new[j].val = items[j].val
    PROVE  /\ Distinct(new)
           /\ \A k : LookIn(new, k) = IF k = items[f].key THEN v ELSE LookIn(items, k)
<1>2. Len(items) \in Nat
  OBVIOUS
<1>3. Distinct(new)
  BY DEF Distinct
<1>4. ASSUME NEW k PROVE LookIn(new, k) = IF k = items[f].key THEN v ELSE LookIn(items, k)
  <2>1. CASE \E j \in 1 .. Len(items) : items[j].key = k
    <3>1. PICK j \in 1 .. Len(items) : items[j].key = k
      BY <2>1
    <3>2. LookIn(items, k) = items[j].val
      BY <3>1, LookInItems
    <3>3. LookIn(new, k) = new[j].val
      BY <1>2, <1>3, <3>1, LookInItems
    <3>4. j = f <=> k = items[f].key
      BY <3>1 DEF Distinct
    <3> QED BY <1>2, <3>1, <3>2, <3>3, <3>4
  <2>2. CASE \A j \in 1 .. Len(items) : items[j].key # k
    <3>1. \A j \in 1 .. Len(new) : new[j].key # k
      BY <1>2, <2>2
    <3>2. LookIn(items, k) = Absent
      BY <2>2, LookInItems
    <3>3. LookIn(new, k) = Absent
      BY <1>2, <1>3, <3>1, LookInItems
    <3> QED BY <2>2, <3>2, <3>3
  <2> QED BY <2>1, <2>2
<1> QED BY <1>3, <1>4

\* An item is taken out.
LEMMA AfterRemove ==
    ASSUME NEW items \in Seq(Item), Distinct(items), NEW f \in 1 .. Len(items)
    PROVE  LET new == RemoveAt(items, f) IN
           /\ new \in Seq(Item) /\ Distinct(new) /\ Len(new) = Len(items) - 1
           /\ \A k : LookIn(new, k) = IF k = items[f].key THEN Absent ELSE LookIn(items, k)
<1> DEFINE new == RemoveAt(items, f)
           n == Len(items)
           front == SubSeq(items, 1, f - 1)
           rear == SubSeq(items, f + 1, n)
<1>1. n \in Nat /\ f \in 1 .. n /\ \A j \in 1 .. n : items[j] \in Item
  OBVIOUS
<1>2. /\ front \in Seq(Item) /\ Len(front) = f - 1
      /\ \A j \in 1 .. f - 1 : front[j] = items[j]
  <2>1. /\ 1 \in Int /\ f - 1 \in Int /\ \A j \in 1 .. f - 1 : items[j] \in Item
    BY <1>1
  <2>2. /\ front \in Seq(Item) /\ Len(front) = IF 1 <= f - 1 THEN f - 1 - 1 + 1 ELSE 0
        /\ \A j \in 1 .. f - 1 - 1 + 1 : front[j] = items[1 + j - 1]
    BY <2>1, SubSeqProperties
  <2> QED BY <1>1, <2>2
<1>3. /\ rear \in Seq(Item) /\ Len(rear) = n - f
      /\ \A j \in 1 .. n - f : rear[j] = items[f + j]
  <2>1. /\ f + 1 \in Int /\ n \in Int /\ \A j \in f + 1 .. n : items[j] \in Item
    BY <1>1
  <2>2. /\ rear \in Seq(Item) /\ Len(rear) = IF f + 1 <= n THEN n - (f + 1) + 1 ELSE 0
        /\ \A j \in 1 .. n - (f + 1) + 1 : rear[j] = items[f + 1 + j - 1]
    BY <2>1, SubSeqProperties
  <2>3. \A j \in 1 .. n - f : j \in 1 .. n - (f + 1) + 1 /\ f + 1 + j - 1 = f + j
    BY <1>1
  <2> QED BY <1>1, <2>2, <2>3
<1>4. new = front \o rear
  BY DEF RemoveAt
<1> HIDE DEF new, front, rear, n
<1>5. /\ new \in Seq(Item) /\ Len(new) = n - 1
      /\ \A j \in 1 .. n - 1 : new[j] = IF j < f THEN items[j] ELSE items[j + 1]
  <2>1. /\ new \in Seq(Item) /\ Len(new) = (f - 1) + (n - f)
        /\ \A j \in 1 .. (f - 1) + (n - f) :
             new[j] = IF j <= f - 1 THEN front[j] ELSE rear[j - (f - 1)]
    BY <1>2, <1>3, <1>4, ConcatProperties
  <2>2. (f - 1) + (n - f) = n - 1
    BY <1>1
  <2>3. ASSUME NEW j \in 1 .. n - 1 PROVE new[j] = IF j < f THEN items[j] ELSE items[j + 1]
    <3>1. CASE j < f
      <4>1. j \in 1 .. f - 1 /\ j <= f - 1
        BY <1>1, <3>1
      <4> QED BY <1>2, <2>1, <2>2, <3>1, <4>1
    <3>2. CASE j >= f
      <4>1. j - (f - 1) \in 1 .. n - f /\ ~(j <= f - 1) /\ f + (j - (f - 1)) = j + 1 /\ ~(j < f)
        BY <1>1, <3>2
      <4> QED BY <1>3, <2>1, <2>2, <4>1
    <3> QED BY <1>1, <3>1, <3>2
  <2> QED BY <2>1, <2>2, <2>3
<1>6. Distinct(new)
  <2>1. ASSUME NEW i \in 1 .. n - 1, NEW j \in 1 .. n - 1, new[i].key = new[j].key PROVE i = j
    <3> DEFINE u == IF i < f THEN i ELSE i + 1
               w == IF j < f THEN j ELSE j + 1
    <3>1. u \in 1 .. n /\ w \in 1 .. n /\ (u = w => i = j)
      BY <1>1
    <3>2. new[i] = items[u] /\ new[j] = items[w]
      BY <1>5
    <3> HIDE DEF u, w
    <3> QED BY <2>1, <3>1, <3>2 DEF Distinct, n
  <2> QED BY <1>5, <2>1 DEF Distinct
<1>7. ASSUME NEW k PROVE LookIn(new, k) = IF k = items[f].key THEN Absent ELSE LookIn(items, k)
  <2>1. CASE \E j \in 1 .. n : j # f /\ items[j].key = k
    <3>1. PICK j \in 1 .. n : j # f /\ items[j].key = k
      BY <2>1
    <3> DEFINE u == IF j < f THEN j ELSE j - 1
    <3>2. u \in 1 .. n - 1 /\ j = (IF u < f THEN u ELSE u + 1)
      BY <1>1, <3>1
    <3> HIDE DEF u
    <3>3. new[u] = items[j]
      BY <1>5, <3>2
    <3>4. LookIn(new, k) = items[j].val
      <4>1. u \in 1 .. Len(new) /\ new[u].key = k
        BY <1>5, <3>1, <3>2, <3>3
      <4> QED BY <1>5, <1>6, <3>3, <4>1, LookInItems
    <3>5. LookIn(items, k) = items[j].val /\ k # items[f].key
      BY <1>1, <3>1, LookInItems DEF Distinct, n
    <3> QED BY <3>4, <3>5
  <2>2. CASE \A j \in 1 .. n : j # f => items[j].key # k
    <3>1. \A j \in 1 .. Len(new) : new[j].key # k
      <4>1. ASSUME NEW j \in 1 .. n - 1 PROVE new[j].key # k
        <5>1. (IF j < f THEN j ELSE j + 1) \in 1 .. n /\ (IF j < f THEN j ELSE j + 1) # f
          BY <1>1
        <5> QED BY <1>5, <2>2, <5>1
      <4> QED BY <1>5, <4>1
    <3>2. LookIn(new, k) = Absent
      BY <1>5, <1>6, <3>1, LookInItems
    <3>3. k # items[f].key => LookIn(items, k) = Absent
      BY <2>2, LookInItems DEF n
    <3> QED BY <3>2, <3>3
  <2> QED BY <2>1, <2>2
<1> QED BY <1>5, <1>6, <1>7 DEF new, n

-----------------------------------------------------------------------------
(* The invariant. *)

Chain == [hash : Nat, items : Seq(Item), tail : {"end", "none", "adrift"},
          by : Threads \cup {NULL}]

Ops == Setters \cup {"get", "unset", "delete", "set_if_equals", NULL}

Call == [at : {"app", "chain", "locked", "check", "grow", "each"}, op : Ops,
         key : Keys \cup {NULL}, val : Values \cup {NULL}, match : Values \cup {NULL},
         chain : Nat, found : Nat]

\* No chain holds a key twice.
ChainsOK ==
    /\ chains \in Seq(Chain)
    /\ \A c \in 1 .. Len(chains) : Distinct(chains[c].items)

\* EveryChainIsFiled, and the table it is about.
BucketsOK ==
    /\ size \in Nat \ {0}
    /\ buckets \in [0 .. size - 1 -> 0 .. Len(chains)]
    /\ \A i \in 0 .. size - 1, c \in 1 .. Len(chains) :
        buckets[i] = c <=> Slot(chains[c].hash, size) = i

\* A thread that has a chain locked knows what is on it.
CallOK(t) ==
    /\ th[t].at \in {"chain", "locked"} =>
        th[t].key \in Keys /\ th[t].chain \in 1 .. Len(chains)
    /\ th[t].at = "locked" =>
        /\ chains[th[t].chain].by = t
        /\ th[t].found = Find(chains[th[t].chain].items, th[t].key)
    /\ th[t].at = "each" => th[t].chain > 0

CallsOK ==
    /\ iterator \in Threads \cup {NULL}
    /\ th \in [Threads -> Call]
    /\ \A t \in Threads : CallOK(t)

\* The places of all items, no more than are counted.
Places == UNION {{c} \X (1 .. Len(chains[c].items)) : c \in 1 .. Len(chains)}

CountOK ==
    /\ count \in Nat
    /\ IsFiniteSet(Places) /\ Cardinality(Places) <= count

HistoryOK ==
    /\ last \in [Keys -> Values \cup {NULL, Absent}] /\ lost \subseteq Keys
    /\ IsAMap

TableInv == ChainsOK /\ BucketsOK /\ CallsOK /\ CountOK /\ HistoryOK

\* Keys that the table has lost, and does not have, it does not get back.
LostKept == \A k \in lost : Lookup(k) = Absent /\ k \in lost' => Lookup(k)' = Absent

\* Where a key belongs.
LEMMA ChainOfKey ==
    ASSUME BucketsOK, NEW k \in Keys
    PROVE  /\ Slot(Hash[k], size) \in 0 .. size - 1
           /\ ChainOf(k) \in 0 .. Len(chains)
           /\ \A c \in 1 .. Len(chains) :
                ChainOf(k) = c <=> Slot(chains[c].hash, size) = Slot(Hash[k], size)
<1>1. Hash[k] \in Nat
  BY HashmapAssumption
<1>2. Slot(Hash[k], size) \in 0 .. size - 1
  BY <1>1, SlotIsRemainder DEF BucketsOK
<1> QED BY <1>2 DEF BucketsOK, ChainOf

LEMMA LookupIsLookIn ==
    ASSUME NEW k
    PROVE  Lookup(k) = IF ChainOf(k) = 0 THEN Absent ELSE LookIn(chains[ChainOf(k)].items, k)
  BY DEF Lookup, LookIn

\* A chain of the sequence.
LEMMA ChainFields ==
    ASSUME ChainsOK, NEW c \in 1 .. Len(chains)
    PROVE  /\ chains[c] \in Chain /\ chains[c].items \in Seq(Item) /\ Distinct(chains[c].items)
           /\ Len(chains[c].items) \in Nat /\ Len(chains) \in Nat
<1>1. chains[c] \in Chain
  BY DEF ChainsOK
<1> QED BY <1>1 DEF ChainsOK, Chain

\* One chain changes, and stays where it is.
LEMMA ChainChange ==
    ASSUME ChainsOK, BucketsOK, NEW c \in 1 .. Len(chains), NEW ch \in Chain,
           Distinct(ch.items), ch.hash = chains[c].hash,
           chains' = [chains EXCEPT ![c] = ch], UNCHANGED <<size, buckets>>
    PROVE  /\ ChainsOK' /\ BucketsOK'
           /\ Len(chains') = Len(chains) /\ chains'[c] = ch
           /\ \A d \in 1 .. Len(chains) : d # c => chains'[d] = chains[d]
           /\ \A k \in Keys : ChainOf(k)' = ChainOf(k)
           /\ \A k \in Keys : Lookup(k)' = IF ChainOf(k) = c THEN LookIn(ch.items, k) ELSE Lookup(k)
<1>1. /\ chains' \in Seq(Chain) /\ Len(chains') = Len(chains) /\ Len(chains) \in Nat
      /\ chains'[c] = ch
      /\ \A d \in 1 .. Len(chains) : d # c => chains'[d] = chains[d]
  BY ExceptSeq DEF ChainsOK
<1>2. ChainsOK'
  BY <1>1 DEF ChainsOK
<1>3. \A d \in 1 .. Len(chains) : chains'[d].hash = chains[d].hash
  BY <1>1
<1>4. BucketsOK'
  BY <1>1, <1>3 DEF BucketsOK
<1>5. \A k \in Keys : ChainOf(k)' = ChainOf(k)
  BY DEF ChainOf
<1>6. ASSUME NEW k \in Keys
      PROVE  Lookup(k)' = IF ChainOf(k) = c THEN LookIn(ch.items, k) ELSE Lookup(k)
  <2>1. ChainOf(k) \in 0 .. Len(chains) /\ ChainOf(k)' = ChainOf(k)
    BY <1>5, ChainOfKey
  <2>2. Lookup(k) = IF ChainOf(k) = 0 THEN Absent ELSE LookIn(chains[ChainOf(k)].items, k)
    BY LookupIsLookIn
  <2>3. Lookup(k)' = IF ChainOf(k) = 0 THEN Absent ELSE LookIn(chains'[ChainOf(k)].items, k)
    BY <2>1 DEF Lookup, LookIn
  <2>4. CASE ChainOf(k) = c
    BY <1>1, <2>3, <2>4
  <2>5. CASE ChainOf(k) # c
    <3>1. CASE ChainOf(k) = 0
      BY <2>2, <2>3, <2>5, <3>1
    <3>2. CASE ChainOf(k) # 0
      <4>1. chains'[ChainOf(k)] = chains[ChainOf(k)]
        BY <1>1, <2>1, <2>5, <3>2
      <4> QED BY <2>2, <2>3, <2>5, <3>2, <4>1
    <3> QED BY <3>1, <3>2
  <2> QED BY <2>4, <2>5
<1> QED BY <1>1, <1>2, <1>4, <1>5, <1>6

-----------------------------------------------------------------------------
(* The count. *)

LEMMA InPlaces ==
    ASSUME NEW p
    PROVE  p \in Places <=> \E c \in 1 .. Len(chains) : p \in {c} \X (1 .. Len(chains[c].items))
  BY DEF Places

\* The places of a chain that changes.
LEMMA PlacesChange ==
    ASSUME ChainsOK, ChainsOK', NEW c \in 1 .. Len(chains), Len(chains') = Len(chains),
           \A d \in 1 .. Len(chains) : d # c => chains'[d] = chains[d]
    PROVE  LET old == Len(chains[c].items)  new == Len(chains'[c].items) IN
           /\ new <= old => Places' \subseteq Places
           /\ new = old + 1 => Places' \subseteq Places \cup {<<c, new>>}
           /\ new < old => <<c, old>> \in Places /\ Places' \subseteq Places \ {<<c, old>>}
<1> DEFINE old == Len(chains[c].items)
           new == Len(chains'[c].items)
<1>1. old \in Nat /\ new \in Nat
  <2>1. c \in 1 .. Len(chains')
    OBVIOUS
  <2>2. chains'[c] \in Chain
    BY <2>1 DEF ChainsOK
  <2>3. Len(chains'[c].items) \in Nat
    BY <2>2 DEF Chain
  <2> QED BY <2>3, ChainFields
<1>2. ASSUME NEW p \in Places'
      PROVE  \E d \in 1 .. Len(chains) : p \in {d} \X (1 .. Len(chains'[d].items))
  BY <1>2 DEF Places
<1> HIDE DEF old, new
<1>3. ASSUME NEW p \in Places'
      PROVE  (p \in Places /\ p # <<c, old>>) \/ (\E j \in 1 .. new : p = <<c, j>>)
  <2>1. PICK d \in 1 .. Len(chains) : p \in {d} \X (1 .. Len(chains'[d].items))
    BY <1>2, <1>3
  <2>2. CASE d = c
    BY <2>1, <2>2 DEF new
  <2>3. CASE d # c
    <3>1. p \in {d} \X (1 .. Len(chains[d].items))
      BY <2>1, <2>3
    <3> QED BY <2>3, <3>1, InPlaces
  <2> QED BY <2>2, <2>3
<1>4. \A j \in 1 .. old : <<c, j>> \in Places
  BY InPlaces DEF old
<1>5. ASSUME new <= old PROVE Places' \subseteq Places
  <2>1. \A j \in 1 .. new : j \in 1 .. old
    BY <1>1, <1>5
  <2> QED BY <1>3, <1>4, <2>1
<1>6. ASSUME new = old + 1 PROVE Places' \subseteq Places \cup {<<c, new>>}
  <2>1. \A j \in 1 .. new : j \in 1 .. old \/ j = new
    BY <1>1, <1>6
  <2> QED BY <1>3, <1>4, <2>1
<1>7. ASSUME new < old PROVE <<c, old>> \in Places /\ Places' \subseteq Places \ {<<c, old>>}
  <2>1. /\ old \in 1 .. old
        /\ \A j \in 1 .. new : j \in 1 .. old /\ j # old
    BY <1>1, <1>7
  <2>2. \A j \in 1 .. new : <<c, j>> # <<c, old>>
    BY <2>1
  <2> QED BY <1>3, <1>4, <2>1, <2>2
<1> QED BY <1>5, <1>6, <1>7 DEF old, new

LEMMA CountStays ==
    ASSUME CountOK, Places' \subseteq Places, count' = count
    PROVE  CountOK'
<1>1. IsFiniteSet(Places') /\ Cardinality(Places') <= Cardinality(Places)
      /\ Cardinality(Places') \in Nat /\ Cardinality(Places) \in Nat
  BY FS_Subset, FS_CardinalityType DEF CountOK
<1> QED BY <1>1 DEF CountOK

LEMMA CountUp ==
    ASSUME CountOK, NEW p, Places' \subseteq Places \cup {p}, count' = count + 1
    PROVE  CountOK'
<1>1. /\ IsFiniteSet(Places \cup {p})
      /\ Cardinality(Places \cup {p}) <= Cardinality(Places) + 1
      /\ Cardinality(Places) \in Nat
  <2> DEFINE n == Cardinality(Places)
  <2>1. IsFiniteSet(Places) /\ n \in Nat
    BY FS_CardinalityType DEF CountOK
  <2>2. /\ IsFiniteSet(Places \cup {p})
        /\ Cardinality(Places \cup {p}) = IF p \in Places THEN n ELSE n + 1
    BY <2>1, FS_AddElement
  <2> HIDE DEF n
  <2>3. Cardinality(Places \cup {p}) <= n + 1
    BY <2>1, <2>2
  <2> QED BY <2>1, <2>2, <2>3 DEF n
<1>2. /\ IsFiniteSet(Places') /\ Cardinality(Places') <= Cardinality(Places \cup {p})
      /\ Cardinality(Places') \in Nat /\ Cardinality(Places \cup {p}) \in Nat
  BY <1>1, FS_Subset, FS_CardinalityType
<1> QED BY <1>1, <1>2 DEF CountOK

LEMMA CountDown ==
    ASSUME CountOK, NEW p \in Places, Places' \subseteq Places \ {p}, count' = count - 1
    PROVE  CountOK'
<1>1. /\ IsFiniteSet(Places \ {p})
      /\ Cardinality(Places \ {p}) = Cardinality(Places) - 1
      /\ Cardinality(Places) \in Nat
  BY FS_RemoveElement, FS_CardinalityType DEF CountOK
<1>2. /\ IsFiniteSet(Places') /\ Cardinality(Places') <= Cardinality(Places \ {p})
      /\ Cardinality(Places') \in Nat /\ Cardinality(Places \ {p}) \in Nat
  BY <1>1, FS_Subset, FS_CardinalityType
<1> QED BY <1>1, <1>2 DEF CountOK

-----------------------------------------------------------------------------
(* The calls of the other threads. *)

\* Who has locked a chain has it for itself.
LEMMA LockedChain ==
    ASSUME CallsOK, NEW t \in Threads, NEW u \in Threads, u # t, th[u].at = "locked",
           NEW c, chains[c].by \in {t, NULL}
    PROVE  th[u].chain # c
<1>1. chains[th[u].chain].by = u
  BY DEF CallsOK, CallOK
<1>2. u # NULL
  BY HashmapAssumption
<1> QED BY <1>1, <1>2

LEMMA OthersKeep ==
    ASSUME CallsOK, NEW t \in Threads, NEW call \in Call, th' = [th EXCEPT ![t] = call],
           iterator' \in Threads \cup {NULL},
           Len(chains) \in Nat, Len(chains') \in Nat, Len(chains) <= Len(chains'),
           \A u \in Threads : u # t /\ th[u].at = "locked" =>
                chains'[th[u].chain].by = chains[th[u].chain].by /\
                chains'[th[u].chain].items = chains[th[u].chain].items,
           CallOK(t)'
    PROVE  CallsOK'
<1>1. th \in [Threads -> Call]
  BY DEF CallsOK
<1>2. th' \in [Threads -> Call] /\ \A u \in Threads : u # t => th'[u] = th[u]
  BY <1>1
<1>3. ASSUME NEW u \in Threads, u # t PROVE CallOK(u)'
  <2>1. CallOK(u) /\ th'[u] = th[u]
    BY <1>2, <1>3 DEF CallsOK
  <2> QED BY <1>3, <2>1 DEF CallOK
<1> QED BY <1>2, <1>3 DEF CallsOK

\* A call begins, or ends; AtHome.
LEMMA HomeIsCall ==
    /\ AtHome \in Call
    /\ \A a \in {"app", "chain", "locked", "check", "grow", "each"} : [AtHome EXCEPT !.at = a] \in Call
<1>1. AtHome \in Call
  BY DEF AtHome, Call, Ops
<1> QED BY <1>1 DEF AtHome, Call

\* The rest of the state, when the table and the history stay.
LEMMA TableStays ==
    ASSUME TableInv, CallsOK', UNCHANGED <<count, size, buckets, chains, last, lost>>
    PROVE  TableInv' /\ LostKept
<1>1. ChainsOK' /\ BucketsOK'
  BY DEF TableInv, ChainsOK, BucketsOK
<1>2. CountOK'
  BY DEF TableInv, CountOK, Places
<1>3. \A k \in Keys : Lookup(k)' = Lookup(k)
  BY DEF Lookup, ChainOf
<1>4. HistoryOK' /\ LostKept
  BY <1>3 DEF TableInv, HistoryOK, IsAMap, LostKept
<1> QED BY <1>1, <1>2, <1>4 DEF TableInv

-----------------------------------------------------------------------------
(* What leaves the table as it is. *)

\* A thread goes on to another place of its call, and no chain changes.
LEMMA MovesOn ==
    ASSUME TableInv, NEW t \in Threads, NEW call \in Call, th' = [th EXCEPT ![t] = call],
           iterator' \in Threads \cup {NULL},
           call.at \notin {"chain", "locked"}, call.at = "each" => call.chain > 0,
           UNCHANGED <<count, size, buckets, chains, last, lost>>
    PROVE  TableInv' /\ LostKept
<1>1. th'[t] = call
  BY DEF TableInv, CallsOK
<1>2. CallOK(t)'
  BY <1>1 DEF CallOK
<1>3. Len(chains) \in Nat
  BY DEF TableInv, ChainsOK
<1>4. CallsOK /\ chains' = chains
  BY DEF TableInv
<1>5. /\ Len(chains') \in Nat /\ Len(chains) <= Len(chains')
      /\ \A u \in Threads : u # t /\ th[u].at = "locked" =>
           chains'[th[u].chain].by = chains[th[u].chain].by /\
           chains'[th[u].chain].items = chains[th[u].chain].items
  BY <1>3, <1>4
<1>6. CallsOK'
  BY <1>2, <1>3, <1>4, <1>5, OthersKeep
<1> QED BY <1>6, TableStays

LEMMA CallOfThread ==
    ASSUME CallsOK, NEW t \in Threads
    PROVE  th[t] \in Call /\ CallOK(t)
  BY DEF CallsOK

\* A call that ends, without having changed anything.
LEMMA JustLeaves ==
    ASSUME TableInv, NEW t \in Threads, Leaves(t), iterator' \in Threads \cup {NULL},
           UNCHANGED <<count, size, buckets, chains, last, lost>>
    PROVE  TableInv' /\ LostKept
<1>1. AtHome.at = "app"
  BY DEF AtHome
<1> QED BY <1>1, HomeIsCall, MovesOn DEF Leaves

LEMMA CallBeginKeeps ==
    ASSUME TableInv, NEW t \in Threads, NEW op \in Ops, NEW k \in Keys,
           NEW v \in Values \cup {NULL}, NEW match \in Values \cup {NULL},
           CallBegin(t, op, k, v, match)
    PROVE  TableInv' /\ LostKept
<1> DEFINE call == [AtHome EXCEPT !.at = "chain", !.op = op, !.key = k, !.val = v,
                                  !.match = match, !.chain = ChainOf(k)]
<1>1. /\ th' = [th EXCEPT ![t] = call] /\ ChainOf(k) # 0
      /\ UNCHANGED <<count, size, buckets, chains, iterator, last, lost>>
  BY DEF CallBegin
<1>2. ChainOf(k) \in 1 .. Len(chains) /\ Len(chains) \in Nat
  <2>1. Len(chains) \in Nat
    BY DEF TableInv, ChainsOK
  <2> QED BY <1>1, <2>1, ChainOfKey DEF TableInv
<1>3. call \in Call /\ call.at = "chain" /\ call.key = k /\ call.chain = ChainOf(k)
  <2>1. AtHome \in Call /\ ChainOf(k) \in Nat
    BY <1>2, HomeIsCall
  <2> QED BY <2>1 DEF Call
<1> HIDE DEF call
<1>4. th'[t] = call
  BY <1>1 DEF TableInv, CallsOK
<1>5. CallOK(t)'
  BY <1>1, <1>2, <1>3, <1>4 DEF CallOK
<1>6. iterator' \in Threads \cup {NULL}
  BY <1>1 DEF TableInv, CallsOK
<1>7. CallsOK /\ chains' = chains
  BY <1>1 DEF TableInv
<1>8. /\ Len(chains') \in Nat /\ Len(chains) <= Len(chains')
      /\ \A u \in Threads : u # t /\ th[u].at = "locked" =>
           chains'[th[u].chain].by = chains[th[u].chain].by /\
           chains'[th[u].chain].items = chains[th[u].chain].items
  BY <1>2, <1>7
<1>9. CallsOK'
  BY <1>1, <1>2, <1>3, <1>5, <1>6, <1>7, <1>8, OthersKeep
<1> QED BY <1>1, <1>9, TableStays

LEMMA GrowCheckKeeps ==
    ASSUME TableInv, NEW t \in Threads, GrowCheck(t)
    PROVE  TableInv' /\ LostKept
<1>1. UNCHANGED <<count, size, buckets, chains, last, lost>> /\ iterator' \in Threads \cup {NULL}
  BY DEF GrowCheck, TableInv, CallsOK
<1>2. CASE th' = [th EXCEPT ![t].at = "grow"]
  <2> DEFINE call == [th[t] EXCEPT !.at = "grow"]
  <2>1. call \in Call /\ call.at = "grow"
    BY CallOfThread DEF TableInv, Call
  <2>2. th' = [th EXCEPT ![t] = call]
    BY <1>2
  <2> HIDE DEF call
  <2> QED BY <1>1, <2>1, <2>2, MovesOn
<1>3. CASE Leaves(t)
  BY <1>1, <1>3, JustLeaves
<1> QED BY <1>2, <1>3 DEF GrowCheck

LEMMA EachBeginKeeps ==
    ASSUME TableInv, NEW t \in Threads, EachBegin(t)
    PROVE  TableInv' /\ LostKept
<1> DEFINE call == [th[t] EXCEPT !.at = "each", !.chain = 1]
<1>1. /\ th' = [th EXCEPT ![t] = call] /\ iterator' \in Threads \cup {NULL}
      /\ UNCHANGED <<count, size, buckets, chains, last, lost>>
  BY DEF EachBegin
<1>2. call \in Call /\ call.at = "each" /\ call.chain = 1
  BY CallOfThread DEF TableInv, Call
<1> HIDE DEF call
<1>3. call.at \notin {"chain", "locked"} /\ (call.at = "each" => call.chain > 0)
  BY <1>2
<1> QED BY <1>1, <1>2, <1>3, MovesOn

\* The next chain, or no more.
LEMMA EachMoves ==
    ASSUME TableInv, NEW t \in Threads, th[t].at = "each", EachGoesOn(t) \/ EachStops(t)
    PROVE  /\ iterator' \in Threads \cup {NULL}
           /\ \E call \in Call : /\ th' = [th EXCEPT ![t] = call]
                                 /\ call.at \in {"app", "each"}
                                 /\ call.at = "each" => call.chain > 0
<1>1. iterator' \in Threads \cup {NULL}
  BY DEF EachGoesOn, EachStops, TableInv, CallsOK
<1>2. CASE EachGoesOn(t)
  <2> DEFINE call == [th[t] EXCEPT !.chain = th[t].chain + 1]
  <2>1. th[t] \in Call /\ th[t].chain \in Nat
    BY CallOfThread DEF TableInv, Call
  <2>2. call \in Call /\ call.at = "each" /\ call.chain > 0
    BY <2>1 DEF Call
  <2>3. th' = [th EXCEPT ![t] = call]
    BY <1>2 DEF EachGoesOn
  <2> HIDE DEF call
  <2> QED BY <1>1, <2>2, <2>3
<1>3. CASE EachStops(t)
  <2>1. AtHome.at = "app"
    BY DEF AtHome
  <2> QED BY <1>1, <1>3, <2>1, HomeIsCall DEF EachStops, Leaves
<1> QED BY <1>2, <1>3

LEMMA EachChainKeeps ==
    ASSUME TableInv, NEW t \in Threads, EachChain(t) \/ EachEnd(t)
    PROVE  TableInv' /\ LostKept
<1>1. /\ th[t].at = "each" /\ (EachGoesOn(t) \/ EachStops(t))
      /\ UNCHANGED <<count, size, buckets, chains, last, lost>>
  BY DEF EachChain, EachEnd
<1>2. iterator' \in Threads \cup {NULL}
  BY <1>1, EachMoves
<1>3. PICK call \in Call : /\ th' = [th EXCEPT ![t] = call] /\ call.at \in {"app", "each"}
                           /\ call.at = "each" => call.chain > 0
  BY <1>1, EachMoves
<1> QED BY <1>1, <1>2, <1>3, MovesOn

-----------------------------------------------------------------------------
(* One chain changes, under its lock. *)

\* All but the count and the history.
LEMMA ChainStep ==
    ASSUME TableInv, NEW t \in Threads, NEW c \in 1 .. Len(chains), chains[c].by \in {t, NULL},
           NEW ch \in Chain, Distinct(ch.items), ch.hash = chains[c].hash,
           chains' = [chains EXCEPT ![c] = ch], UNCHANGED <<size, buckets>>,
           iterator' \in Threads \cup {NULL},
           NEW call \in Call, th' = [th EXCEPT ![t] = call],
           call.at # "chain", call.at = "each" => call.chain > 0,
           call.at = "locked" =>
                /\ ch.by = t /\ call.chain = c /\ call.key \in Keys
                /\ call.found = Find(ch.items, call.key)
    PROVE  ChainsOK' /\ BucketsOK' /\ CallsOK'
<1>1. ChainsOK /\ BucketsOK /\ CallsOK
  BY DEF TableInv
<1>2. /\ ChainsOK' /\ BucketsOK'
      /\ Len(chains') = Len(chains) /\ chains'[c] = ch
      /\ \A d \in 1 .. Len(chains) : d # c => chains'[d] = chains[d]
  BY <1>1, ChainChange
<1>3. th'[t] = call /\ Len(chains) \in Nat
  BY <1>1 DEF CallsOK, ChainsOK
<1>4. CallOK(t)'
  BY <1>2, <1>3 DEF CallOK
<1>5. ASSUME NEW u \in Threads, u # t, th[u].at = "locked"
      PROVE  chains'[th[u].chain] = chains[th[u].chain]
  <2>1. th[u].chain \in 1 .. Len(chains)
    BY <1>1, <1>5 DEF CallsOK, CallOK
  <2>2. th[u].chain # c
    BY <1>1, <1>5, LockedChain
  <2> QED BY <1>2, <2>1, <2>2
<1>6. /\ Len(chains') \in Nat /\ Len(chains) <= Len(chains')
      /\ \A u \in Threads : u # t /\ th[u].at = "locked" =>
           chains'[th[u].chain].by = chains[th[u].chain].by /\
           chains'[th[u].chain].items = chains[th[u].chain].items
  BY <1>2, <1>3, <1>5
<1>7. CallsOK'
  BY <1>1, <1>3, <1>4, <1>6, OthersKeep
<1> QED BY <1>2, <1>7

\* One key is written to, and what is found of others is what was, if it is not lost.
LEMMA HistoryStep ==
    ASSUME HistoryOK, NEW k \in Keys, NEW v \in Values \cup {NULL, Absent},
           last' = [last EXCEPT ![k] = v], lost' \subseteq Keys,
           \A x \in Keys : x # k /\ x \notin lost' => x \notin lost /\ Lookup(x)' = Lookup(x),
           k \notin lost' => Lookup(k)' = v,
           \A x \in Keys : x \in lost' => Lookup(x)' \in {Lookup(x), Absent}
    PROVE  HistoryOK' /\ LostKept
<1>1. last' \in [Keys -> Values \cup {NULL, Absent}]
      /\ last'[k] = v /\ \A x \in Keys : x # k => last'[x] = last[x]
  BY DEF HistoryOK
<1>2. ASSUME NEW x \in Keys, x \notin lost' PROVE Lookup(x)' = last'[x]
  <2>1. CASE x = k
    BY <1>1, <1>2, <2>1
  <2>2. CASE x # k
    BY <1>1, <1>2, <2>2 DEF HistoryOK, IsAMap
  <2> QED BY <2>1, <2>2
<1>3. HistoryOK'
  BY <1>1, <1>2 DEF HistoryOK, IsAMap
<1>4. lost \subseteq Keys
  BY DEF HistoryOK
<1>5. LostKept
  BY <1>4 DEF LostKept
<1> QED BY <1>3, <1>5

\* Nothing is written, and every key is found as before.
LEMMA HistoryStays ==
    ASSUME HistoryOK, UNCHANGED <<last, lost>>, \A x \in Keys : Lookup(x)' = Lookup(x)
    PROVE  HistoryOK' /\ LostKept
  BY DEF HistoryOK, IsAMap, LostKept

\* A chain is locked or unlocked.
LEMMA ByChanges ==
    ASSUME TableInv, NEW t \in Threads, NEW c \in 1 .. Len(chains), chains[c].by \in {t, NULL},
           NEW by \in Threads \cup {NULL},
           chains' = [chains EXCEPT ![c] = [chains[c] EXCEPT !.by = by]],
           UNCHANGED <<count, size, buckets, iterator, last, lost>>,
           NEW call \in Call, th' = [th EXCEPT ![t] = call],
           call.at # "chain", call.at # "each",
           call.at = "locked" =>
                /\ by = t /\ call.chain = c /\ call.key \in Keys
                /\ call.found = Find(chains[c].items, call.key)
    PROVE  TableInv' /\ LostKept
<1> DEFINE ch == [chains[c] EXCEPT !.by = by]
<1>1. ChainsOK /\ BucketsOK /\ CountOK /\ HistoryOK /\ iterator' \in Threads \cup {NULL}
  BY DEF TableInv, CallsOK
<1>2. chains[c] \in Chain /\ Distinct(chains[c].items)
  BY <1>1, ChainFields
<1>3. /\ ch \in Chain /\ ch.by = by /\ ch.items = chains[c].items /\ ch.hash = chains[c].hash
      /\ Distinct(ch.items)
  BY <1>2 DEF Chain
<1>4. chains' = [chains EXCEPT ![c] = ch]
  OBVIOUS
<1> HIDE DEF ch
<1>5. ChainsOK' /\ BucketsOK' /\ CallsOK'
  <2>1. /\ call.at = "locked" => /\ ch.by = t /\ call.chain = c /\ call.key \in Keys
                                 /\ call.found = Find(ch.items, call.key)
        /\ call.at = "each" => call.chain > 0
        /\ UNCHANGED <<size, buckets>>
    BY <1>3
  <2>2. TableInv /\ t \in Threads /\ c \in 1 .. Len(chains) /\ chains[c].by \in {t, NULL}
    OBVIOUS
  <2>3. call \in Call /\ th' = [th EXCEPT ![t] = call] /\ call.at # "chain"
    OBVIOUS
  <2> QED BY ONLY <1>1, <1>3, <1>4, <2>1, <2>2, <2>3, ChainStep
<1>6. /\ Len(chains') = Len(chains) /\ chains'[c] = ch
      /\ \A d \in 1 .. Len(chains) : d # c => chains'[d] = chains[d]
      /\ \A k \in Keys : Lookup(k)' = IF ChainOf(k) = c THEN LookIn(ch.items, k) ELSE Lookup(k)
  BY <1>1, <1>3, <1>4, ChainChange
<1>7. CountOK'
  <2>1. Len(chains[c].items) \in Nat /\ Len(chains'[c].items) = Len(chains[c].items)
    BY <1>1, <1>3, <1>6, ChainFields
  <2>2. Len(chains'[c].items) <= Len(chains[c].items)
    BY <2>1
  <2>3. Places' \subseteq Places
    BY <1>1, <1>5, <1>6, <2>2, PlacesChange
  <2> QED BY <1>1, <2>3, CountStays
<1>8. \A k \in Keys : Lookup(k)' = Lookup(k)
  <2>1. ASSUME NEW k \in Keys, ChainOf(k) = c PROVE Lookup(k) = LookIn(ch.items, k)
    <3>1. c # 0
      OBVIOUS
    <3> QED BY <1>3, <2>1, <3>1, LookupIsLookIn
  <2> QED BY <1>6, <2>1
<1>9. HistoryOK' /\ LostKept
  BY <1>1, <1>8, HistoryStays
<1> QED BY <1>5, <1>7, <1>9 DEF TableInv

LEMMA LockChainKeeps ==
    ASSUME TableInv, NEW t \in Threads, LockChain(t)
    PROVE  TableInv' /\ LostKept
<1> DEFINE c == th[t].chain
           call == [th[t] EXCEPT !.at = "locked", !.found = Find(chains[c].items, th[t].key)]
<1>1. /\ th[t].at = "chain" /\ chains[c].by = NULL
      /\ chains' = [chains EXCEPT ![c] = [chains[c] EXCEPT !.by = t]]
      /\ th' = [th EXCEPT ![t] = call]
      /\ UNCHANGED <<count, size, buckets, iterator, last, lost>>
  BY DEF LockChain
<1>2. th[t] \in Call /\ th[t].key \in Keys /\ c \in 1 .. Len(chains)
  BY <1>1, CallOfThread DEF TableInv, CallOK
<1>3. Find(chains[c].items, th[t].key) \in Nat
  <2>1. /\ chains[c].items \in Seq(Item) /\ Distinct(chains[c].items)
        /\ Len(chains[c].items) \in Nat
    BY <1>2, ChainFields DEF TableInv
  <2>2. Find(chains[c].items, th[t].key) \in 0 .. Len(chains[c].items)
    BY <2>1, FindIsFirst
  <2> QED BY <2>1, <2>2
<1>4. /\ call \in Call /\ call.at = "locked" /\ call.chain = c /\ call.key = th[t].key
      /\ call.found = Find(chains[c].items, th[t].key)
  BY <1>2, <1>3 DEF Call
<1> HIDE DEF call, c
<1>5. /\ call.at # "chain" /\ call.at # "each"
      /\ t = t /\ call.chain = c /\ call.key \in Keys
      /\ call.found = Find(chains[c].items, call.key)
  BY <1>2, <1>4
<1>6. chains[c].by \in {t, NULL} /\ t \in Threads \cup {NULL}
  BY <1>1
<1> QED BY <1>1, <1>2, <1>4, <1>5, <1>6, ByChanges

\* What a thread knows that has a chain locked.
LEMMA WhenLocked ==
    ASSUME TableInv, NEW t \in Threads, th[t].at = "locked"
    PROVE  LET c == th[t].chain IN
           /\ th[t] \in Call /\ th[t].key \in Keys /\ th[t].val \in Values \cup {NULL}
           /\ c \in 1 .. Len(chains) /\ chains[c].by = t /\ chains[c] \in Chain
           /\ chains[c].items \in Seq(Item) /\ Distinct(chains[c].items)
           /\ th[t].found = Find(chains[c].items, th[t].key)
           /\ th[t].found # 0 =>
                /\ th[t].found \in 1 .. Len(chains[c].items)
                /\ chains[c].items[th[t].found].key = th[t].key
<1> DEFINE c == th[t].chain
           f == th[t].found
<1>1. th[t] \in Call /\ CallOK(t)
  BY CallOfThread DEF TableInv
<1>2. th[t].key \in Keys /\ c \in 1 .. Len(chains) /\ chains[c].by = t
      /\ f = Find(chains[c].items, th[t].key)
  BY <1>1 DEF CallOK
<1>3. th[t].val \in Values \cup {NULL}
  BY <1>1 DEF Call
<1>4. chains[c] \in Chain /\ chains[c].items \in Seq(Item) /\ Distinct(chains[c].items)
      /\ Len(chains[c].items) \in Nat
  BY <1>2, ChainFields DEF TableInv
<1>5. f \in 0 .. Len(chains[c].items) /\ (f # 0 => chains[c].items[f].key = th[t].key)
  BY <1>2, <1>4, FindIsFirst
<1>6. f # 0 => f \in 1 .. Len(chains[c].items)
  BY <1>4, <1>5
<1> QED BY <1>1, <1>2, <1>3, <1>4, <1>5, <1>6

\* Nothing was done, and the chain is unlocked.
LEMMA Unlocked ==
    ASSUME TableInv, NEW t \in Threads, th[t].at = "locked",
           Unlock(th[t].chain, chains[th[t].chain]), Leaves(t),
           UNCHANGED <<count, size, buckets, iterator, last, lost>>
    PROVE  TableInv' /\ LostKept
<1> DEFINE c == th[t].chain
<1>1. c \in 1 .. Len(chains) /\ chains[c].by \in {t, NULL}
  BY WhenLocked
<1>2. chains' = [chains EXCEPT ![c] = [chains[c] EXCEPT !.by = NULL]]
  BY DEF Unlock
<1>3. AtHome \in Call /\ AtHome.at = "app"
  BY HomeIsCall DEF AtHome
<1>4. th' = [th EXCEPT ![t] = AtHome]
  BY DEF Leaves
<1>5. AtHome.at # "chain" /\ AtHome.at # "each" /\ AtHome.at # "locked"
  BY <1>3
<1> HIDE DEF c
<1> QED BY <1>1, <1>2, <1>3, <1>4, <1>5, ByChanges

-----------------------------------------------------------------------------
(* What is done to a locked chain. *)

\* A new item: hung on to the chain, or adrift.
LEMMA InsertKeeps ==
    ASSUME TableInv, NEW t \in Threads, Insert(t)
    PROVE  TableInv' /\ LostKept
<1>0. th[t].at = "locked" /\ th[t].found = 0
  BY DEF Insert
<1> PICK k \in Keys, v \in Values \cup {NULL}, c \in 1 .. Len(chains) :
        k = th[t].key /\ v = th[t].val /\ c = th[t].chain
  BY <1>0, WhenLocked
<1> DEFINE item == [key |-> k, val |-> v]
           linked == Linked(chains[c], item)
           ch == [linked EXCEPT !.by = NULL]
           call == [AtHome EXCEPT !.at = "check"]
<1>1. ChainsOK /\ BucketsOK /\ CountOK /\ HistoryOK /\ iterator \in Threads \cup {NULL}
  BY DEF TableInv, CallsOK
<1>2. /\ chains' = [chains EXCEPT ![c] = ch] /\ count' = count + 1
      /\ last' = [last EXCEPT ![k] = v]
      /\ lost' = IF linked.tail = "end" /\ ChainOf(k) = c THEN lost \ {k} ELSE lost \cup {k}
      /\ th' = [th EXCEPT ![t] = call]
      /\ UNCHANGED <<size, buckets, iterator>>
  BY DEF Insert, Unlock, Wrote
<1>3. /\ chains[c].by \in {t, NULL} /\ chains[c] \in Chain
      /\ chains[c].items \in Seq(Item) /\ Distinct(chains[c].items)
      /\ Find(chains[c].items, k) = 0
  BY <1>0, WhenLocked
<1>4. item \in Item /\ item.key = k /\ item.val = v
  BY DEF Item
<1>4a. linked = Linked(chains[c], item) /\ ch = [linked EXCEPT !.by = NULL]
  OBVIOUS
<1> HIDE DEF item, linked, ch
<1>5. /\ ch \in Chain /\ ch.hash = chains[c].hash /\ Distinct(ch.items)
      /\ linked.tail = "end" =>
           /\ Len(ch.items) = Len(chains[c].items) + 1
           /\ \A x : LookIn(ch.items, x) = IF x = k THEN v ELSE LookIn(chains[c].items, x)
      /\ linked.tail # "end" => ch.items = chains[c].items
  <2> DEFINE new == Append(chains[c].items, item)
  <2>1. /\ new \in Seq(Item) /\ Distinct(new) /\ Len(new) = Len(chains[c].items) + 1
        /\ \A x : LookIn(new, x) = IF x = k THEN v ELSE LookIn(chains[c].items, x)
    <3>1. Find(chains[c].items, item.key) = 0
      BY <1>3, <1>4
    <3>2. /\ new \in Seq(Item) /\ Distinct(new) /\ Len(new) = Len(chains[c].items) + 1
          /\ \A x : LookIn(new, x) = IF x = item.key THEN item.val ELSE LookIn(chains[c].items, x)
      BY <1>3, <1>4, <3>1, AfterAppend
    <3> QED BY <1>4, <3>2
  <2>2. CASE chains[c].items = <<>> \/ chains[c].tail = "end"
    <3>1. linked = [chains[c] EXCEPT !.items = new, !.tail = "end"]
      BY <1>4a, <2>2 DEF Linked
    <3> HIDE DEF new
    <3>2. ch \in Chain /\ ch.hash = chains[c].hash /\ ch.items = new /\ linked.tail = "end"
      BY <1>3, <1>4a, <2>1, <3>1 DEF Chain
    <3> QED BY <2>1, <3>2
  <2>3. CASE ~(chains[c].items = <<>> \/ chains[c].tail = "end")
    <3>1. linked = [chains[c] EXCEPT !.tail = "adrift"]
      BY <1>4a, <2>3 DEF Linked
    <3> HIDE DEF new
    <3>2. /\ ch \in Chain /\ ch.hash = chains[c].hash /\ ch.items = chains[c].items
          /\ linked.tail = "adrift"
      BY <1>3, <1>4a, <3>1 DEF Chain
    <3> QED BY <1>3, <3>2
  <2> QED BY <2>2, <2>3
<1>6. call \in Call /\ call.at = "check"
  BY HomeIsCall DEF AtHome
<1> HIDE DEF call
<1>7. ChainsOK' /\ BucketsOK' /\ CallsOK'
  <2>1. iterator' \in Threads \cup {NULL} /\ UNCHANGED <<size, buckets>>
    BY <1>1, <1>2
  <2>2. call.at # "chain" /\ call.at # "each" /\ call.at # "locked"
    BY <1>6
  <2> QED BY <1>2, <1>3, <1>5, <1>6, <2>1, <2>2, ChainStep
<1>8. /\ Len(chains') = Len(chains) /\ chains'[c] = ch
      /\ \A d \in 1 .. Len(chains) : d # c => chains'[d] = chains[d]
      /\ \A x \in Keys : Lookup(x)' = IF ChainOf(x) = c THEN LookIn(ch.items, x) ELSE Lookup(x)
  <2>1. ch \in Chain /\ Distinct(ch.items) /\ ch.hash = chains[c].hash
    BY <1>5
  <2>2. chains' = [chains EXCEPT ![c] = ch] /\ UNCHANGED <<size, buckets>>
    BY <1>2
  <2>3. ChainsOK /\ BucketsOK /\ c \in 1 .. Len(chains)
    BY <1>1
  <2> QED BY ONLY <2>1, <2>2, <2>3, ChainChange
<1>9. CountOK'
  <2>1. Len(chains[c].items) \in Nat
    BY <1>3
  <2>2. CASE linked.tail = "end"
    <3>1. Places' \subseteq Places \cup {<<c, Len(chains'[c].items)>>}
      BY <1>1, <1>3, <1>5, <1>7, <1>8, <2>1, <2>2, PlacesChange
    <3> QED BY <1>1, <1>2, <3>1, CountUp
  <2>3. CASE linked.tail # "end"
    <3>1. Len(chains'[c].items) <= Len(chains[c].items)
      BY <1>5, <1>8, <2>1, <2>3
    <3>2. Places' \subseteq Places
      BY <1>1, <1>3, <1>7, <1>8, <3>1, PlacesChange
    <3>3. Places' \subseteq Places \cup {<<c, 0>>}
      BY <3>2
    <3> QED BY <1>1, <1>2, <3>3, CountUp
  <2> QED BY <2>2, <2>3
<1>10. HistoryOK' /\ LostKept
  <2>1. c # 0
    BY <1>3
  <2>2. \A x \in Keys : ChainOf(x) = c => Lookup(x) = LookIn(chains[c].items, x)
    BY <2>1, LookupIsLookIn
  <2>3. \A x \in Keys : x # k => Lookup(x)' = Lookup(x)
    BY <1>5, <1>8, <2>2
  <2>4. /\ lost' \subseteq Keys
        /\ \A x \in Keys : x # k => (x \in lost' <=> x \in lost)
        /\ k \notin lost' <=> (linked.tail = "end" /\ ChainOf(k) = c)
    <3>1. CASE linked.tail = "end" /\ ChainOf(k) = c
      BY <1>1, <1>2, <3>1 DEF HistoryOK
    <3>2. CASE ~(linked.tail = "end" /\ ChainOf(k) = c)
      BY <1>1, <1>2, <3>2 DEF HistoryOK
    <3> QED BY <3>1, <3>2
  <2>5. \A x \in Keys : x # k /\ x \notin lost' => x \notin lost /\ Lookup(x)' = Lookup(x)
    BY <2>3, <2>4
  <2>6. k \notin lost' => Lookup(k)' = v
    BY <2>4, <1>5, <1>8
  <2>7. k \in lost' => Lookup(k)' = Lookup(k)
    BY <2>4, <1>5, <1>8, <2>2
  <2>8. \A x \in Keys : x \in lost' => Lookup(x)' \in {Lookup(x), Absent}
    BY <2>3, <2>7
  <2>9. v \in Values \cup {NULL, Absent}
    BY <1>3
  <2> QED BY <1>1, <1>2, <1>3, <2>4, <2>5, <2>6, <2>8, <2>9, HistoryStep
<1> QED BY <1>7, <1>9, <1>10 DEF TableInv

\* An item that is there gets a new value, or none.
LEMMA RevalueKeeps ==
    ASSUME TableInv, NEW t \in Threads, NEW v \in Values \cup {NULL}, Revalue(t, v),
           NEW call \in Call, call.at \in {"app", "check"}, th' = [th EXCEPT ![t] = call]
    PROVE  TableInv' /\ LostKept
<1>0. th[t].at = "locked" /\ th[t].found # 0
  BY DEF Revalue
<1> PICK k \in Keys, c \in 1 .. Len(chains), f \in 1 .. Len(chains[th[t].chain].items) :
        k = th[t].key /\ c = th[t].chain /\ f = th[t].found
  BY <1>0, WhenLocked
<1> DEFINE new == [chains[c].items EXCEPT ![f].val = v]
           ch == [[chains[c] EXCEPT !.items[f].val = v] EXCEPT !.by = NULL]
<1>1. ChainsOK /\ BucketsOK /\ CountOK /\ HistoryOK /\ iterator \in Threads \cup {NULL}
  BY DEF TableInv, CallsOK
<1>2. /\ chains' = [chains EXCEPT ![c] = ch]
      /\ last' = [last EXCEPT ![k] = v]
      /\ lost' = IF ChainOf(k) = c THEN lost \ {k} ELSE lost \cup {k}
      /\ UNCHANGED <<count, size, buckets, iterator>>
  BY DEF Revalue, Unlock, Wrote
<1>3. /\ chains[c].by \in {t, NULL} /\ chains[c] \in Chain
      /\ chains[c].items \in Seq(Item) /\ Distinct(chains[c].items)
      /\ f \in 1 .. Len(chains[c].items) /\ chains[c].items[f].key = k
  BY <1>0, WhenLocked
<1>4. /\ new \in Seq(Item) /\ Distinct(new) /\ Len(new) = Len(chains[c].items)
      /\ \A x : LookIn(new, x) = IF x = k THEN v ELSE LookIn(chains[c].items, x)
  <2> DEFINE items == chains[c].items
  <2>1. items[f] \in Item /\ Len(items) \in Nat
    BY <1>3
  <2>2. /\ [items[f] EXCEPT !.val = v] \in Item
        /\ [items[f] EXCEPT !.val = v].key = items[f].key
        /\ [items[f] EXCEPT !.val = v].val = v
    BY <2>1 DEF Item
  <2>3. new = [items EXCEPT ![f] = [items[f] EXCEPT !.val = v]]
    OBVIOUS
  <2>4. items \in Seq(Item) /\ Distinct(items) /\ f \in 1 .. Len(items) /\ items[f].key = k
    BY <1>3
  <2> HIDE DEF new, items
  <2>5. /\ new \in Seq(Item) /\ Len(new) = Len(items)
        /\ new[f] = [items[f] EXCEPT !.val = v]
        /\ \A j \in 1 .. Len(items) : j # f => new[j] = items[j]
    <3>1. [items[f] EXCEPT !.val = v] \in Item
      BY <2>2
    <3> QED BY ONLY <2>3, <2>4, <3>1, ExceptSeq
  <2>6. /\ new[f].val = v
        /\ \A j \in 1 .. Len(items) : new[j].key = items[j].key
        /\ \A j \in 1 .. Len(items) : j # f => new[j].val = items[j].val
    BY <2>2, <2>5
  <2>7. /\ Distinct(new)
        /\ \A x : LookIn(new, x) = IF x = items[f].key THEN v ELSE LookIn(items, x)
    <3>1. new \in Seq(Item) /\ Len(new) = Len(items)
      BY <2>5
    <3> QED BY ONLY <2>4, <2>6, <3>1, AfterRevalue
  <2> QED BY <2>4, <2>5, <2>7 DEF items
<1>5. ch = [chains[c] EXCEPT !.items = new, !.by = NULL]
  BY <1>3 DEF Chain
<1> HIDE DEF new
<1>6. ch \in Chain /\ ch.hash = chains[c].hash /\ ch.items = new
  BY <1>3, <1>4, <1>5 DEF Chain
<1> HIDE DEF ch
<1>7. ChainsOK' /\ BucketsOK' /\ CallsOK'
  <2>1. iterator' \in Threads \cup {NULL} /\ UNCHANGED <<size, buckets>>
    BY <1>1, <1>2
  <2>2. call.at # "chain" /\ call.at # "each" /\ call.at # "locked"
    OBVIOUS
  <2>3. Distinct(ch.items)
    BY <1>4, <1>6
  <2> QED BY <1>2, <1>3, <1>6, <2>1, <2>2, <2>3, ChainStep
<1>8. /\ Len(chains') = Len(chains) /\ chains'[c] = ch
      /\ \A d \in 1 .. Len(chains) : d # c => chains'[d] = chains[d]
      /\ \A x \in Keys : Lookup(x)' = IF ChainOf(x) = c THEN LookIn(ch.items, x) ELSE Lookup(x)
  <2>1. ChainsOK /\ BucketsOK /\ c \in 1 .. Len(chains)
    BY <1>1
  <2>2. ch \in Chain /\ Distinct(ch.items) /\ ch.hash = chains[c].hash
    BY <1>4, <1>6
  <2>3. chains' = [chains EXCEPT ![c] = ch] /\ UNCHANGED <<size, buckets>>
    BY <1>2
  <2> QED BY ONLY <2>1, <2>2, <2>3, ChainChange
<1>9. CountOK'
  <2>1. Len(chains'[c].items) <= Len(chains[c].items)
    BY <1>3, <1>4, <1>6, <1>8
  <2>2. Places' \subseteq Places
    BY <1>1, <1>3, <1>7, <1>8, <2>1, PlacesChange
  <2> QED BY <1>1, <1>2, <2>2, CountStays
<1>10. HistoryOK' /\ LostKept
  <2>1. c # 0
    BY <1>3
  <2>2. \A x \in Keys : ChainOf(x) = c => Lookup(x) = LookIn(chains[c].items, x)
    BY <2>1, LookupIsLookIn
  <2>3. \A x \in Keys : x # k => Lookup(x)' = Lookup(x)
    BY <1>4, <1>6, <1>8, <2>2
  <2>4. /\ lost' \subseteq Keys
        /\ \A x \in Keys : x # k => (x \in lost' <=> x \in lost)
        /\ k \notin lost' <=> (ChainOf(k) = c)
    <3>1. CASE ChainOf(k) = c
      BY <1>1, <1>2, <3>1 DEF HistoryOK
    <3>2. CASE ~(ChainOf(k) = c)
      BY <1>1, <1>2, <3>2 DEF HistoryOK
    <3> QED BY <3>1, <3>2
  <2>5. \A x \in Keys : x # k /\ x \notin lost' => x \notin lost /\ Lookup(x)' = Lookup(x)
    BY <2>3, <2>4
  <2>6. k \notin lost' => Lookup(k)' = v
    BY <2>4, <1>4, <1>6, <1>8
  <2>7. k \in lost' => Lookup(k)' = Lookup(k)
    BY <2>4, <1>8
  <2>8. \A x \in Keys : x \in lost' => Lookup(x)' \in {Lookup(x), Absent}
    BY <2>3, <2>7
  <2>9. v \in Values \cup {NULL, Absent}
    OBVIOUS
  <2> QED BY <1>1, <1>2, <1>3, <2>4, <2>5, <2>6, <2>8, <2>9, HistoryStep
<1> QED BY <1>7, <1>9, <1>10 DEF TableInv

LEMMA LockedSectionKeeps ==
    ASSUME TableInv, NEW t \in Threads,
           \/ InsertFails(t) \/ JustLook(t)
           \/ Replace(t) \/ ReplaceFails(t) \/ Unset(t) \/ ReplaceIf(t)
    PROVE  TableInv' /\ LostKept
<1>1. CASE InsertFails(t) \/ JustLook(t)
  <2>1. /\ th[t].at = "locked" /\ Unlock(th[t].chain, chains[th[t].chain]) /\ Leaves(t)
        /\ UNCHANGED <<count, size, buckets, iterator, last, lost>>
    BY <1>1 DEF InsertFails, JustLook
  <2> QED BY <2>1, Unlocked
<1>2. CASE Replace(t) \/ ReplaceFails(t) \/ Unset(t) \/ ReplaceIf(t)
  <2>1. PICK a \in {"app", "check"}, v \in {th[t].val, NULL} :
            Revalue(t, v) /\ th' = [th EXCEPT ![t] = [AtHome EXCEPT !.at = a]]
    <3>1. AtHome = [AtHome EXCEPT !.at = "app"]
      BY DEF AtHome
    <3> QED BY <1>2, <3>1 DEF Replace, ReplaceFails, Unset, ReplaceIf, Leaves
  <2>2. th[t].at = "locked"
    BY <2>1 DEF Revalue
  <2>3. v \in Values \cup {NULL}
    BY <2>2, WhenLocked
  <2> DEFINE call == [AtHome EXCEPT !.at = a]
  <2>4. call \in Call /\ call.at \in {"app", "check"}
    BY <2>1, HomeIsCall DEF AtHome
  <2>5. th' = [th EXCEPT ![t] = call]
    BY <2>1
  <2> HIDE DEF call
  <2> QED BY <2>1, <2>3, <2>4, <2>5, RevalueKeeps
<1> QED BY <1>1, <1>2

\* An item is taken out, and with the first one all others.
LEMMA TakeKeeps ==
    ASSUME TableInv, NEW t \in Threads, NEW c \in 1 .. Len(chains), chains[c].by \in {t, NULL},
           NEW j \in 1 .. Len(chains[c].items), Take(c, j), UNCHANGED <<size, buckets>>,
           iterator' \in Threads \cup {NULL},
           NEW call \in Call, th' = [th EXCEPT ![t] = call],
           call.at \in {"app", "each"}, call.at = "each" => call.chain > 0
    PROVE  TableInv' /\ LostKept
<1>1. ChainsOK /\ BucketsOK /\ CountOK /\ HistoryOK
  BY DEF TableInv
<1>2. /\ chains[c] \in Chain /\ chains[c].items \in Seq(Item) /\ Distinct(chains[c].items)
      /\ Len(chains[c].items) \in Nat
  BY <1>1, ChainFields
<1>3. chains[c].items[j].key \in Keys
  <2>1. chains[c].items[j] \in Item
    BY <1>2
  <2> QED BY <2>1 DEF Item
<1> PICK k \in Keys : k = chains[c].items[j].key
  BY <1>3
<1> DEFINE ch == [Without(chains[c], j) EXCEPT !.by = NULL]
           gone == {other \in KeysOn(c) \ {k} : ChainOf(other) = c}
<1>4. /\ chains' = [chains EXCEPT ![c] = ch] /\ count' = count - 1
      /\ last' = [last EXCEPT ![k] = Absent]
      /\ lost' = (IF ChainOf(k) = c THEN lost \ {k} ELSE lost \cup {k})
                 \cup (IF j = 1 THEN gone ELSE {})
  BY DEF Take, Unlock
\* What is left on the chain.
<1>5. /\ ch \in Chain /\ ch.hash = chains[c].hash /\ Distinct(ch.items)
      /\ Len(ch.items) < Len(chains[c].items)
      /\ LookIn(ch.items, k) = Absent
      /\ j = 1 => \A x : LookIn(ch.items, x) = Absent
      /\ j # 1 => \A x : x # k => LookIn(ch.items, x) = LookIn(chains[c].items, x)
  <2>1. CASE j = 1
    <3> DEFINE new == <<>>
    <3>1. Without(chains[c], j) = [chains[c] EXCEPT !.items = new, !.tail = "end"]
      BY <2>1 DEF Without
    <3>2. new \in Seq(Item) /\ Len(new) = 0
      OBVIOUS
    <3> HIDE DEF new
    <3>3. ch \in Chain /\ ch.hash = chains[c].hash /\ ch.items = new
      BY <1>2, <3>1, <3>2 DEF Chain
    <3>4. Distinct(new) /\ \A x, i : i \in 1 .. Len(new) => new[i].key # x
      BY <3>2 DEF Distinct
    <3>5. \A x : LookIn(new, x) = Absent
      BY <3>2, <3>4, LookInItems
    <3> HIDE DEF ch
    <3> QED BY <1>2, <2>1, <3>2, <3>3, <3>4, <3>5
  <2>2. CASE j # 1
    <3> DEFINE new == RemoveAt(chains[c].items, j)
               tail == IF j = Len(chains[c].items) /\ chains[c].tail = "end" THEN "none"
                       ELSE chains[c].tail
    <3>1. /\ new \in Seq(Item) /\ Distinct(new) /\ Len(new) = Len(chains[c].items) - 1
          /\ \A x : LookIn(new, x) = IF x = k THEN Absent ELSE LookIn(chains[c].items, x)
      <4>1. /\ new \in Seq(Item) /\ Distinct(new) /\ Len(new) = Len(chains[c].items) - 1
            /\ \A x : LookIn(new, x) = IF x = chains[c].items[j].key THEN Absent
                                       ELSE LookIn(chains[c].items, x)
        BY <1>2, AfterRemove
      <4> QED BY <4>1
    <3>2. Without(chains[c], j) = [chains[c] EXCEPT !.items = new, !.tail = tail]
      BY <2>2 DEF Without
    <3>3. tail \in {"end", "none", "adrift"}
      BY <1>2 DEF Chain
    <3> HIDE DEF new, tail
    <3>4. ch \in Chain /\ ch.hash = chains[c].hash /\ ch.items = new
      BY <1>2, <3>1, <3>2, <3>3 DEF Chain
    <3> HIDE DEF ch
    <3> QED BY <1>2, <2>2, <3>1, <3>4
  <2> QED BY <2>1, <2>2
<1> HIDE DEF ch
<1>6. ChainsOK' /\ BucketsOK' /\ CallsOK'
  <2>1. /\ ch \in Chain /\ ch.hash = chains[c].hash /\ Distinct(ch.items)
        /\ call.at # "chain" /\ call.at # "locked"
    BY <1>5
  <2> QED BY <1>4, <2>1, ChainStep
<1>7. /\ Len(chains') = Len(chains) /\ chains'[c] = ch
      /\ \A d \in 1 .. Len(chains) : d # c => chains'[d] = chains[d]
      /\ \A x \in Keys : Lookup(x)' = IF ChainOf(x) = c THEN LookIn(ch.items, x) ELSE Lookup(x)
  <2>1. ch \in Chain /\ ch.hash = chains[c].hash /\ Distinct(ch.items)
    BY <1>5
  <2> QED BY <1>1, <1>4, <2>1, ChainChange
<1>8. CountOK'
  <2>1. Len(chains'[c].items) < Len(chains[c].items)
    BY <1>5, <1>7
  <2>2. /\ <<c, Len(chains[c].items)>> \in Places
        /\ Places' \subseteq Places \ {<<c, Len(chains[c].items)>>}
    BY <1>1, <1>6, <1>7, <2>1, PlacesChange
  <2> QED BY <1>1, <1>4, <2>2, CountDown
<1>9. HistoryOK' /\ LostKept
  <2>1. /\ \A x \in Keys : ChainOf(x) = c => Lookup(x) = LookIn(chains[c].items, x)
    <3>1. c # 0
      OBVIOUS
    <3> QED BY <3>1, LookupIsLookIn
  <2>2. lost \subseteq Keys
    BY <1>1 DEF HistoryOK
  <2>3. gone \subseteq Keys
    <3>1. \A i \in DOMAIN chains[c].items : chains[c].items[i].key \in Keys
      <4>1. \A i \in 1 .. Len(chains[c].items) : chains[c].items[i] \in Item
        BY <1>2
      <4>2. DOMAIN chains[c].items = 1 .. Len(chains[c].items)
        BY <1>2
      <4> QED BY <4>1, <4>2 DEF Item
    <3> QED BY <3>1 DEF KeysOn
  <2>4. \A x \in Keys : x # k /\ ChainOf(x) = c /\ x \notin gone =>
            LookIn(chains[c].items, x) = Absent
    <3> SUFFICES ASSUME NEW x \in Keys, x # k, ChainOf(x) = c, x \notin gone
                 PROVE  LookIn(chains[c].items, x) = Absent
      OBVIOUS
    <3>1. x \notin KeysOn(c)
      OBVIOUS
    <3>2. \A i \in 1 .. Len(chains[c].items) : chains[c].items[i].key # x
      <4>1. DOMAIN chains[c].items = 1 .. Len(chains[c].items)
        BY <1>2
      <4> QED BY <3>1, <4>1 DEF KeysOn
    <3> QED BY <1>2, <3>2, LookInItems
  <2>5. k \notin gone
    OBVIOUS
  <2> HIDE DEF gone
  <2>6. /\ lost' \subseteq Keys
        /\ k \notin lost' <=> ChainOf(k) = c
        /\ \A x : x # k => (x \in lost' <=> x \in lost \/ (j = 1 /\ x \in gone))
    BY <1>4, <2>2, <2>3, <2>5
  <2>7. ASSUME NEW x \in Keys, x # k, x \notin lost'
        PROVE  x \notin lost /\ Lookup(x)' = Lookup(x)
    <3>1. x \notin lost /\ (j = 1 => x \notin gone)
      BY <2>6, <2>7
    <3>2. CASE ChainOf(x) # c
      BY <1>7, <3>1, <3>2
    <3>3. CASE ChainOf(x) = c /\ j = 1
      BY <1>5, <1>7, <2>1, <2>4, <2>7, <3>1, <3>3
    <3>4. CASE ChainOf(x) = c /\ j # 1
      BY <1>5, <1>7, <2>1, <2>7, <3>1, <3>4
    <3> QED BY <3>2, <3>3, <3>4
  <2>8. k \notin lost' => Lookup(k)' = Absent
    BY <1>5, <1>7, <2>6
  <2>9. ASSUME NEW x \in Keys, x \in lost' PROVE Lookup(x)' \in {Lookup(x), Absent}
    <3>1. CASE ChainOf(x) # c
      BY <1>7, <3>1
    <3>2. CASE ChainOf(x) = c /\ (x = k \/ j = 1)
      BY <1>5, <1>7, <3>2
    <3>3. CASE ChainOf(x) = c /\ x # k /\ j # 1
      BY <1>5, <1>7, <2>1, <3>3
    <3> QED BY <3>1, <3>2, <3>3
  <2>10. lost' \subseteq Keys /\ Absent \in Values \cup {NULL, Absent}
    BY <2>6
  <2> QED BY <1>1, <1>4, <2>7, <2>8, <2>9, <2>10, HistoryStep
<1> QED BY <1>6, <1>8, <1>9 DEF TableInv

LEMMA DeleteKeeps ==
    ASSUME TableInv, NEW t \in Threads, Delete(t)
    PROVE  TableInv' /\ LostKept
<1>1. /\ th[t].at = "locked" /\ th[t].found # 0 /\ Take(th[t].chain, th[t].found)
      /\ th' = [th EXCEPT ![t] = AtHome] /\ UNCHANGED <<size, buckets, iterator>>
  BY DEF Delete, Leaves
<1>2. PICK c \in 1 .. Len(chains), j \in 1 .. Len(chains[th[t].chain].items) :
        c = th[t].chain /\ j = th[t].found
  BY <1>1, WhenLocked
<1>3. chains[c].by \in {t, NULL} /\ j \in 1 .. Len(chains[c].items) /\ Take(c, j)
  BY <1>1, <1>2, WhenLocked
<1>4. iterator' \in Threads \cup {NULL} /\ UNCHANGED <<size, buckets>>
  BY <1>1 DEF TableInv, CallsOK
<1>5. AtHome \in Call /\ AtHome.at \in {"app", "each"} /\ (AtHome.at = "each" => AtHome.chain > 0)
  BY HomeIsCall DEF AtHome
<1> QED BY <1>1, <1>3, <1>4, <1>5, TakeKeeps

LEMMA EachRemovesKeeps ==
    ASSUME TableInv, NEW t \in Threads, NEW j, EachRemoves(t, j)
    PROVE  TableInv' /\ LostKept
<1>1. /\ th[t].at = "each" /\ th[t].chain <= Len(chains) /\ chains[th[t].chain].by = NULL
      /\ j \in DOMAIN chains[th[t].chain].items /\ Take(th[t].chain, j)
      /\ (EachGoesOn(t) \/ EachStops(t)) /\ UNCHANGED <<size, buckets>>
  BY DEF EachRemoves
<1>2. th[t].chain \in 1 .. Len(chains)
  <2>1. th[t] \in Call /\ CallOK(t) /\ Len(chains) \in Nat
    BY CallOfThread DEF TableInv, ChainsOK
  <2>2. th[t].chain \in Nat /\ th[t].chain > 0
    BY <1>1, <2>1 DEF Call, CallOK
  <2> QED BY <1>1, <2>1, <2>2
<1>3. PICK c \in 1 .. Len(chains) : c = th[t].chain
  BY <1>2
<1>4. chains[c].by \in {t, NULL} /\ j \in 1 .. Len(chains[c].items) /\ Take(c, j)
  <2>1. chains[c].items \in Seq(Item)
    BY ChainFields DEF TableInv
  <2>2. DOMAIN chains[c].items = 1 .. Len(chains[c].items)
    BY <2>1
  <2> QED BY <1>1, <1>3, <2>2
<1>5. iterator' \in Threads \cup {NULL}
  BY <1>1, EachMoves
<1>6. PICK call \in Call : /\ th' = [th EXCEPT ![t] = call] /\ call.at \in {"app", "each"}
                           /\ call.at = "each" => call.chain > 0
  BY <1>1, EachMoves
<1> QED BY <1>1, <1>4, <1>5, <1>6, TakeKeeps

-----------------------------------------------------------------------------
(* New chains, growth and clearing. *)

\* Who sets finds the chain of its key or makes it.
LEMMA NewChainKeeps ==
    ASSUME ChainsOK, BucketsOK, CountOK, HistoryOK, NEW k \in Keys, ChainOf(k) = 0, NewChain(k),
           UNCHANGED <<count, size, last, lost>>
    PROVE  /\ ChainsOK' /\ BucketsOK' /\ CountOK' /\ HistoryOK' /\ LostKept
           /\ Len(chains) \in Nat /\ Len(chains') = Len(chains) + 1
           /\ \A c \in 1 .. Len(chains) : chains'[c] = chains[c]
<1> DEFINE ch == [hash |-> Hash[k], items |-> <<>>, tail |-> "end", by |-> NULL]
           n == Len(chains)
           i == Slot(Hash[k], size)
<1>1. chains' = Append(chains, ch) /\ buckets' = [buckets EXCEPT ![i] = n + 1]
  BY DEF NewChain
<1>2. Hash[k] \in Nat
  BY HashmapAssumption
<1>3. ch \in Chain /\ ch.hash = Hash[k] /\ Len(ch.items) = 0 /\ Distinct(ch.items)
  <2>1. <<>> \in Seq(Item) /\ Len(<<>>) = 0
    OBVIOUS
  <2>2. ch \in Chain
    BY <1>2, <2>1 DEF Chain
  <2>3. Distinct(ch.items)
    BY DEF Distinct
  <2> QED BY <2>1, <2>2, <2>3
<1>4. /\ i \in 0 .. size - 1 /\ buckets[i] = 0 /\ size \in Nat \ {0}
      /\ \A c \in 1 .. n : Slot(chains[c].hash, size) # i
  <2>1. /\ i \in 0 .. size - 1 /\ buckets[i] = 0 /\ size \in Nat \ {0}
    BY ChainOfKey DEF BucketsOK, ChainOf
  <2>2. \A c \in 1 .. n : buckets[i] # c
    BY <2>1
  <2> QED BY <2>1, <2>2 DEF BucketsOK
<1>5. n \in Nat /\ chains \in Seq(Chain)
  BY DEF ChainsOK
<1> HIDE DEF ch, n
<1>6. /\ chains' \in Seq(Chain) /\ Len(chains') = n + 1 /\ chains'[n + 1] = ch
      /\ \A c \in 1 .. n : chains'[c] = chains[c]
  BY <1>1, <1>3, <1>5 DEF n
<1>7. \A c \in 1 .. n + 1 : c \in 1 .. n \/ c = n + 1
  BY <1>5
<1>8. ChainsOK'
  <2>1. \A c \in 1 .. n : Distinct(chains[c].items)
    BY DEF ChainsOK, n
  <2>2. \A c \in 1 .. n + 1 : Distinct(chains'[c].items)
    BY <1>3, <1>6, <1>7, <2>1
  <2> QED BY <1>6, <2>2 DEF ChainsOK
<1> DEFINE slot == i
<1>9. BucketsOK'
  <2>1. /\ buckets \in [0 .. size - 1 -> 0 .. n]
        /\ \A x \in 0 .. size - 1, c \in 1 .. n : buckets[x] = c <=> Slot(chains[c].hash, size) = x
    BY DEF BucketsOK, n
  <2>2. /\ buckets' \in [0 .. size - 1 -> 0 .. n + 1]
        /\ buckets'[slot] = n + 1
        /\ \A x \in 0 .. size - 1 : x # slot => buckets'[x] = buckets[x] /\ buckets[x] # n + 1
    <3>1. 0 .. n \subseteq 0 .. n + 1 /\ n + 1 \in 0 .. n + 1
      BY <1>5
    <3>2. \A x \in 0 .. size - 1 : buckets[x] \in 0 .. n /\ n + 1 \notin 0 .. n
      BY <1>5, <2>1
    <3> HIDE DEF slot
    <3> QED BY <1>1, <1>4, <2>1, <3>1, <3>2 DEF slot
  <2>3. ASSUME NEW x \in 0 .. size - 1, NEW c \in 1 .. n + 1
        PROVE  buckets'[x] = c <=> Slot(chains'[c].hash, size) = x
    <3>1. CASE c = n + 1
      <4>1. Slot(chains'[c].hash, size) = slot
        BY <1>3, <1>6, <3>1
      <4> HIDE DEF slot
      <4> QED BY <2>2, <3>1, <4>1
    <3>2. CASE c \in 1 .. n
      <4>1. chains'[c] = chains[c] /\ Slot(chains[c].hash, size) # slot /\ c # n + 1
        BY <1>4, <1>5, <1>6, <3>2
      <4> HIDE DEF slot
      <4>2. CASE x = slot
        BY <2>2, <4>1, <4>2
      <4>3. CASE x # slot
        BY <2>1, <2>2, <3>2, <4>1, <4>3
      <4> QED BY <4>2, <4>3
    <3> QED BY <1>7, <3>1, <3>2
  <2> QED BY <1>4, <1>6, <2>2, <2>3 DEF BucketsOK
<1>10. Places' \subseteq Places
  <2> SUFFICES ASSUME NEW p \in Places' PROVE p \in Places
    OBVIOUS
  <2>1. PICK c \in 1 .. n + 1 : p \in {c} \X (1 .. Len(chains'[c].items))
    BY <1>6 DEF Places
  <2>2. c # n + 1
    BY <1>3, <1>6, <2>1
  <2>3. c \in 1 .. n /\ p \in {c} \X (1 .. Len(chains[c].items))
    BY <1>6, <1>7, <2>1, <2>2
  <2> QED BY <2>3, InPlaces DEF n
<1>11. CountOK'
  BY <1>10, CountStays
<1>12. ASSUME NEW x \in Keys PROVE Lookup(x)' = Lookup(x)
  <2> DEFINE home == Slot(Hash[x], size)
  <2>1. home \in 0 .. size - 1 /\ ChainOf(x) = buckets[home] /\ ChainOf(x)' = buckets'[home]
    BY ChainOfKey DEF ChainOf
  <2>2. Lookup(x) = IF ChainOf(x) = 0 THEN Absent ELSE LookIn(chains[ChainOf(x)].items, x)
    BY LookupIsLookIn
  <2>3. Lookup(x)' = IF ChainOf(x)' = 0 THEN Absent ELSE LookIn(chains'[ChainOf(x)'].items, x)
    BY DEF Lookup, LookIn
  <2>4. CASE home = i
    <3>1. ChainOf(x) = 0 /\ ChainOf(x)' = n + 1
      BY <1>1, <1>4, <2>1, <2>4 DEF BucketsOK
    <3>2. LookIn(chains'[n + 1].items, x) = Absent
      <4>1. ch.items \in Seq(Item)
        BY <1>3 DEF Chain
      <4>2. \A j \in 1 .. Len(ch.items) : ch.items[j].key # x
        BY <1>3
      <4> QED BY <1>3, <1>6, <4>1, <4>2, LookInItems
    <3> QED BY <1>5, <2>2, <2>3, <3>1, <3>2
  <2>5. CASE home # i
    <3>1. ChainOf(x)' = ChainOf(x) /\ ChainOf(x) \in 0 .. n
      BY <1>1, <1>4, <2>1, <2>5 DEF BucketsOK, n
    <3>2. ChainOf(x) # 0 => chains'[ChainOf(x)] = chains[ChainOf(x)]
      BY <1>5, <1>6, <3>1
    <3> QED BY <2>2, <2>3, <3>1, <3>2
  <2> QED BY <2>4, <2>5
<1>13. HistoryOK' /\ LostKept
  BY <1>12, HistoryStays
<1> QED BY <1>5, <1>6, <1>8, <1>9, <1>11, <1>13 DEF n

LEMMA SetBeginKeeps ==
    ASSUME TableInv, NEW t \in Threads, NEW op \in Setters, NEW k \in Keys, NEW v \in Values,
           SetBegin(t, op, k, v)
    PROVE  TableInv' /\ LostKept
<1> DEFINE call == [AtHome EXCEPT !.at = "chain", !.op = op, !.key = k, !.val = v,
                        !.chain = IF ChainOf(k) # 0 THEN ChainOf(k) ELSE Len(chains) + 1]
<1>1. /\ th' = [th EXCEPT ![t] = call]
      /\ UNCHANGED <<count, size, iterator, last, lost>>
      /\ IF ChainOf(k) # 0 THEN UNCHANGED <<chains, buckets>> ELSE NewChain(k)
  BY DEF SetBegin
<1>2. ChainsOK /\ BucketsOK /\ CallsOK /\ CountOK /\ HistoryOK
  BY DEF TableInv
<1>3. ChainOf(k) \in 0 .. Len(chains) /\ Len(chains) \in Nat
  BY <1>2, ChainOfKey DEF ChainsOK
<1>4. /\ call \in Call /\ call.at = "chain" /\ call.key = k
      /\ call.chain = IF ChainOf(k) # 0 THEN ChainOf(k) ELSE Len(chains) + 1
  <2>1. AtHome \in Call /\ (IF ChainOf(k) # 0 THEN ChainOf(k) ELSE Len(chains) + 1) \in Nat
    BY <1>3, HomeIsCall
  <2>2. op \in Ops
    BY DEF Ops
  <2> QED BY <2>1, <2>2 DEF Call, AtHome
<1> HIDE DEF call
<1>5. th'[t] = call /\ iterator' \in Threads \cup {NULL}
  BY <1>1, <1>2 DEF CallsOK
<1>6. CASE ChainOf(k) # 0
  <2>1. UNCHANGED <<count, size, buckets, chains, iterator, last, lost>> /\ chains' = chains
    BY <1>1, <1>6
  <2>2. CallOK(t)'
    BY <1>3, <1>4, <1>5, <1>6, <2>1 DEF CallOK
  <2>3. /\ Len(chains') \in Nat /\ Len(chains) <= Len(chains')
        /\ \A u \in Threads : u # t /\ th[u].at = "locked" =>
             chains'[th[u].chain].by = chains[th[u].chain].by /\
             chains'[th[u].chain].items = chains[th[u].chain].items
    BY <1>3, <2>1
  <2>4. CallsOK'
    BY <1>1, <1>2, <1>3, <1>4, <1>5, <2>2, <2>3, OthersKeep
  <2> QED BY <2>1, <2>4, TableStays
<1>7. CASE ChainOf(k) = 0
  <2>1. NewChain(k) /\ UNCHANGED <<count, size, last, lost>>
    BY <1>1, <1>7
  <2>2. /\ ChainsOK' /\ BucketsOK' /\ CountOK' /\ HistoryOK' /\ LostKept
        /\ Len(chains') = Len(chains) + 1
        /\ \A c \in 1 .. Len(chains) : chains'[c] = chains[c]
    BY <1>2, <1>7, <2>1, NewChainKeeps
  <2>3. CallOK(t)'
    <3>1. call.chain \in 1 .. Len(chains')
      BY <1>3, <1>4, <1>7, <2>2
    <3> QED BY <1>4, <1>5, <3>1 DEF CallOK
  <2>4. /\ Len(chains') \in Nat /\ Len(chains) <= Len(chains')
        /\ \A u \in Threads : u # t /\ th[u].at = "locked" =>
             chains'[th[u].chain].by = chains[th[u].chain].by /\
             chains'[th[u].chain].items = chains[th[u].chain].items
    <3>1. \A u \in Threads : th[u].at = "locked" => th[u].chain \in 1 .. Len(chains)
      BY <1>2 DEF CallsOK, CallOK
    <3> QED BY <1>3, <2>2, <3>1
  <2>5. CallsOK'
    BY <1>1, <1>2, <1>3, <1>4, <1>5, <2>3, <2>4, OthersKeep
  <2> QED BY <2>2, <2>5 DEF TableInv
<1> QED BY <1>6, <1>7

\* A bucket of the larger table gets one chain at most, from the bucket whose
\* slot it had before.
LEMMA RefiledOnce ==
    ASSUME ChainsOK, BucketsOK
    PROVE  LET n == 2 * size IN
           /\ n \in Nat \ {0}
           /\ Refiled(n) \in [0 .. n - 1 -> 0 .. Len(chains)]
           /\ \A i \in 0 .. n - 1, c \in 1 .. Len(chains) :
                Refiled(n)[i] = c <=> Slot(chains[c].hash, n) = i
<1> DEFINE n == 2 * size
           R == Refiled(n)
           here(i) == {c \in 1 .. Len(chains) : Slot(chains[c].hash, n) = i}
<1>1. n \in Nat \ {0} /\ size \in Nat \ {0} /\ Len(chains) \in Nat
      /\ DOMAIN chains = 1 .. Len(chains)
  BY DEF BucketsOK, ChainsOK
<1>2. ASSUME NEW c \in 1 .. Len(chains), NEW d \in 1 .. Len(chains),
             Slot(chains[c].hash, n) = Slot(chains[d].hash, n)
      PROVE  c = d
  <2>1. chains[c].hash \in Nat /\ chains[d].hash \in Nat
    BY ChainFields DEF Chain
  <2>2. Slot(chains[c].hash, size) = Slot(chains[d].hash, size)
    <3>1. /\ Slot(chains[c].hash, size) = Slot(Slot(chains[c].hash, n), size)
          /\ Slot(chains[d].hash, size) = Slot(Slot(chains[d].hash, n), size)
      BY <1>1, <2>1, SlotOfTwice
    <3> HIDE DEF n
    <3> QED BY <1>2, <3>1
  <2>3. Slot(chains[c].hash, size) \in 0 .. size - 1
    BY <1>1, <2>1, SlotIsRemainder
  <2>4. buckets[Slot(chains[c].hash, size)] = c /\ buckets[Slot(chains[c].hash, size)] = d
    BY <2>2, <2>3 DEF BucketsOK
  <2> QED BY <2>4
<1>3. \A i \in 0 .. n - 1 : R[i] = IF here(i) = {} THEN 0 ELSE Max(here(i))
  BY <1>1 DEF Refiled
<1>4. DOMAIN Refiled(n) = 0 .. n - 1 /\ Refiled(n) = [i \in 0 .. n - 1 |-> Refiled(n)[i]]
  BY DEF Refiled
<1>5. \A i, c : c \in here(i) <=> c \in 1 .. Len(chains) /\ Slot(chains[c].hash, n) = i
  OBVIOUS
<1> HIDE DEF n, R, here
<1>6. ASSUME NEW i \in 0 .. n - 1, NEW c \in here(i) PROVE R[i] = c
  <2>1. here(i) = {c}
    BY <1>2, <1>5, <1>6
  <2>2. Max({c}) = c
    BY DEF Max
  <2> QED BY <1>3, <2>1, <2>2
<1>7. ASSUME NEW i \in 0 .. n - 1 PROVE R[i] \in 0 .. Len(chains)
  <2>1. CASE here(i) = {}
    BY <1>1, <1>3, <2>1
  <2>2. CASE here(i) # {}
    <3>1. PICK c \in here(i) : TRUE
      BY <2>2
    <3>2. R[i] = c
      BY <1>6
    <3> QED BY <1>5, <3>1, <3>2
  <2> QED BY <2>1, <2>2
<1>8. ASSUME NEW i \in 0 .. n - 1, NEW c \in 1 .. Len(chains)
      PROVE  R[i] = c <=> Slot(chains[c].hash, n) = i
  <2>1. CASE c \in here(i)
    BY <1>5, <1>6, <2>1
  <2>2. CASE c \notin here(i)
    <3>1. Slot(chains[c].hash, n) # i
      BY <1>5, <2>2
    <3>2. CASE here(i) = {}
      BY <1>3, <3>1, <3>2
    <3>3. CASE here(i) # {}
      <4>1. PICK d \in here(i) : TRUE
        BY <3>3
      <4>2. R[i] = d /\ d # c
        BY <1>6, <2>2
      <4> QED BY <3>1, <4>2
    <3> QED BY <3>2, <3>3
  <2> QED BY <2>1, <2>2
<1> QED BY <1>1, <1>4, <1>7, <1>8 DEF n, R

LEMMA GrowKeeps ==
    ASSUME TableInv, NEW t \in Threads, Grow(t)
    PROVE  TableInv' /\ LostKept
<1> DEFINE n == 2 * size
<1>1. ChainsOK /\ BucketsOK /\ CallsOK /\ CountOK /\ HistoryOK
  BY DEF TableInv
<1>2. /\ size' = n /\ buckets' = Refiled(n) /\ Leaves(t)
      /\ lost' = lost \cup {k \in Keys : /\ ChainOf(k) # 0 /\ k \in KeysOn(ChainOf(k))
                                         /\ Slot(Hash[k], n) # Slot(chains[ChainOf(k)].hash, n)}
      /\ UNCHANGED <<count, chains, iterator, last>>
  BY DEF Grow
<1>3. /\ n \in Nat \ {0}
      /\ Refiled(n) \in [0 .. n - 1 -> 0 .. Len(chains)]
      /\ \A i \in 0 .. n - 1, c \in 1 .. Len(chains) :
           Refiled(n)[i] = c <=> Slot(chains[c].hash, n) = i
  BY <1>1, RefiledOnce
<1>4. ChainsOK'
  BY <1>1, <1>2 DEF ChainsOK
<1>5. BucketsOK'
  <2> HIDE DEF n
  <2> QED BY <1>2, <1>3 DEF BucketsOK
<1>6. CountOK'
  BY <1>1, <1>2 DEF CountOK, Places
<1>7. CallsOK'
  <2>1. Len(chains) \in Nat /\ chains' = chains
    BY <1>1, <1>2 DEF ChainsOK
  <2>2. AtHome \in Call /\ AtHome.at = "app" /\ th' = [th EXCEPT ![t] = AtHome]
    BY <1>2, HomeIsCall DEF AtHome, Leaves
  <2>3. th'[t] = AtHome /\ iterator' \in Threads \cup {NULL}
    BY <1>1, <1>2, <2>2 DEF CallsOK
  <2>4. CallOK(t)'
    BY <2>2, <2>3 DEF CallOK
  <2>5. /\ Len(chains') \in Nat /\ Len(chains) <= Len(chains')
        /\ \A u \in Threads : u # t /\ th[u].at = "locked" =>
             chains'[th[u].chain].by = chains[th[u].chain].by /\
             chains'[th[u].chain].items = chains[th[u].chain].items
    BY <2>1
  <2> QED BY <1>1, <2>1, <2>2, <2>3, <2>4, <2>5, OthersKeep
<1>8. ASSUME NEW x \in Keys
      PROVE  /\ Lookup(x)' \in {Lookup(x), Absent}
             /\ x \notin lost' => x \notin lost /\ Lookup(x)' = Lookup(x)
  <2> DEFINE near == Slot(Hash[x], size)
             far == Slot(Hash[x], n)
  <2>1. Hash[x] \in Nat /\ size \in Nat \ {0}
    BY <1>1, HashmapAssumption DEF BucketsOK
  <2>2. far \in 0 .. n - 1 /\ near = Slot(far, size)
    BY <1>3, <2>1, SlotIsRemainder, SlotOfTwice
  <2>3. ChainOf(x) \in 0 .. Len(chains) /\ near \in 0 .. size - 1
        /\ \A c \in 1 .. Len(chains) : ChainOf(x) = c <=> Slot(chains[c].hash, size) = near
    BY <1>1, ChainOfKey
  <2>4. ChainOf(x)' = Refiled(n)[far]
    BY <1>2 DEF ChainOf
  <2>5. \A c \in 1 .. Len(chains) : Slot(chains[c].hash, size) = Slot(Slot(chains[c].hash, n), size)
    <3>1. \A c \in 1 .. Len(chains) : chains[c].hash \in Nat
      BY <1>1, ChainFields DEF Chain
    <3> QED BY <2>1, <3>1, SlotOfTwice
  <2>6. Len(chains) \in Nat
    BY <1>1 DEF ChainsOK
  <2> HIDE DEF near, far, n
  <2>7. ChainOf(x)' \in {0, ChainOf(x)}
    <3>1. ChainOf(x)' \in 0 .. Len(chains)
      BY <1>3, <2>2, <2>4
    <3>2. CASE ChainOf(x)' # 0
      <4>1. PICK c \in 1 .. Len(chains) : c = Refiled(n)[far]
        BY <2>4, <2>6, <3>1, <3>2
      <4>2. Slot(chains[c].hash, n) = far
        BY <1>3, <2>2, <4>1
      <4>3. Slot(chains[c].hash, size) = near
        BY <2>2, <2>5, <4>2
      <4> QED BY <2>3, <2>4, <4>1, <4>3
    <3> QED BY <3>2
  <2>8. Lookup(x) = IF ChainOf(x) = 0 THEN Absent ELSE LookIn(chains[ChainOf(x)].items, x)
    BY LookupIsLookIn
  <2>9. Lookup(x)' = IF ChainOf(x)' = 0 THEN Absent ELSE LookIn(chains[ChainOf(x)'].items, x)
    BY <1>2 DEF Lookup, LookIn
  <2>10. Lookup(x)' \in {Lookup(x), Absent}
    BY <2>7, <2>8, <2>9
  <2>11. ASSUME x \notin lost' PROVE x \notin lost /\ Lookup(x)' = Lookup(x)
    <3>1. x \notin lost
      BY <1>2, <2>11
    <3>2. CASE ChainOf(x) = 0
      BY <2>7, <2>8, <2>9, <3>1, <3>2
    <3>3. CASE ChainOf(x) # 0
      <4>1. PICK c \in 1 .. Len(chains) : c = ChainOf(x)
        BY <2>3, <2>6, <3>3
      <4>2. CASE x \in KeysOn(c)
        <5>1. far = Slot(chains[c].hash, n)
          BY <1>2, <2>11, <3>3, <4>1, <4>2 DEF far
        <5>2. ChainOf(x)' = c
          BY <1>3, <2>2, <2>4, <5>1
        <5> QED BY <2>8, <2>9, <3>1, <4>1, <5>2
      <4>3. CASE x \notin KeysOn(c)
        <5>1. chains[c].items \in Seq(Item) /\ Distinct(chains[c].items)
          BY <1>1, ChainFields
        <5>2. \A i \in 1 .. Len(chains[c].items) : chains[c].items[i].key # x
          <6>1. DOMAIN chains[c].items = 1 .. Len(chains[c].items)
            BY <5>1
          <6> QED BY <4>3, <6>1 DEF KeysOn
        <5>3. Lookup(x) = Absent
          BY <2>8, <3>3, <4>1, <5>1, <5>2, LookInItems
        <5> QED BY <2>10, <3>1, <5>3
      <4> QED BY <4>2, <4>3
    <3> QED BY <3>2, <3>3
  <2> QED BY <2>10, <2>11
<1>9. HistoryOK' /\ LostKept
  <2>1. lost' \subseteq Keys /\ lost \subseteq Keys /\ last' = last
        /\ last \in [Keys -> Values \cup {NULL, Absent}]
    BY <1>1, <1>2 DEF HistoryOK
  <2>2. \A x \in Keys \ lost : Lookup(x) = last[x]
    BY <1>1 DEF HistoryOK, IsAMap
  <2> QED BY <1>8, <2>1, <2>2 DEF HistoryOK, IsAMap, LostKept
<1> QED BY <1>4, <1>5, <1>6, <1>7, <1>9 DEF TableInv

\* An empty table, of whatever size.
LEMMA Emptied ==
    ASSUME size \in Nat \ {0}, buckets = [i \in 0 .. size - 1 |-> 0], chains = <<>>, count = 0,
           last = [k \in Keys |-> Absent], lost = {}
    PROVE  ChainsOK /\ BucketsOK /\ CountOK /\ HistoryOK
<1>1. chains \in Seq(Chain) /\ Len(chains) = 0
  OBVIOUS
<1>2. ChainsOK
  BY <1>1 DEF ChainsOK
<1>3. BucketsOK
  BY <1>1 DEF BucketsOK
<1>4. CountOK
  <2>1. Places = {}
    BY <1>1 DEF Places
  <2>2. IsFiniteSet({}) /\ Cardinality({}) = 0
    BY FS_EmptySet
  <2> QED BY <2>1, <2>2 DEF CountOK
<1>5. HistoryOK
  <2>1. \A k \in Keys : Lookup(k) = Absent
    <3>1. \A k \in Keys : Slot(Hash[k], size) \in 0 .. size - 1
      BY HashmapAssumption, SlotIsRemainder
    <3> QED BY <3>1 DEF Lookup, ChainOf
  <2> QED BY <2>1 DEF HistoryOK, IsAMap
<1> QED BY <1>2, <1>3, <1>4, <1>5

LEMMA ClearKeeps ==
    ASSUME TableInv, NEW t \in Threads, Clear(t)
    PROVE  TableInv' /\ LostKept
<1>1. /\ \A u \in Threads : th[u].at = "app"
      /\ count' = 0 /\ chains' = <<>> /\ buckets' = [i \in DOMAIN buckets |-> 0]
      /\ last' = [k \in Keys |-> Absent] /\ lost' = {}
      /\ UNCHANGED <<size, iterator, th>>
  BY DEF Clear
<1>2. size \in Nat \ {0} /\ DOMAIN buckets = 0 .. size - 1
  BY DEF TableInv, BucketsOK
<1>3. size' \in Nat \ {0} /\ buckets' = [i \in 0 .. size' - 1 |-> 0]
  BY <1>1, <1>2
<1>4. (ChainsOK /\ BucketsOK /\ CountOK /\ HistoryOK)'
  <2>1. (/\ size \in Nat \ {0} /\ buckets = [i \in 0 .. size - 1 |-> 0] /\ chains = <<>>
         /\ count = 0 /\ last = [k \in Keys |-> Absent] /\ lost = {})'
    BY <1>1, <1>3
  <2> QED BY <2>1, Emptied, PTL
<1>5. CallsOK'
  BY <1>1 DEF TableInv, CallsOK, CallOK
<1>6. LostKept
  BY <1>1 DEF LostKept
<1> QED BY <1>4, <1>5, <1>6 DEF TableInv

-----------------------------------------------------------------------------
(* The theorems. *)

LEMMA TableInvInit == Init => TableInv
<1> SUFFICES ASSUME Init PROVE TableInv
  OBVIOUS
<1>1. size \in Nat \ {0} /\ buckets = [i \in 0 .. size - 1 |-> 0] /\ chains = <<>>
      /\ count = 0 /\ last = [k \in Keys |-> Absent] /\ lost = {}
  BY HashmapAssumption DEF Init
<1>2. ChainsOK /\ BucketsOK /\ CountOK /\ HistoryOK
  BY <1>1, Emptied
<1>3. CallsOK
  <2>1. \A t \in Threads : th[t] = AtHome
    BY DEF Init
  <2>2. AtHome \in Call /\ AtHome.at = "app"
    BY HomeIsCall DEF AtHome
  <2>3. \A t \in Threads : CallOK(t)
    BY <2>1, <2>2 DEF CallOK
  <2>4. th \in [Threads -> Call] /\ iterator \in Threads \cup {NULL}
    BY <2>2 DEF Init
  <2> QED BY <2>3, <2>4 DEF CallsOK
<1> QED BY <1>2, <1>3 DEF TableInv

LEMMA TableStep ==
    ASSUME TableInv, [Next]_vars
    PROVE  TableInv' /\ LostKept
<1>1. CASE UNCHANGED vars
  <2>1. UNCHANGED <<count, size, buckets, chains, last, lost>> /\ th' = th /\ iterator' = iterator
        /\ chains' = chains
    BY <1>1 DEF vars
  <2>2. CallsOK'
    BY <2>1 DEF TableInv, CallsOK, CallOK
  <2> QED BY <2>1, <2>2, TableStays
<1>2. ASSUME NEW t \in Threads, NEW k \in Keys, NEW v \in Values, NEW op \in Setters,
             SetBegin(t, op, k, v)
      PROVE  TableInv' /\ LostKept
  BY <1>2, SetBeginKeeps
<1>3. ASSUME NEW t \in Threads, NEW k \in Keys, NEW v \in Values, NEW match \in Values,
             CallBegin(t, "set_if_equals", k, v, match)
      PROVE  TableInv' /\ LostKept
  <2>1. "set_if_equals" \in Ops /\ v \in Values \cup {NULL} /\ match \in Values \cup {NULL}
    BY DEF Ops
  <2> QED BY <1>3, <2>1, CallBeginKeeps
<1>4. ASSUME NEW t \in Threads, NEW k \in Keys, NEW op \in {"get", "unset", "delete"},
             CallBegin(t, op, k, NULL, NULL)
      PROVE  TableInv' /\ LostKept
  <2>1. op \in Ops /\ NULL \in Values \cup {NULL}
    BY DEF Ops
  <2> QED BY <1>4, <2>1, CallBeginKeeps
<1>5. ASSUME NEW t \in Threads, GrowCheck(t) \/ Grow(t) \/ Clear(t)
      PROVE  TableInv' /\ LostKept
  BY <1>5, GrowCheckKeeps, GrowKeeps, ClearKeeps
<1>6. ASSUME NEW t \in Threads, LockChain(t) \/ Insert(t) \/ Delete(t)
      PROVE  TableInv' /\ LostKept
  BY <1>6, LockChainKeeps, InsertKeeps, DeleteKeeps
<1>7. ASSUME NEW t \in Threads,
             \/ InsertFails(t) \/ JustLook(t)
             \/ Replace(t) \/ ReplaceFails(t) \/ Unset(t) \/ ReplaceIf(t)
      PROVE  TableInv' /\ LostKept
  BY <1>7, LockedSectionKeeps
<1>8. ASSUME NEW t \in Threads, EachBegin(t) \/ EachChain(t) \/ EachEnd(t)
      PROVE  TableInv' /\ LostKept
  BY <1>8, EachBeginKeeps, EachChainKeeps
<1>9. ASSUME NEW t \in Threads, NEW j, EachRemoves(t, j)
      PROVE  TableInv' /\ LostKept
  BY <1>9, EachRemovesKeeps
<1>10. CASE Next
  BY <1>2, <1>3, <1>4, <1>5, <1>6, <1>7, <1>8, <1>9, <1>10 DEF Next
<1> QED BY <1>1, <1>10

\* Whatever threads do to the table: no chain holds a key twice, every chain is in
\* the bucket of its hash, who has a chain locked knows what is on it, no more
\* items are there than counted, and every key not lost is found.
THEOREM TableInvariant == Spec => []TableInv
<1>1. TableInv /\ [Next]_vars => TableInv'
  BY TableStep
<1> QED BY <1>1, TableInvInit, PTL DEF Spec

\* Every field of the table, of its chains and of the calls keeps its type; the
\* count never goes below zero.
THEOREM TypeCorrect == Spec => []TypeOK
<1>1. TableInv => TypeOK
  <2> SUFFICES ASSUME TableInv PROVE TypeOK
    OBVIOUS
  <2>1. /\ count \in Nat /\ size \in Nat /\ buckets \in [0 .. size - 1 -> 0 .. Len(chains)]
        /\ iterator \in Threads \cup {NULL}
        /\ last \in [Keys -> Values \cup {NULL, Absent}] /\ lost \subseteq Keys
    BY DEF TableInv, BucketsOK, CallsOK, CountOK, HistoryOK
  <2>2. ASSUME NEW c \in DOMAIN chains
        PROVE  /\ chains[c].hash \in Nat /\ chains[c].tail \in {"end", "none", "adrift"}
               /\ chains[c].by \in Threads \cup {NULL}
               /\ \A j \in DOMAIN chains[c].items : chains[c].items[j] \in Item
    <3>1. c \in 1 .. Len(chains)
      BY DEF TableInv, ChainsOK
    <3>2. chains[c] \in Chain /\ chains[c].items \in Seq(Item)
      BY <3>1, ChainFields DEF TableInv
    <3>3. \A j \in DOMAIN chains[c].items : chains[c].items[j] \in Item
      BY <3>2
    <3> QED BY <3>2, <3>3 DEF Chain
  <2>3. \A t \in Threads : th[t].at = "locked" => chains[th[t].chain].by = t
    BY DEF TableInv, CallsOK, CallOK
  <2> QED BY <2>1, <2>2, <2>3 DEF TypeOK, Item
<1> QED BY <1>1, TableInvariant, PTL

\* Every key that the table has not lost track of is found with the value that was
\* last given to it, by whichever thread.
THEOREM MapKept == Spec => []IsAMap
<1>1. TableInv => IsAMap
  BY DEF TableInv, HistoryOK
<1> QED BY <1>1, TableInvariant, PTL

\* Every chain is in the bucket of its hash and in no other, after every growth.
THEOREM ChainsFiled == Spec => []EveryChainIsFiled
<1>1. TableInv => EveryChainIsFiled
  <2> SUFFICES ASSUME TableInv PROVE EveryChainIsFiled
    OBVIOUS
  <2>1. DOMAIN buckets = 0 .. size - 1 /\ DOMAIN chains = 1 .. Len(chains)
    BY DEF TableInv, BucketsOK, ChainsOK
  <2> QED BY <2>1 DEF TableInv, BucketsOK, EveryChainIsFiled
<1> QED BY <1>1, TableInvariant, PTL

\* A key that is lost and not found is found again only when it is written to.
THEOREM LostStays == Spec => LostStaysLost
<1>1. TableInv /\ [Next]_vars =>
        [\A k \in lost : Lookup(k) = Absent /\ k \in lost' => Lookup(k)' = Absent]_vars
  BY TableStep DEF LostKept
<1> QED BY <1>1, TableInvariant, PTL DEF Spec, LostStaysLost
=============================================================================
