-------------------------- MODULE DsLemmas_proofs --------------------------
(***************************************************************************)
(* What the proofs about the data structures share: remainders, powers of  *)
(* two, and sequences that lose an element.                                *)
(***************************************************************************)
EXTENDS PowersOfTwo, Sequences, FiniteSets, FiniteSetTheorems, SequenceTheorems,
        WellFoundedInduction, SequencesExt, TLAPS

-----------------------------------------------------------------------------
(* Remainders. *)

LEMMA RemainderOf ==
    ASSUME NEW h \in Int, NEW n \in Nat \ {0}
    PROVE  /\ h % n \in 0 .. n - 1
           /\ \E q \in Int : h = q * n + (h % n) /\ (h >= 0 => q >= 0)
<1> DEFINE q == h \div n
           r == h % n
<1>1. r \in 0 .. n - 1 /\ q \in Int /\ h = n * q + r
  OBVIOUS
<1> HIDE DEF q, r
<1>2. h >= 0 => q >= 0
  <2>1. q <= -1 => n * q <= n * (-1)
    BY <1>1
  <2> QED BY <1>1, <2>1
<1>3. n * q = q * n
  BY <1>1
<1>4. q \in Int /\ h = q * n + r /\ (h >= 0 => q >= 0)
  BY <1>1, <1>2, <1>3
<1> QED BY <1>1, <1>4 DEF r

LEMMA RemainderIsUnique ==
    ASSUME NEW n \in Nat \ {0}, NEW q \in Int, NEW p \in Int,
           NEW r \in 0 .. n - 1, NEW s \in 0 .. n - 1, q * n + r = p * n + s
    PROVE  r = s
<1>1. CASE q = p
  BY <1>1
<1>2. CASE q >= p + 1
  <2>1. q * n >= (p + 1) * n
    BY <1>2
  <2>2. (p + 1) * n = p * n + n
    OBVIOUS
  <2> QED BY <2>1, <2>2
<1>3. CASE p >= q + 1
  <2>1. p * n >= (q + 1) * n
    BY <1>3
  <2>2. (q + 1) * n = q * n + n
    OBVIOUS
  <2> QED BY <2>1, <2>2
<1> QED BY <1>1, <1>2, <1>3

LEMMA RemainderIs ==
    ASSUME NEW n \in Nat \ {0}, NEW q \in Int, NEW r \in 0 .. n - 1
    PROVE  (q * n + r) % n = r
<1> DEFINE h == q * n + r
<1>1. h \in Int
  OBVIOUS
<1> HIDE DEF h
<1>2. PICK p \in Int : h = p * n + (h % n)
  BY <1>1, RemainderOf
<1>3. h % n \in 0 .. n - 1
  BY <1>1, RemainderOf
<1>4. h % n = r
  <2> DEFINE s == h % n
  <2>1. s \in 0 .. n - 1 /\ q * n + r = p * n + s
    BY <1>2, <1>3 DEF h
  <2> HIDE DEF s
  <2>2. r = s
    BY <2>1, RemainderIsUnique
  <2> QED BY <2>2 DEF s
<1> QED BY <1>4 DEF h

\* Indices that pass the end once at most.
LEMMA SmallRemainder ==
    ASSUME NEW n \in Nat \ {0}, NEW x \in 0 .. 2 * n - 1
    PROVE  x % n = IF x < n THEN x ELSE x - n
<1>1. CASE x < n
  <2>1. x \in 0 .. n - 1 /\ 0 * n + x = x
    BY <1>1
  <2>2. (0 * n + x) % n = x
    BY <2>1, RemainderIs
  <2> QED BY <1>1, <2>1, <2>2
<1>2. CASE x >= n
  <2>1. x - n \in 0 .. n - 1 /\ 1 * n + (x - n) = x
    BY <1>2
  <2>2. (1 * n + (x - n)) % n = x - n
    BY <2>1, RemainderIs
  <2> QED BY <1>2, <2>1, <2>2
<1> QED BY <1>1, <1>2

-----------------------------------------------------------------------------
(* Powers of two.  That there are as many as subsets tells how they grow. *)

LEMMA LeastNatural ==
    ASSUME NEW S, S \subseteq Nat, S # {}
    PROVE  \E m \in S : \A n \in S : m <= n
<1> DEFINE R == OpToRel(<, Nat)
<1>1. IsWellFoundedOn(R, Nat)
  BY NatLessThanWellFounded
<1>2. PICK m \in S : \A n \in S : <<n, m>> \notin R
  BY <1>1, WFMin
<1> HIDE DEF R
<1>3. ASSUME NEW n \in S
      PROVE  m <= n
  <2>1. m \in Nat /\ n \in Nat
    OBVIOUS
  <2>2. ~(n < m)
    BY <1>2, <2>1 DEF R, OpToRel
  <2> QED BY <2>1, <2>2
<1> QED BY <1>3

LEMMA PowerCounts ==
    ASSUME NEW k \in Nat
    PROVE  /\ IsFiniteSet(SUBSET (1 .. k)) /\ Cardinality(SUBSET (1 .. k)) = 2 ^ k
           /\ 2 ^ k \in Nat
<1> DEFINE S == 1 .. k
<1>1. IsFiniteSet(S) /\ Cardinality(S) = k
  BY FS_Interval
<1> HIDE DEF S
<1>2. IsFiniteSet(SUBSET S) /\ Cardinality(SUBSET S) = 2 ^ k
  BY <1>1, FS_SUBSET
<1>3. Cardinality(SUBSET S) \in Nat
  BY <1>2, FS_CardinalityType
<1> QED BY <1>2, <1>3 DEF S

LEMMA PowerDoubles ==
    ASSUME NEW k \in Nat
    PROVE  2 ^ (k + 1) = 2 * 2 ^ k
<1> DEFINE S == SUBSET (1 .. k)
           T == SUBSET (1 .. k + 1)
           f == [s \in S |-> s \cup {k + 1}]
<1>1. /\ IsFiniteSet(S) /\ Cardinality(S) = 2 ^ k
      /\ IsFiniteSet(T) /\ Cardinality(T) = 2 ^ (k + 1)
      /\ 2 ^ k \in Nat /\ 2 ^ (k + 1) \in Nat
  <2>1. k + 1 \in Nat
    OBVIOUS
  <2> QED BY <2>1, PowerCounts
<1>2. ExistsBijection(S, T \ S)
  <2>1. 1 .. k + 1 = (1 .. k) \cup {k + 1} /\ k + 1 \notin 1 .. k
    OBVIOUS
  <2>2. \A s \in S : s \cup {k + 1} \in T \ S
    BY <2>1
  <2>3. \A a, b \in S : f[a] = f[b] => a = b
    BY <2>1
  <2>4. \A b \in T \ S : \E a \in S : f[a] = b
    <3> SUFFICES ASSUME NEW b \in T \ S PROVE \E a \in S : f[a] = b
      OBVIOUS
    <3>1. b \ {k + 1} \in S /\ k + 1 \in b
      BY <2>1
    <3>2. f[b \ {k + 1}] = b
      BY <3>1
    <3> QED BY <3>1, <3>2
  <2>5. f \in [S -> T \ S] /\ DOMAIN f = S
    BY <2>2
  <2> HIDE DEF S, T, f
  <2>6. f \in Injection(S, T \ S) /\ f \in Surjection(S, T \ S)
    BY <2>3, <2>4, <2>5 DEF Injection, Surjection, IsInjective
  <2> QED BY <2>6 DEF ExistsBijection, Bijection
<1>3. S \subseteq T
  OBVIOUS
<1> HIDE DEF S, T, f
<1>4. Cardinality(T \ S) = Cardinality(S)
  BY <1>1, <1>2, FS_Bijection
<1>5. Cardinality(T \ S) = Cardinality(T) - Cardinality(T \cap S) /\ T \cap S = S
  BY <1>1, <1>3, FS_Difference
<1> QED BY <1>1, <1>4, <1>5

LEMMA PowerIsLarge ==
    ASSUME NEW n \in Nat
    PROVE  n <= 2 ^ n
<1> DEFINE S == 1 .. n
           f == [i \in S |-> {i}]
<1>1. f \in Injection(S, SUBSET S)
  <2>1. f \in [S -> SUBSET S] /\ DOMAIN f = S
    OBVIOUS
  <2>2. \A i, j \in S : f[i] = f[j] => i = j
    <3>1. \A i, j : {i} = {j} => i = j
      OBVIOUS
    <3> QED BY <3>1
  <2> HIDE DEF f, S
  <2> QED BY <2>1, <2>2 DEF Injection, IsInjective
<1>2. IsFiniteSet(SUBSET S) /\ Cardinality(SUBSET S) = 2 ^ n
  BY PowerCounts
<1>3. Cardinality(S) = n
  BY FS_Interval
<1> HIDE DEF S, f
<1>4. Cardinality(S) <= Cardinality(SUBSET S)
  BY <1>1, <1>2, FS_Injection
<1> QED BY <1>2, <1>3, <1>4

LEMMA PowerOfZero == 2 ^ 0 = 1
  OBVIOUS

\* The power of two that is large enough, and the one before it is not.
LEMMA RoundedUp ==
    ASSUME NEW n \in Nat \ {0}
    PROVE  LET p == RoundUpPowOfTwo(n) IN
           \E k \in Nat : p = 2 ^ k /\ p \in Nat \ {0} /\ n <= p /\ (p = 1 \/ p \div 2 < n)
<1> DEFINE Large == {k \in Nat : n <= 2 ^ k}
<1>1. PICK k \in Large : \A j \in Large : k <= j
  <2>1. n \in Large
    BY PowerIsLarge
  <2> QED BY <2>1, LeastNatural
<1>2. k \in 0 .. n /\ n <= 2 ^ k /\ 2 ^ k \in Nat
  BY <1>1, PowerIsLarge, PowerCounts
<1>3. 2 ^ k = 1 \/ (2 ^ k) \div 2 < n
  <2>1. CASE k = 0
    BY <2>1, PowerOfZero
  <2>2. CASE k # 0
    <3>1. k - 1 \in Nat /\ (k - 1) + 1 = k
      BY <1>1, <2>2
    <3>2. 2 ^ k = 2 * 2 ^ (k - 1) /\ 2 ^ (k - 1) \in Nat
      BY <3>1, PowerDoubles, PowerCounts
    <3>3. 2 ^ (k - 1) < n
      BY <1>1, <3>1, <3>2
    <3> QED BY <3>2, <3>3
  <2> QED BY <2>1, <2>2
<1> DEFINE P == {2 ^ j : j \in 0 .. n}
           p == RoundUpPowOfTwo(n)
<1>4. 2 ^ k \in P
  BY <1>2
<1>5. p \in P /\ p >= n /\ (p = 1 \/ p \div 2 < n)
  BY <1>2, <1>3, <1>4 DEF RoundUpPowOfTwo
<1>6. PICK j \in 0 .. n : p = 2 ^ j
  BY <1>5
<1>7. p \in Nat
  <2>1. j \in Nat
    OBVIOUS
  <2>2. 2 ^ j \in Nat
    BY <2>1, PowerCounts
  <2> HIDE DEF p
  <2> QED BY <1>6, <2>2
<1> HIDE DEF p
<1>8. p \in Nat \ {0} /\ n <= p
  BY <1>5, <1>7
<1> QED BY <1>5, <1>6, <1>8 DEF p

-----------------------------------------------------------------------------
(* A sequence that loses an element. *)

LEMMA RemoveAtElements ==
    ASSUME NEW S, NEW s \in Seq(S), NEW f \in 1 .. Len(s)
    PROVE  /\ RemoveAt(s, f) \in Seq(S) /\ Len(RemoveAt(s, f)) = Len(s) - 1
           /\ \A j \in 1 .. Len(s) - 1 :
                RemoveAt(s, f)[j] = IF j < f THEN s[j] ELSE s[j + 1]
<1> DEFINE new == RemoveAt(s, f)
           n == Len(s)
           front == SubSeq(s, 1, f - 1)
           rear == SubSeq(s, f + 1, n)
<1>1. n \in Nat /\ f \in 1 .. n /\ \A j \in 1 .. n : s[j] \in S
  OBVIOUS
<1>2. /\ front \in Seq(S) /\ Len(front) = f - 1
      /\ \A j \in 1 .. f - 1 : front[j] = s[j]
  <2>1. /\ 1 \in Int /\ f - 1 \in Int /\ \A j \in 1 .. f - 1 : s[j] \in S
    BY <1>1
  <2>2. /\ front \in Seq(S) /\ Len(front) = IF 1 <= f - 1 THEN f - 1 - 1 + 1 ELSE 0
        /\ \A j \in 1 .. f - 1 - 1 + 1 : front[j] = s[1 + j - 1]
    BY <2>1, SubSeqProperties
  <2> QED BY <1>1, <2>2
<1>3. /\ rear \in Seq(S) /\ Len(rear) = n - f
      /\ \A j \in 1 .. n - f : rear[j] = s[f + j]
  <2>1. /\ f + 1 \in Int /\ n \in Int /\ \A j \in f + 1 .. n : s[j] \in S
    BY <1>1
  <2>2. /\ rear \in Seq(S) /\ Len(rear) = IF f + 1 <= n THEN n - (f + 1) + 1 ELSE 0
        /\ \A j \in 1 .. n - (f + 1) + 1 : rear[j] = s[f + 1 + j - 1]
    BY <2>1, SubSeqProperties
  <2>3. \A j \in 1 .. n - f : j \in 1 .. n - (f + 1) + 1 /\ f + 1 + j - 1 = f + j
    BY <1>1
  <2> QED BY <1>1, <2>2, <2>3
<1>4. new = front \o rear
  BY DEF RemoveAt
<1> HIDE DEF new, front, rear, n
<1>5. /\ new \in Seq(S) /\ Len(new) = n - 1
      /\ \A j \in 1 .. n - 1 : new[j] = IF j < f THEN s[j] ELSE s[j + 1]
  <2>1. /\ new \in Seq(S) /\ Len(new) = (f - 1) + (n - f)
        /\ \A j \in 1 .. (f - 1) + (n - f) :
             new[j] = IF j <= f - 1 THEN front[j] ELSE rear[j - (f - 1)]
    BY <1>2, <1>3, <1>4, ConcatProperties
  <2>2. (f - 1) + (n - f) = n - 1
    BY <1>1
  <2>3. ASSUME NEW j \in 1 .. n - 1 PROVE new[j] = IF j < f THEN s[j] ELSE s[j + 1]
    <3>1. CASE j < f
      <4>1. j \in 1 .. f - 1 /\ j <= f - 1
        BY <1>1, <3>1
      <4> QED BY <1>2, <2>1, <2>2, <3>1, <4>1
    <3>2. CASE j >= f
      <4>1. j - (f - 1) \in 1 .. n - f /\ ~(j <= f - 1) /\ f + (j - (f - 1)) = j + 1 /\ ~(j < f)
        BY <1>1, <3>2
      <4> QED BY <1>3, <2>1, <2>2, <4>1
    <3> QED BY <1>1, <3>1, <3>2
  <2> QED BY <2>1, <2>2, <2>3
<1> QED BY <1>5 DEF new, n

\* Numbers that differ by a multiple of n have the same remainder.
LEMMA SameRemainder ==
    ASSUME NEW n \in Nat \ {0}, NEW x \in Int, NEW y \in Int, NEW k \in Int, x - y = k * n
    PROVE  x % n = y % n
<1>1. PICK p \in Int : y = p * n + (y % n)
  BY RemainderOf
<1>2. y % n \in 0 .. n - 1
  BY RemainderOf
<1>3. PICK r \in 0 .. n - 1 : r = y % n
  BY <1>2
<1>4. PICK q \in Int : q = p + k
  OBVIOUS
<1>5. q * n = p * n + k * n
  BY <1>4
<1>6. p * n \in Int /\ k * n \in Int /\ q * n \in Int
  OBVIOUS
<1>7. x = q * n + r
  BY <1>1, <1>3, <1>5, <1>6
<1>8. (q * n + r) % n = r
  BY RemainderIs
<1> QED BY <1>3, <1>7, <1>8

\* Numbers that are less than n apart have different remainders.
LEMMA DistinctRemainders ==
    ASSUME NEW n \in Nat \ {0}, NEW x \in Int, NEW y \in Int, x < y, y < x + n
    PROVE  x % n # y % n
<1> SUFFICES ASSUME x % n = y % n PROVE FALSE
  OBVIOUS
<1>1. PICK p \in Int : x = p * n + (x % n)
  BY RemainderOf
<1>2. PICK q \in Int : y = q * n + (y % n)
  BY RemainderOf
<1>3. x % n \in 0 .. n - 1
  BY RemainderOf
<1>4. PICK r \in 0 .. n - 1 : r = x % n /\ r = y % n
  BY <1>3
<1>5. x = p * n + r /\ y = q * n + r
  BY <1>1, <1>2, <1>4
<1>6. CASE q <= p
  <2>1. q * n <= p * n
    BY <1>6
  <2>2. p * n \in Int /\ q * n \in Int
    OBVIOUS
  <2> QED BY <1>5, <2>1, <2>2
<1>7. CASE q >= p + 1
  <2>1. q * n >= (p + 1) * n
    BY <1>7
  <2>2. (p + 1) * n = p * n + n
    OBVIOUS
  <2>3. p * n \in Int /\ q * n \in Int
    OBVIOUS
  <2> QED BY <1>5, <2>1, <2>2, <2>3
<1> QED BY <1>6, <1>7

\* Counting on from a number, the remainders go round.
LEMMA NextRemainder ==
    ASSUME NEW n \in Nat \ {0}, NEW x \in Int, NEW at \in 0 .. n - 1, at = x % n, NEW j \in 0 .. n
    PROVE  (x + j) % n = IF at + j < n THEN at + j ELSE at + j - n
<1>1. PICK q \in Int : x = q * n + (x % n)
  BY RemainderOf
<1>2. PICK y \in 0 .. 2 * n - 1 : y = at + j
  <2>1. at + j \in 0 .. 2 * n - 1
    OBVIOUS
  <2> QED BY <2>1
<1>3. PICK z \in Int : z = x + j
  OBVIOUS
<1>4. PICK w \in Int : w = y
  BY <1>2
<1>5. z - w = q * n
  BY <1>1, <1>2, <1>3, <1>4
<1>6. z % n = w % n
  BY <1>5, SameRemainder
<1>7. y % n = IF y < n THEN y ELSE y - n
  BY SmallRemainder
<1>8. z % n = IF y < n THEN y ELSE y - n
  BY <1>4, <1>6, <1>7
<1> QED BY <1>2, <1>3, <1>8

LEMMA PowersMultiply ==
    ASSUME NEW a \in Nat, NEW b \in Nat
    PROVE  2 ^ (a + b) = 2 ^ a * 2 ^ b
<1> DEFINE Bad == {n \in Nat : 2 ^ (a + n) # 2 ^ a * 2 ^ n}
<1> SUFFICES ASSUME Bad # {} PROVE FALSE
  OBVIOUS
<1>1. PICK m \in Bad : \A n \in Bad : m <= n
  BY LeastNatural
<1>2. m # 0
  <2>1. 2 ^ (a + 0) = 2 ^ a * 2 ^ 0
    <3>1. PICK x \in Nat : x = 2 ^ a
      BY PowerCounts
    <3>2. a + 0 = a /\ x * 1 = x
      OBVIOUS
    <3>3. 2 ^ a * 2 ^ 0 = x
      BY <3>1, <3>2, PowerOfZero
    <3> QED BY <3>1, <3>2, <3>3
  <2> QED BY <2>1
<1>3. PICK n \in Nat : m = n + 1
  BY <1>2
<1>4. n \notin Bad
  BY <1>1, <1>3
<1>5. 2 ^ (a + n) = 2 ^ a * 2 ^ n
  BY <1>4
<1>6. PICK k \in Nat : k = a + n
  OBVIOUS
<1>7. 2 ^ (k + 1) = 2 * 2 ^ k /\ 2 ^ (n + 1) = 2 * 2 ^ n
  BY PowerDoubles
<1>8. PICK x \in Nat, y \in Nat, z \in Nat : x = 2 ^ a /\ y = 2 ^ n /\ z = 2 ^ k
  BY PowerCounts
<1>9. 2 * (x * y) = x * (2 * y)
  OBVIOUS
<1>10. 2 ^ (k + 1) = 2 ^ a * 2 ^ (n + 1)
  BY <1>5, <1>6, <1>7, <1>8, <1>9
<1>11. a + m = k + 1
  BY <1>3, <1>6
<1>12. 2 ^ (a + m) = 2 ^ a * 2 ^ m
  BY <1>3, <1>10, <1>11
<1> QED BY <1>1, <1>12

LEMMA PowerIsPositive ==
    ASSUME NEW k \in Nat
    PROVE  2 ^ k \in Nat \ {0}
<1>1. CASE k = 0
  BY <1>1, PowerOfZero
<1>2. CASE k # 0
  <2>1. k <= 2 ^ k /\ 2 ^ k \in Nat
    BY PowerIsLarge, PowerCounts
  <2> QED BY <1>2, <2>1
<1> QED BY <1>1, <1>2

\* Of two powers of two the smaller divides the larger.
LEMMA PowerDivides ==
    ASSUME NEW a \in Nat, NEW b \in Nat, 2 ^ a < 2 ^ b
    PROVE  \E q \in Nat : 2 ^ b = q * 2 ^ a
<1>1. /\ 2 ^ a \in Nat \ {0} /\ 2 ^ b \in Nat \ {0}
  BY PowerIsPositive
<1>2. a <= b
  <2> SUFFICES ASSUME a > b PROVE FALSE
    OBVIOUS
  <2>1. PICK c \in Nat : a = b + c
    <3>1. a - b \in Nat /\ a = b + (a - b)
      OBVIOUS
    <3> QED BY <3>1
  <2>2. 2 ^ a = 2 ^ b * 2 ^ c
    BY <2>1, PowersMultiply
  <2>3. 2 ^ c \in Nat \ {0}
    BY PowerIsPositive
  <2>4. PICK x \in Nat \ {0}, y \in Nat \ {0}, z \in Nat \ {0} : x = 2 ^ a /\ y = 2 ^ b /\ z = 2 ^ c
    BY <1>1, <2>3
  <2>5. y * z >= y
    OBVIOUS
  <2> QED BY <2>2, <2>4, <2>5
<1>3. PICK c \in Nat : b = c + a
  <2>1. b - a \in Nat /\ b = (b - a) + a
    BY <1>2
  <2> QED BY <2>1
<1>4. 2 ^ b = 2 ^ c * 2 ^ a
  BY <1>3, PowersMultiply
<1>5. 2 ^ c \in Nat
  BY PowerCounts
<1> QED BY <1>4, <1>5
=============================================================================
