-------------------------- MODULE SmallAtomicProofs --------------------------
(***************************************************************************)
(* Atomics narrower than a word are atomics: the properties of the suite   *)
(* MCSmallAtomics, for any widths, any number of threads and calls.        *)
(***************************************************************************)
EXTENDS MCSmallAtomics, FiniteSetTheorems, WellFoundedInduction, TLAPS

-----------------------------------------------------------------------------
(* Powers of two, as the sizes of sets of subsets.                         *)
LEMMA PowerPositive ==
  ASSUME NEW r \in Nat
  PROVE  2^r \in Nat \ {0} /\ r + 1 <= 2^r
<1> DEFINE M == 1..r
           F == [x \in M \cup {0} |-> IF x = 0 THEN {} ELSE {x}]
<1>1. IsFiniteSet(M) /\ Cardinality(M) = r
  BY FS_Interval
<1>2. IsFiniteSet(SUBSET M) /\ Cardinality(SUBSET M) = 2^r
  BY <1>1, FS_SUBSET
<1>3. 2^r \in Nat
  BY <1>2, FS_CardinalityType
<1>4. Cardinality(M \cup {0}) = r + 1
  <2>1. 0 \notin M
    OBVIOUS
  <2> HIDE DEF M
  <2> QED  BY <1>1, <2>1, FS_AddElement
<1>5. F \in Injection(M \cup {0}, SUBSET M)
  BY DEF Injection, IsInjective
<1>6. Cardinality(M \cup {0}) <= Cardinality(SUBSET M)
  BY <1>2, <1>5, FS_Injection
<1> QED  BY <1>2, <1>3, <1>4, <1>6

LEMMA PowerOfNext ==
  ASSUME NEW r \in Nat
  PROVE  2^(r + 1) = 2 * 2^r
<1> DEFINE M == 1..r
           A == SUBSET M
           B == {X \in SUBSET (1..(r + 1)) : r + 1 \in X}
           F == [X \in A |-> X \cup {r + 1}]
<1>1. IsFiniteSet(M) /\ Cardinality(M) = r /\ IsFiniteSet(1..(r + 1)) /\ Cardinality(1..(r + 1)) = r + 1
  BY FS_Interval
<1>2. IsFiniteSet(A) /\ Cardinality(A) = 2^r
  BY <1>1, FS_SUBSET
<1>3. Cardinality(SUBSET (1..(r + 1))) = 2^(r + 1)
  BY <1>1, FS_SUBSET
<1>4. F \in Bijection(A, B)
  <2>1. \A X \in A : F[X] \in B
    OBVIOUS
  <2>2. ASSUME NEW X \in A, NEW Y \in A, F[X] = F[Y] PROVE X = Y
    <3>1. r + 1 \notin X /\ r + 1 \notin Y
      OBVIOUS
    <3>2. X \cup {r + 1} = Y \cup {r + 1}
      BY <2>2
    <3> QED  BY <3>1, <3>2
  <2>3. ASSUME NEW Y \in B PROVE \E X \in A : F[X] = Y
    <3>1. Y \ {r + 1} \in A
      OBVIOUS
    <3>2. F[Y \ {r + 1}] = Y
      BY <3>1
    <3> QED  BY <3>1, <3>2
  <2> QED  BY <2>1, <2>2, <2>3 DEF Bijection, Injection, Surjection, IsInjective
<1>5. IsFiniteSet(B) /\ Cardinality(B) = Cardinality(A)
  BY <1>2, <1>4, FS_Bijection DEF ExistsBijection
<1>6. A \cup B = SUBSET (1..(r + 1)) /\ A \cap B = {}
  <2>1. \A X \in SUBSET (1..(r + 1)) : r + 1 \notin X => X \in A
    OBVIOUS
  <2>2. A \subseteq SUBSET (1..(r + 1)) /\ B \subseteq SUBSET (1..(r + 1))
    OBVIOUS
  <2>3. \A X \in A : r + 1 \notin X
    OBVIOUS
  <2> QED  BY <2>1, <2>2, <2>3
<1>7. Cardinality(A \cup B) = Cardinality(A) + Cardinality(B) - Cardinality(A \cap B)
  BY <1>2, <1>5, FS_Union
<1> HIDE DEF A, B
<1>8. Cardinality({}) = 0
  BY FS_EmptySet
<1>9. 2^r \in Nat
  BY PowerPositive
<1>10. Cardinality(A \cup B) = 2^r + 2^r
  <2>1. Cardinality(A \cap B) = 0
    BY <1>6, <1>8
  <2>2. Cardinality(A) = 2^r /\ Cardinality(B) = 2^r
    BY <1>2, <1>5
  <2>3. ASSUME NEW u, NEW c \in Nat, u = c + c - 0 PROVE u = c + c
    BY <2>3
  <2> QED  BY <1>7, <1>9, <2>1, <2>2, <2>3
<1>11. 2^(r + 1) = 2^r + 2^r
  BY <1>3, <1>6, <1>10
<1> QED  BY <1>9, <1>11

(* The first number of a set, where an induction begins to fail.           *)
LEMMA FirstOf ==
  ASSUME NEW M \in SUBSET Nat, M # {}
  PROVE  \E m \in M : \A k \in M : m <= k
<1> DEFINE Less == OpToRel(<, Nat)
<1>1. IsWellFoundedOn(Less, Nat)
  BY NatLessThanWellFounded
<1>2. \A y, z \in Nat : z < y => <<z, y>> \in Less
  BY DEF OpToRel
<1> HIDE DEF Less
<1>3. PICK m \in M : \A y \in M : ~(<<y, m>> \in Less)
  BY <1>1, WFMin
<1>4. \A k \in M : ~(k < m)
  BY <1>2, <1>3
<1> QED  BY <1>4

-----------------------------------------------------------------------------
(* Division with a remainder.                                              *)
LEMMA Division ==
  ASSUME NEW n \in Int, NEW p \in Nat \ {0}
  PROVE  /\ n \div p \in Int /\ n % p \in Nat /\ n % p < p
         /\ n = p * (n \div p) + (n % p)
OBVIOUS

LEMMA DivisionUnique ==
  ASSUME NEW n \in Int, NEW p \in Nat \ {0}, NEW q \in Int, NEW r \in Nat, r < p, n = p * q + r
  PROVE  n \div p = q /\ n % p = r
<1> DEFINE q2 == n \div p
           r2 == n % p
<1>1. q2 \in Int /\ r2 \in Nat /\ r2 < p /\ n = p * q2 + r2
  BY Division
<1> HIDE DEF q2, r2
<1>2. p * (q - q2) = r2 - r
  BY <1>1
<1>3. ASSUME q - q2 >= 1 PROVE FALSE
  <2>1. p * (q - q2) >= p
    BY <1>1, <1>3
  <2> QED  BY <1>1, <1>2, <2>1
<1>4. ASSUME q - q2 <= 0 - 1 PROVE FALSE
  <2>1. p * (q - q2) <= 0 - p
    BY <1>1, <1>4
  <2> QED  BY <1>1, <1>2, <2>1
<1>5. q = q2
  BY <1>1, <1>3, <1>4
<1>6. r = r2
  BY <1>1, <1>5
<1> QED  BY <1>5, <1>6 DEF q2, r2

\* A remainder by a multiple of p keeps the remainder by p.
LEMMA RemainderTwice ==
  ASSUME NEW n \in Int, NEW p \in Nat \ {0}, NEW c \in Nat \ {0}
  PROVE  (n % (p * c)) % p = n % p
<1> DEFINE pc == p * c
           q == n \div pc
           r == n % pc
           q2 == r \div p
           r2 == r % p
<1>1. pc \in Nat \ {0}
  OBVIOUS
<1>2. q \in Int /\ r \in Nat /\ n = pc * q + r
  <2> HIDE DEF pc
  <2> QED  BY <1>1, Division
<1>3. q2 \in Int /\ r2 \in Nat /\ r2 < p /\ r = p * q2 + r2
  <2> HIDE DEF r
  <2> QED  BY <1>2, Division
<1>4. c * q + q2 \in Int /\ n = p * (c * q + q2) + r2
  <2> HIDE DEF q, r, q2, r2
  <2>1. c * q \in Int /\ pc * q = p * (c * q)
    BY <1>2
  <2> DEFINE cq == c * q
  <2>2. cq \in Int /\ n = p * cq + (p * q2 + r2)
    BY <2>1, <1>2, <1>3
  <2> HIDE DEF cq
  <2>3. cq + q2 \in Int /\ n = p * (cq + q2) + r2
    BY <2>2, <1>3
  <2> QED  BY <2>3 DEF cq
<1>5. n % p = r2
  <2> DEFINE d == c * q + q2
  <2>1. d \in Int /\ n = p * d + r2
    BY <1>4
  <2> HIDE DEF d, r2
  <2> QED  BY <1>3, <2>1, DivisionUnique
<1> QED  BY <1>5

\* Numbers that differ by a multiple of p have the same remainder by p.
LEMMA RemainderShift ==
  ASSUME NEW n \in Int, NEW p \in Nat \ {0}, NEW c \in Int
  PROVE  (n + p * c) % p = n % p
<1> DEFINE q == n \div p
           r == n % p
           d == q + c
           m == n + p * c
<1>1. q \in Int /\ r \in Nat /\ r < p /\ n = p * q + r
  BY Division
<1>2. d \in Int /\ m \in Int /\ m = p * d + r
  <2> HIDE DEF q, r
  <2>1. p * (q + c) = p * q + p * c
    BY <1>1
  <2> QED  BY <1>1, <2>1
<1>3. m % p = r
  <2> HIDE DEF q, r, d, m
  <2> QED  BY <1>1, <1>2, DivisionUnique
<1> QED  BY <1>3

LEMMA SameRemainder ==
  ASSUME NEW p \in Nat \ {0}, NEW a \in Int, NEW b \in Int, a % p = b % p
  PROVE  \E c \in Int : a = b + p * c
<1> DEFINE qa == a \div p
           qb == b \div p
           r == a % p
<1>1. qa \in Int /\ qb \in Int /\ r \in Nat /\ a = p * qa + r /\ b = p * qb + r
  BY Division
<1> HIDE DEF qa, qb, r
<1>2. qa - qb \in Int /\ a = b + p * (qa - qb)
  BY <1>1
<1> QED  BY <1>2

LEMMA RemainderPlus ==
  ASSUME NEW p \in Nat \ {0}, NEW v \in Int, NEW w \in Int, NEW a \in Int, v % p = w % p
  PROVE  (v + a) % p = (w + a) % p /\ (v - a) % p = (w - a) % p
<1>1. PICK c \in Int : v = w + p * c
  BY SameRemainder
<1>2. ASSUME NEW m \in Int, NEW n \in Int, n = m + p * c PROVE n % p = m % p
  BY <1>2, RemainderShift
<1>3. v + a = (w + a) + p * c /\ v - a = (w - a) + p * c
  BY <1>1
<1>4. v + a \in Int /\ v - a \in Int /\ w + a \in Int /\ w - a \in Int
  OBVIOUS
<1>5. (v + a) % p = (w + a) % p
  <2> DEFINE n == v + a
             m == w + a
  <2>1. n \in Int /\ m \in Int /\ n = m + p * c
    BY <1>3, <1>4
  <2> HIDE DEF n, m
  <2>2. n % p = m % p
    BY <1>2, <2>1
  <2> QED  BY <2>2 DEF n, m
<1>6. (v - a) % p = (w - a) % p
  <2> DEFINE n == v - a
             m == w - a
  <2>1. n \in Int /\ m \in Int /\ n = m + p * c
    BY <1>3, <1>4
  <2> HIDE DEF n, m
  <2>2. n % p = m % p
    BY <1>2, <2>1
  <2> QED  BY <2>2 DEF n, m
<1> QED  BY <1>5, <1>6

LEMMA RemainderOfRange ==
  ASSUME NEW p \in Nat \ {0}, NEW a \in 0..(p - 1)
  PROVE  a % p = a
<1>1. a = p * 0 + a /\ a \in Nat /\ a < p /\ 0 \in Int /\ a \in Int
  OBVIOUS
<1> QED  BY <1>1, DivisionUnique
-----------------------------------------------------------------------------
(* The binary digits of a number.                                          *)
Digit(n, i) == (n \div 2^i) % 2

LEMMA PowerDivides ==
  ASSUME NEW i \in Nat, NEW k \in Nat, i <= k
  PROVE  \E c \in Nat \ {0} : 2^k = 2^i * c
<1> DEFINE Goal(d) == \E c \in Nat \ {0} : 2^(i + d) = 2^i * c
           Bad == {d \in Nat : ~Goal(d)}
<1>1. ASSUME Bad # {} PROVE FALSE
  <2>1. PICK m \in Bad : \A d \in Bad : m <= d
    BY <1>1, FirstOf
  <2>2. m # 0
    <3>1. 2^i \in Nat /\ i + 0 = i
      BY PowerPositive
    <3>2. 2^i = 2^i * 1
      BY <3>1
    <3>3. Goal(0)
      BY <3>1, <3>2
    <3> QED  BY <3>3
  <2>3. m - 1 \in Nat /\ Goal(m - 1)
    <3>1. m - 1 \in Nat /\ ~(m <= m - 1)
      BY <2>2
    <3> QED  BY <2>1, <3>1
  <2>4. PICK c \in Nat \ {0} : 2^(i + (m - 1)) = 2^i * c
    BY <2>3
  <2>5. i + (m - 1) \in Nat /\ (i + (m - 1)) + 1 = i + m
    BY <2>3
  <2>6. 2^(i + m) = 2 * 2^(i + (m - 1))
    BY <2>5, PowerOfNext
  <2>7. 2^(i + m) = 2^i * (2 * c) /\ 2 * c \in Nat \ {0}
    BY <2>4, <2>6, PowerPositive
  <2>8. Goal(m)
    BY <2>7
  <2> QED  BY <2>8
<1>2. k - i \in Nat /\ i + (k - i) = k
  OBVIOUS
<1>3. Goal(k - i)
  BY <1>1, <1>2
<1> QED  BY <1>2, <1>3

LEMMA DigitType ==
  ASSUME NEW n \in Int, NEW i \in Nat
  PROVE  n \div 2^i \in Int /\ Digit(n, i) \in {0, 1}
<1>1. n \div 2^i \in Int
  BY PowerPositive, Division
<1> QED  BY <1>1 DEF Digit

\* The digits below k are those of the remainder by 2^k.
LEMMA DigitOfRemainder ==
  ASSUME NEW n \in Int, NEW k \in Nat, NEW i \in Nat, i < k
  PROVE  Digit(n % 2^k, i) = Digit(n, i)
<1> DEFINE p == 2^i
<1>1. p \in Nat \ {0} /\ 2^k \in Nat \ {0}
  BY PowerPositive
<1>2. PICK c \in Nat \ {0} : 2^k = p * (2 * c)
  <2>1. PICK c \in Nat \ {0} : 2^k = 2^(i + 1) * c
    BY PowerDivides
  <2>2. 2^(i + 1) = 2 * p
    BY PowerOfNext
  <2> QED  BY <1>1, <2>1, <2>2
<1> DEFINE q == n \div 2^k
           m == n % 2^k
           x == m \div p
           r == m % p
<1>3. q \in Int /\ m \in Nat /\ n = 2^k * q + m
  BY <1>1, Division
<1>4. x \in Int /\ r \in Nat /\ r < p /\ m = p * x + r
  <2> HIDE DEF p, m
  <2> QED  BY <1>1, <1>3, Division
<1>5. c * q \in Int /\ n = p * (2 * (c * q) + x) + r
  <2> HIDE DEF p, q, m, x, r
  <2>1. c * q \in Int /\ (p * (2 * c)) * q = p * (2 * (c * q))
    BY <1>1, <1>3
  <2> DEFINE cq == c * q
  <2>2. cq \in Int /\ n = p * (2 * cq) + (p * x + r)
    BY <1>2, <1>3, <1>4, <2>1
  <2> HIDE DEF cq
  <2>3. p * (2 * cq) + p * x = p * (2 * cq + x)
    BY <1>1, <1>4, <2>2
  <2>4. n = p * (2 * cq + x) + r
    BY <1>1, <1>4, <2>2, <2>3
  <2> QED  BY <2>2, <2>4 DEF cq
<1> DEFINE h == c * q
           y == 2 * h + x
<1>6. n \div p = y
  <2>1. h \in Int /\ y \in Int /\ n = p * y + r
    BY <1>4, <1>5
  <2> HIDE DEF p, r, y, h
  <2> QED  BY <1>1, <1>4, <2>1, DivisionUnique
<1>7. y % 2 = x % 2
  <2>1. h \in Int
    BY <1>5
  <2> HIDE DEF h, x
  <2> QED  BY <1>4, <2>1
<1> QED  BY <1>6, <1>7 DEF Digit

LEMMA SameDigits ==
  ASSUME NEW k \in Nat, NEW a \in Int, NEW b \in Int, a % 2^k = b % 2^k, NEW i \in Nat, i < k
  PROVE  Digit(a, i) = Digit(b, i)
<1>1. Digit(a % 2^k, i) = Digit(a, i)
  BY DigitOfRemainder
<1>2. Digit(b % 2^k, i) = Digit(b, i)
  BY DigitOfRemainder
<1> QED  BY <1>1, <1>2

\* One digit more.
LEMMA RemainderNext ==
  ASSUME NEW n \in Int, NEW j \in Nat
  PROVE  n % 2^(j + 1) = (n % 2^j) + 2^j * Digit(n, j)
<1> DEFINE p == 2^j
           q == n \div p
           r == n % p
           h == q \div 2
           e == q % 2
<1>1. p \in Nat \ {0} /\ 2^(j + 1) = 2 * p
  BY PowerPositive, PowerOfNext
<1>2. q \in Int /\ r \in Nat /\ r < p /\ n = p * q + r
  <2> HIDE DEF p
  <2> QED  BY <1>1, Division
<1>3. h \in Int /\ e \in {0, 1} /\ q = 2 * h + e
  <2> HIDE DEF q
  <2> QED  BY <1>2
<1> HIDE DEF h, e, q, r, p
<1>4. p * q = (2 * p) * h + p * e
  BY <1>1, <1>3
<1> DEFINE z == p * e + r
<1>5. z \in Nat /\ z < 2 * p
  <2>1. CASE e = 0
    BY <1>1, <1>2, <2>1
  <2>2. CASE e = 1
    BY <1>1, <1>2, <2>2
  <2> QED  BY <1>3, <2>1, <2>2
<1>6. n = (2 * p) * h + z
  <2> DEFINE s == (2 * p) * h
             u == p * e
  <2>1. s \in Int /\ u \in Int /\ n = (s + u) + r
    BY <1>1, <1>2, <1>3, <1>4
  <2> HIDE DEF s, u
  <2>2. n = s + (u + r)
    BY <1>2, <2>1
  <2> QED  BY <2>2 DEF s, u
<1>7. n % (2 * p) = z
  <2> HIDE DEF z
  <2>1. 2 * p \in Nat \ {0}
    BY <1>1
  <2> DEFINE w == 2 * p
  <2>2. w \in Nat \ {0} /\ n = w * h + z /\ z < w
    BY <1>5, <1>6, <2>1
  <2> HIDE DEF w
  <2>3. n % w = z
    BY <1>3, <1>5, <2>2, DivisionUnique
  <2> QED  BY <2>3 DEF w
<1>8. Digit(n, j) = e
  BY DEF Digit, e, q, p
<1>9. n % p = r
  BY DEF r
<1>10. z = r + p * e
  BY <1>1, <1>2, <1>3
<1> QED  BY <1>1, <1>7, <1>8, <1>9, <1>10 DEF p

\* Numbers with the same digits below k have the same remainder by 2^k.
LEMMA DigitsDecide ==
  ASSUME NEW k \in Nat, NEW a \in Int, NEW b \in Int,
         \A i \in 0..(k - 1) : Digit(a, i) = Digit(b, i)
  PROVE  a % 2^k = b % 2^k
<1> DEFINE Bad == {j \in Nat : j <= k /\ a % 2^j # b % 2^j}
<1>1. ASSUME Bad # {} PROVE FALSE
  <2>1. PICK m \in Bad : \A j \in Bad : m <= j
    BY <1>1, FirstOf
  <2>2. m # 0
    <3>1. a % 1 = 0 /\ b % 1 = 0 /\ 2^0 = 1
      <4>1. 2^0 \in Nat \ {0} /\ 2^(0 + 1) = 2 * 2^0
        BY PowerPositive, PowerOfNext
      <4>2. 2^0 = 1
        BY <4>1
      <4> QED  BY <4>2
    <3> QED  BY <3>1
  <2> DEFINE j == m - 1
  <2>3. j \in 0..(k - 1) /\ j \in Nat /\ j + 1 = m /\ ~(m <= j)
    BY <2>2
  <2> HIDE DEF j
  <2>4. a % 2^j = b % 2^j
    BY <2>1, <2>3
  <2>5. a % 2^(j + 1) = (a % 2^j) + 2^j * Digit(a, j)
    BY <2>3, RemainderNext
  <2>6. b % 2^(j + 1) = (b % 2^j) + 2^j * Digit(b, j)
    BY <2>3, RemainderNext
  <2> QED  BY <2>3, <2>4, <2>5, <2>6
<1> QED  BY <1>1

\* There is a number with given digits.
LEMMA NumberWithDigits ==
  ASSUME NEW k \in Nat, NEW g \in [Nat -> {0, 1}]
  PROVE  \E r \in 0..(2^k - 1) : \A i \in 0..(k - 1) : Digit(r, i) = g[i]
<1> DEFINE Goal(j) == \E r \in 0..(2^j - 1) : \A i \in 0..(j - 1) : Digit(r, i) = g[i]
           Bad == {j \in Nat : ~Goal(j)}
<1>1. ASSUME Bad # {} PROVE FALSE
  <2>1. PICK m \in Bad : \A j \in Bad : m <= j
    BY <1>1, FirstOf
  <2>2. m # 0
    <3>1. 2^0 \in Nat \ {0}
      BY PowerPositive
    <3>2. 0 \in 0..(2^0 - 1) /\ \A i \in 0..(0 - 1) : Digit(0, i) = g[i]
      BY <3>1
    <3>3. Goal(0)
      BY <3>2
    <3> QED  BY <3>3
  <2> DEFINE j == m - 1
  <2>3. j \in Nat /\ j + 1 = m /\ ~(m <= j)
    BY <2>2
  <2>4. Goal(j)
    BY <2>1, <2>3
  <2>5. PICK r \in 0..(2^j - 1) : \A i \in 0..(j - 1) : Digit(r, i) = g[i]
    BY <2>4
  <2> HIDE DEF j
  <2> DEFINE p == 2^j
             e == g[j]
             s == p * e + r
  <2>6. p \in Nat \ {0} /\ 2^(j + 1) = 2 * p /\ e \in {0, 1}
    BY <2>3, PowerPositive, PowerOfNext
  <2>7. s \in Nat /\ s < 2 * p
    <3> HIDE DEF p, e
    <3>1. r \in Nat /\ r < p
      BY <2>6 DEF p
    <3>2. CASE e = 0
      BY <2>6, <3>1, <3>2
    <3>3. CASE e = 1
      BY <2>6, <3>1, <3>3
    <3> QED  BY <2>6, <3>2, <3>3
  <2>8. s \div p = e /\ s % p = r
    <3>1. r \in Nat /\ r < p
      BY <2>6
    <3> HIDE DEF p, e
    <3>2. s = p * e + r /\ s \in Int /\ e \in Int
      BY <2>6, <2>7
    <3> HIDE DEF s
    <3> QED  BY <2>6, <3>1, <3>2, DivisionUnique
  <2>9. ASSUME NEW i \in 0..(m - 1) PROVE Digit(s, i) = g[i]
    <3>1. CASE i = j
      <4>1. Digit(s, i) = e % 2
        BY <2>8, <3>1 DEF Digit
      <4>2. e % 2 = e
        BY <2>6
      <4> QED  BY <3>1, <4>1, <4>2
    <3>2. CASE i # j
      <4>1. i \in Nat /\ i \in 0..(j - 1) /\ i < j
        BY <2>3, <3>2
      <4>2. s \in Int
        BY <2>7
      <4> HIDE DEF s
      <4>3. Digit(s % 2^j, i) = Digit(s, i)
        BY <2>3, <4>1, <4>2, DigitOfRemainder
      <4> QED  BY <2>5, <2>8, <4>1, <4>3
    <3> QED  BY <3>1, <3>2
  <2>10. s \in 0..(2^m - 1)
    BY <2>3, <2>6, <2>7
  <2>11. Goal(m)
    <3> HIDE DEF s
    <3> QED  BY <2>9, <2>10
  <2> QED  BY <2>11
<1> QED  BY <1>1
-----------------------------------------------------------------------------
(* The numbers of a width b, signed or not, and what a conversion makes of *)
(* an integer: AtomicOps, with its constants as parameters.                *)
Numbers(b, sg) == IF sg THEN (0 - 2^b \div 2)..(2^b \div 2 - 1) ELSE 0..(2^b - 1)
Rep(b, sg, n) == LET m == n % 2^b
                 IN  IF sg /\ m >= 2^b \div 2 THEN m - 2^b ELSE m

\* Half of the range.
LEMMA HalfRange ==
  ASSUME NEW b \in Nat \ {0}
  PROVE  /\ 2^b \in Nat \ {0} /\ 2^b \div 2 \in Nat /\ 2^b = 2 * (2^b \div 2)
         /\ 2^b \div 2 = 2^(b - 1)
<1> DEFINE j == b - 1
<1>1. j \in Nat /\ j + 1 = b
  OBVIOUS
<1> HIDE DEF j
<1>2. 2^j \in Nat \ {0} /\ 2^b = 2 * 2^j
  BY <1>1, PowerPositive, PowerOfNext
<1>3. 2^b \div 2 = 2^j
  BY <1>2
<1> QED  BY <1>2, <1>3 DEF j

LEMMA NumbersAreInt ==
  ASSUME NEW b \in Nat \ {0}, NEW sg \in BOOLEAN
  PROVE  Numbers(b, sg) \subseteq Int /\ 0 \in Numbers(b, sg)
<1> DEFINE h == 2^b \div 2
<1>1. h \in Nat \ {0} /\ 2^b = 2 * h
  BY HalfRange
<1> HIDE DEF h
<1> QED  BY <1>1 DEF Numbers, h

\* A conversion gives a number of the type that is the same modulo 2^b.
LEMMA RepFacts ==
  ASSUME NEW b \in Nat \ {0}, NEW sg \in BOOLEAN, NEW n \in Int
  PROVE  /\ Rep(b, sg, n) \in Numbers(b, sg) /\ Rep(b, sg, n) \in Int
         /\ Rep(b, sg, n) % 2^b = n % 2^b
<1> DEFINE p == 2^b
           h == p \div 2
           m == n % p
<1>1. p \in Nat \ {0} /\ h \in Nat /\ p = 2 * h
  BY HalfRange
<1>2. m \in Nat /\ m < p
  <2> HIDE DEF p
  <2> QED  BY <1>1, Division
<1>3. Rep(b, sg, n) = IF sg /\ m >= h THEN m - p ELSE m
  BY DEF Rep
<1>4. Numbers(b, sg) = IF sg THEN (0 - h)..(h - 1) ELSE 0..(p - 1)
  BY DEF Numbers
<1> HIDE DEF h, m
<1>5. Rep(b, sg, n) \in Numbers(b, sg) /\ Rep(b, sg, n) \in Int
  <2> HIDE DEF p
  <2> QED  BY <1>1, <1>2, <1>3, <1>4
<1>6. m % p = m
  <2> HIDE DEF p
  <2>1. m \in 0..(p - 1)
    BY <1>1, <1>2
  <2> QED  BY <1>1, <2>1, RemainderOfRange
<1>7. (m - p) % p = m % p
  <2> HIDE DEF p
  <2>1. m - p = m + p * (0 - 1) /\ 0 - 1 \in Int /\ m \in Int
    BY <1>1, <1>2
  <2>2. (m + p * (0 - 1)) % p = m % p
    BY <1>1, <2>1, RemainderShift
  <2> QED  BY <2>1, <2>2
<1>8. Rep(b, sg, n) % p = m
  <2> HIDE DEF p
  <2> QED  BY <1>3, <1>6, <1>7
<1> QED  BY <1>5, <1>8 DEF m

LEMMA NumbersDecided ==
  ASSUME NEW b \in Nat \ {0}, NEW sg \in BOOLEAN, NEW u \in Numbers(b, sg), NEW v \in Numbers(b, sg),
         u % 2^b = v % 2^b
  PROVE  u = v
<1> DEFINE p == 2^b
           h == p \div 2
<1>1. p \in Nat \ {0} /\ h \in Nat /\ p = 2 * h
  BY HalfRange
<1>2. u \in Int /\ v \in Int
  BY NumbersAreInt
<1>3. PICK c \in Int : u = v + p * c
  <2> HIDE DEF h
  <2>1. u % p = v % p
    OBVIOUS
  <2> HIDE DEF p
  <2> QED  BY <1>1, <1>2, <2>1, SameRemainder
<1>4. u - v < p /\ v - u < p
  <2>1. Numbers(b, sg) = IF sg THEN (0 - h)..(h - 1) ELSE 0..(p - 1)
    BY DEF Numbers
  <2> HIDE DEF p, h
  <2> QED  BY <1>1, <2>1
<1> HIDE DEF p, h
<1>5. ASSUME c >= 1 PROVE FALSE
  <2>1. p * c >= p
    BY <1>1, <1>5
  <2> DEFINE z == p * c
  <2>2. z \in Int /\ z >= p /\ u = v + z
    BY <1>1, <1>3, <2>1
  <2> HIDE DEF z
  <2> QED  BY <1>1, <1>2, <1>4, <2>2
<1>6. ASSUME c <= 0 - 1 PROVE FALSE
  <2>1. p * c <= 0 - p
    BY <1>1, <1>6
  <2> DEFINE z == p * c
  <2>2. z \in Int /\ z <= 0 - p /\ u = v + z
    BY <1>1, <1>3, <2>1
  <2> HIDE DEF z
  <2> QED  BY <1>1, <1>2, <1>4, <2>2
<1>7. c = 0
  BY <1>3, <1>5, <1>6
<1> QED  BY <1>1, <1>2, <1>3, <1>7

LEMMA RepSame ==
  ASSUME NEW b \in Nat \ {0}, NEW sg \in BOOLEAN, NEW v \in Numbers(b, sg)
  PROVE  Rep(b, sg, v) = v
<1>1. v \in Int
  BY NumbersAreInt
<1>2. Rep(b, sg, v) \in Numbers(b, sg) /\ Rep(b, sg, v) % 2^b = v % 2^b
  BY <1>1, RepFacts
<1> QED  BY <1>2, NumbersDecided

\* A conversion to a larger type keeps the value modulo the smaller range.
LEMMA RepWider ==
  ASSUME NEW k \in Nat \ {0}, NEW b \in Nat \ {0}, k <= b, NEW sg \in BOOLEAN, NEW n \in Int
  PROVE  Rep(b, sg, n) % 2^k = n % 2^k
<1>1. Rep(b, sg, n) \in Int /\ Rep(b, sg, n) % 2^b = n % 2^b
  BY RepFacts
<1>2. PICK c \in Nat \ {0} : 2^b = 2^k * c
  BY PowerDivides
<1> DEFINE r == Rep(b, sg, n)
<1>3. r \in Int /\ r % (2^k * c) = n % (2^k * c)
  BY <1>1, <1>2
<1> HIDE DEF r
<1>4. (r % (2^k * c)) % 2^k = r % 2^k /\ (n % (2^k * c)) % 2^k = n % 2^k
  BY <1>3, PowerPositive, RemainderTwice
<1>5. r % 2^k = n % 2^k
  BY <1>3, <1>4
<1> QED  BY <1>5 DEF r

\* The values an operation per bit may choose from have one with the digits g.
LEMMA ValueWithDigits ==
  ASSUME NEW b \in Nat \ {0}, NEW sg \in BOOLEAN, NEW g \in [Nat -> {0, 1}]
  PROVE  \E v \in Numbers(b, sg) : \A i \in 0..(b - 1) : Digit(v, i) = g[i]
<1>1. PICK r \in 0..(2^b - 1) : \A i \in 0..(b - 1) : Digit(r, i) = g[i]
  BY NumberWithDigits
<1>2. r \in Int
  OBVIOUS
<1>3. /\ Rep(b, sg, r) \in Numbers(b, sg) /\ Rep(b, sg, r) \in Int
      /\ Rep(b, sg, r) % 2^b = r % 2^b
  BY <1>2, RepFacts
<1>4. \A i \in 0..(b - 1) : Digit(Rep(b, sg, r), i) = Digit(r, i)
  BY <1>2, <1>3, SameDigits
<1> QED  BY <1>1, <1>3, <1>4
-----------------------------------------------------------------------------
(* The operations per bit.                                                 *)
OfDigits(op, x, y) ==
  CASE op = "and" -> x * y
    [] op = "or"  -> x + y - x * y
    [] op = "xor" -> (x + y) % 2

\* r is what op makes of v and a in a width b.
PerDigit(b, sg, op, v, a, r) ==
  /\ r \in Numbers(b, sg)
  /\ \A i \in 0..(b - 1) : Digit(r, i) = OfDigits(op, Digit(v, i), Digit(a, i))

LEMMA PerDigitExists ==
  ASSUME NEW b \in Nat \ {0}, NEW sg \in BOOLEAN, NEW op \in {"and", "or", "xor"},
         NEW v \in Int, NEW a \in Int
  PROVE  \E r \in Numbers(b, sg) : PerDigit(b, sg, op, v, a, r)
<1> DEFINE g == [i \in Nat |-> OfDigits(op, Digit(v, i), Digit(a, i))]
<1>1. ASSUME NEW i \in Nat PROVE OfDigits(op, Digit(v, i), Digit(a, i)) \in {0, 1}
  <2>1. \A x, y \in {0, 1} : x * y \in {0, 1} /\ x + y - x * y \in {0, 1} /\ (x + y) % 2 \in {0, 1}
    OBVIOUS
  <2>2. Digit(v, i) \in {0, 1} /\ Digit(a, i) \in {0, 1}
    BY DigitType
  <2> QED  BY <2>1, <2>2 DEF OfDigits
<1>2. g \in [Nat -> {0, 1}]
  BY <1>1
<1>3. PICK r \in Numbers(b, sg) : \A i \in 0..(b - 1) : Digit(r, i) = g[i]
  <2> HIDE DEF g
  <2> QED  BY <1>2, ValueWithDigits
<1> QED  BY <1>3 DEF PerDigit

\* The bits of AtomicOps are the digits.
LEMMA BitIsDigit ==
  ASSUME NEW b \in Nat \ {0}, NEW n \in Int
  PROVE  \A i \in 0..(b - 1) : ((n % 2^b) \div 2^i) % 2 = Digit(n, i)
<1> SUFFICES ASSUME NEW i \in 0..(b - 1) PROVE ((n % 2^b) \div 2^i) % 2 = Digit(n, i)
  OBVIOUS
<1>1. Digit(n % 2^b, i) = Digit(n, i)
  BY DigitOfRemainder
<1> QED  BY <1>1 DEF Digit

\* The operation on a proxy and the one on the small value.
LEMMA PerDigitAgrees ==
  ASSUME NEW k \in Nat \ {0}, NEW b \in Nat \ {0}, k <= b, NEW sg \in BOOLEAN, NEW op,
         NEW v \in Int, NEW a \in Int, NEW v2 \in Int, NEW a2 \in Int, NEW r, NEW r2,
         v2 % 2^k = v % 2^k, a2 % 2^k = a % 2^k,
         PerDigit(b, sg, op, v, a, r), PerDigit(k, sg, op, v2, a2, r2)
  PROVE  Rep(k, sg, r) = r2
<1>1. r \in Int /\ r2 \in Int /\ r2 \in Numbers(k, sg)
  BY NumbersAreInt DEF PerDigit
<1>2. /\ Rep(k, sg, r) \in Numbers(k, sg) /\ Rep(k, sg, r) \in Int
      /\ Rep(k, sg, r) % 2^k = r % 2^k
  BY <1>1, RepFacts
<1>3. \A i \in 0..(k - 1) : Digit(v2, i) = Digit(v, i) /\ Digit(a2, i) = Digit(a, i)
  BY SameDigits
<1>4. \A i \in 0..(k - 1) : Digit(r, i) = Digit(r2, i)
  BY <1>3 DEF PerDigit
<1>5. r % 2^k = r2 % 2^k
  BY <1>1, <1>4, DigitsDecide
<1> QED  BY <1>1, <1>2, <1>5, NumbersDecided

\* The mask has the digits 1 below k, and "and" with it keeps them.
LEMMA MaskKeeps ==
  ASSUME NEW k \in Nat \ {0}, NEW b \in Nat \ {0}, k <= b, NEW sg \in BOOLEAN,
         NEW v \in Int, NEW a \in Int, NEW r, a % 2^k = (2^k - 1) % 2^k,
         PerDigit(b, sg, "and", v, a, r)
  PROVE  r % 2^k = v % 2^k
<1>1. r \in Int
  BY NumbersAreInt DEF PerDigit
<1>2. ASSUME NEW i \in 0..(k - 1) PROVE Digit(a, i) = 1
  <2> DEFINE p == 2^i
             n == 2^k - 1
  <2>1. p \in Nat \ {0} /\ 2^(i + 1) = 2 * p /\ 2^k \in Nat \ {0}
    BY PowerPositive, PowerOfNext
  <2>2. PICK c \in Nat \ {0} : 2^k = 2^(i + 1) * c
    <3>1. i + 1 \in Nat /\ i + 1 <= k
      OBVIOUS
    <3> QED  BY <3>1, PowerDivides
  <2> HIDE DEF p
  <2>3. n = p * (2 * c - 1) + (p - 1)
    BY <2>1, <2>2
  <2>4. n \div p = 2 * c - 1
    <3> DEFINE q == 2 * c - 1
               s == p - 1
    <3>1. n \in Int /\ q \in Int /\ s \in Nat /\ s < p /\ n = p * q + s
      BY <2>1, <2>3
    <3> HIDE DEF n, q, s
    <3>2. n \div p = q
      BY <2>1, <3>1, DivisionUnique
    <3> QED  BY <3>2 DEF q
  <2>5. Digit(n, i) = 1
    <3>1. (2 * c - 1) % 2 = 1
      OBVIOUS
    <3> QED  BY <2>4, <3>1 DEF Digit, p
  <2>6. Digit(a, i) = Digit(n, i)
    <3>1. n \in Int /\ a % 2^k = n % 2^k
      BY <2>1
    <3> HIDE DEF n
    <3> QED  BY <3>1, SameDigits
  <2> QED  BY <2>5, <2>6
<1>3. \A i \in 0..(k - 1) : Digit(r, i) = Digit(v, i)
  <2> SUFFICES ASSUME NEW i \in 0..(k - 1) PROVE Digit(r, i) = Digit(v, i)
    OBVIOUS
  <2>1. Digit(r, i) = Digit(v, i) * 1
    BY <1>2 DEF PerDigit, OfDigits
  <2> QED  BY <2>1, DigitType
<1> QED  BY <1>1, <1>3, DigitsDecide

\* From bit k - 1 on a signed number of k bits has its sign.
LEMMA SignDigits ==
  ASSUME NEW k \in Nat \ {0}, NEW v \in Numbers(k, TRUE), NEW i \in Nat, k - 1 <= i
  PROVE  Digit(v, i) = Digit(v, k - 1)
<1> DEFINE h == 2^(k - 1)
<1>1. /\ k - 1 \in Nat /\ h \in Nat \ {0} /\ v \in Int
      /\ 0 - h <= v /\ v < h
  BY HalfRange, PowerPositive DEF Numbers
<1>2. ASSUME NEW j \in Nat, k - 1 <= j PROVE v \div 2^j = IF v < 0 THEN 0 - 1 ELSE 0
  <2>1. PICK c \in Nat \ {0} : 2^j = h * c
    BY <1>1, <1>2, PowerDivides
  <2> DEFINE p == 2^j
  <2>2. p \in Nat \ {0}
    BY PowerPositive
  <2>3. h <= p
    <3> HIDE DEF h
    <3> QED  BY <1>1, <2>1
  <2> HIDE DEF h, p
  <2>4. CASE v < 0
    <3>1. v = p * (0 - 1) + (v + p) /\ v + p \in Nat /\ v + p < p /\ 0 - 1 \in Int
      BY <1>1, <2>2, <2>3, <2>4
    <3> DEFINE s == v + p
    <3>2. v = p * (0 - 1) + s /\ s \in Nat /\ s < p
      BY <3>1
    <3> HIDE DEF s
    <3>3. v \div p = 0 - 1
      BY <1>1, <2>2, <3>1, <3>2, DivisionUnique
    <3> QED  BY <2>4, <3>3 DEF p
  <2>5. CASE ~(v < 0)
    <3>1. v = p * 0 + v /\ v \in Nat /\ v < p /\ 0 \in Int
      BY <1>1, <2>2, <2>3, <2>5
    <3>2. v \div p = 0
      BY <1>1, <2>2, <3>1, DivisionUnique
    <3> QED  BY <2>5, <3>2 DEF p
  <2> QED  BY <2>4, <2>5
<1>3. v \div 2^i = v \div 2^(k - 1)
  BY <1>1, <1>2
<1> QED  BY <1>3 DEF Digit

\* Operations per bit do not leave the signed numbers of k bits.
LEMMA SignedStays ==
  ASSUME NEW k \in Nat \ {0}, NEW b \in Nat \ {0}, k <= b, NEW op,
         NEW v \in Numbers(k, TRUE), NEW a \in Numbers(k, TRUE), NEW r,
         PerDigit(b, TRUE, op, v, a, r)
  PROVE  r \in Numbers(k, TRUE)
<1> DEFINE s == Rep(k, TRUE, r)
<1>1. r \in Int /\ r \in Numbers(b, TRUE)
  BY NumbersAreInt DEF PerDigit
<1>2. s \in Numbers(k, TRUE) /\ s \in Int /\ s % 2^k = r % 2^k
  BY <1>1, RepFacts
<1> HIDE DEF s
<1>3. \A i \in 0..(k - 1) : Digit(s, i) = Digit(r, i)
  BY <1>1, <1>2, SameDigits
<1>4. ASSUME NEW i \in 0..(b - 1) PROVE Digit(s, i) = Digit(r, i)
  <2>1. CASE i < k
    BY <1>3, <2>1
  <2>2. CASE k <= i
    <3>1. i \in Nat /\ k - 1 <= i /\ k - 1 \in 0..(k - 1) /\ k - 1 \in 0..(b - 1)
      BY <2>2
    <3>2. Digit(s, i) = Digit(s, k - 1) /\ Digit(v, i) = Digit(v, k - 1) /\ Digit(a, i) = Digit(a, k - 1)
      BY <1>2, <3>1, SignDigits
    <3>3. Digit(r, i) = Digit(r, k - 1)
      BY <3>1, <3>2 DEF PerDigit
    <3> QED  BY <1>3, <3>1, <3>2, <3>3
  <2> QED  BY <2>1, <2>2
<1>5. s % 2^b = r % 2^b
  BY <1>1, <1>2, <1>4, DigitsDecide
<1>6. s \in Numbers(b, TRUE)
  <2>1. PICK c \in Nat \ {0} : 2^(b - 1) = 2^(k - 1) * c
    BY PowerDivides
  <2> DEFINE h == 2^(k - 1)
             g == 2^(b - 1)
  <2>2. h \in Nat \ {0} /\ g \in Nat /\ g = h * c
    BY <2>1, PowerPositive
  <2>3. 2^k \div 2 = h /\ 2^b \div 2 = g
    BY HalfRange
  <2>4. h <= g
    <3> HIDE DEF h, g
    <3> QED  BY <2>2
  <2>5. Numbers(k, TRUE) = (0 - h)..(h - 1) /\ Numbers(b, TRUE) = (0 - g)..(g - 1)
    BY <2>3 DEF Numbers
  <2> HIDE DEF h, g
  <2>6. s \in (0 - h)..(h - 1)
    BY <1>2, <2>5
  <2>7. g \in Int /\ h \in Int
    BY <2>2
  <2>8. s \in (0 - g)..(g - 1)
    BY <2>4, <2>6, <2>7
  <2> QED  BY <2>5, <2>8
<1>7. s = r
  BY <1>1, <1>5, <1>6, NumbersDecided
<1> QED  BY <1>2, <1>7
-----------------------------------------------------------------------------
(* What an update leaves, in a width b.                                    *)
LEMMA NumbersGrow ==
  ASSUME NEW k \in Nat \ {0}, NEW b \in Nat \ {0}, k <= b, NEW sg \in BOOLEAN
  PROVE  Numbers(k, sg) \subseteq Numbers(b, sg)
<1> DEFINE h == 2^k \div 2
           g == 2^b \div 2
<1>1. PICK c \in Nat \ {0} : 2^(b - 1) = 2^(k - 1) * c
  <2>1. b - 1 \in Nat /\ k - 1 \in Nat /\ k - 1 <= b - 1
    OBVIOUS
  <2> QED  BY <2>1, PowerDivides
<1>2. /\ h \in Nat /\ 2^k = 2 * h /\ h = 2^(k - 1)
      /\ g \in Nat /\ 2^b = 2 * g /\ g = 2^(b - 1)
  BY HalfRange
<1>3. h <= g
  <2>1. g = h * c
    BY <1>1, <1>2
  <2> HIDE DEF h, g
  <2> QED  BY <1>2, <2>1
<1>4. /\ Numbers(k, sg) = IF sg THEN (0 - h)..(h - 1) ELSE 0..(2 * h - 1)
      /\ Numbers(b, sg) = IF sg THEN (0 - g)..(g - 1) ELSE 0..(2 * g - 1)
  BY <1>2 DEF Numbers
<1> HIDE DEF h, g
<1> QED  BY <1>2, <1>3, <1>4

UpdateOps == {"load", "store", "exchange", "add", "sub", "and", "or", "xor", "max", "min"}
BitOps == {"and", "or", "xor"}
CompareOps == {"weak", "strong"}

\* r is what the update op with argument a makes of v.
IsUpdate(b, sg, op, v, a, r) ==
  /\ op = "load" => r = v
  /\ op \in {"store", "exchange"} => r = a
  /\ op = "add" => r = Rep(b, sg, v + a)
  /\ op = "sub" => r = Rep(b, sg, v - a)
  /\ op \in BitOps => PerDigit(b, sg, op, v, a, r)
  /\ op = "max" => r = IF v > a THEN v ELSE a
  /\ op = "min" => r = IF v < a THEN v ELSE a

\* An update stays within its width.
LEMMA UpdateType ==
  ASSUME NEW b \in Nat \ {0}, NEW sg \in BOOLEAN, NEW op \in UpdateOps,
         NEW v \in Numbers(b, sg), NEW a \in Numbers(b, sg), NEW r, IsUpdate(b, sg, op, v, a, r)
  PROVE  r \in Numbers(b, sg)
<1>1. v \in Int /\ a \in Int
  BY NumbersAreInt
<1>2. Rep(b, sg, v + a) \in Numbers(b, sg) /\ Rep(b, sg, v - a) \in Numbers(b, sg)
  <2>1. v + a \in Int /\ v - a \in Int
    BY <1>1
  <2> QED  BY <2>1, RepFacts
<1>3. CASE op \in BitOps
  BY <1>3 DEF IsUpdate, PerDigit
<1>4. CASE op \in {"max", "min"}
  BY <1>4 DEF IsUpdate
<1>5. CASE op \in {"load", "store", "exchange", "add", "sub"}
  BY <1>2, <1>5 DEF IsUpdate
<1> QED  BY <1>3, <1>4, <1>5 DEF UpdateOps, BitOps

\* An update that does not compare acts on the proxy as on the small value.
LEMMA UpdateAgrees ==
  ASSUME NEW k \in Nat \ {0}, NEW b \in Nat \ {0}, k <= b, NEW sg \in BOOLEAN,
         NEW op \in UpdateOps \ {"max", "min"},
         NEW v \in Int, NEW a \in Numbers(k, sg), NEW r, NEW r2,
         IsUpdate(b, sg, op, v, a, r), IsUpdate(k, sg, op, Rep(k, sg, v), a, r2)
  PROVE  Rep(k, sg, r) = r2
<1> DEFINE w == Rep(k, sg, v)
<1>1. a \in Int /\ w \in Int /\ w \in Numbers(k, sg) /\ w % 2^k = v % 2^k
  BY NumbersAreInt, RepFacts
<1>2. Rep(k, sg, a) = a
  BY RepSame
<1>3. CASE op \in {"load", "store", "exchange"}
  BY <1>2, <1>3 DEF IsUpdate
<1>4. ASSUME NEW n \in Int, NEW m \in Int, n % 2^k = m % 2^k
      PROVE  Rep(k, sg, Rep(b, sg, n)) = Rep(k, sg, m)
  <2>1. Rep(b, sg, n) \in Int /\ Rep(b, sg, n) % 2^k = n % 2^k
    <3>1. Rep(b, sg, n) \in Int
      BY RepFacts
    <3> QED  BY <3>1, RepWider
  <2>2. Rep(k, sg, Rep(b, sg, n)) \in Numbers(k, sg) /\ Rep(k, sg, Rep(b, sg, n)) % 2^k = Rep(b, sg, n) % 2^k
    BY <2>1, RepFacts
  <2>3. Rep(k, sg, m) \in Numbers(k, sg) /\ Rep(k, sg, m) % 2^k = m % 2^k
    BY RepFacts
  <2> QED  BY <1>4, <2>1, <2>2, <2>3, NumbersDecided
<1>5. v + a \in Int /\ v - a \in Int /\ w + a \in Int /\ w - a \in Int
  BY <1>1
<1>6. (v + a) % 2^k = (w + a) % 2^k /\ (v - a) % 2^k = (w - a) % 2^k
  <2> HIDE DEF w
  <2> QED  BY <1>1, PowerPositive, RemainderPlus
<1>7. CASE op = "add"
  <2>1. r = Rep(b, sg, v + a) /\ r2 = Rep(k, sg, w + a)
    BY <1>7 DEF IsUpdate
  <2> HIDE DEF w
  <2> QED  BY <1>4, <1>5, <1>6, <2>1
<1>8. CASE op = "sub"
  <2>1. r = Rep(b, sg, v - a) /\ r2 = Rep(k, sg, w - a)
    BY <1>8 DEF IsUpdate
  <2> HIDE DEF w
  <2> QED  BY <1>4, <1>5, <1>6, <2>1
<1>9. CASE op \in BitOps
  <2>1. PerDigit(b, sg, op, v, a, r) /\ PerDigit(k, sg, op, w, a, r2)
    BY <1>9 DEF IsUpdate
  <2> HIDE DEF w
  <2>2. a % 2^k = a % 2^k
    OBVIOUS
  <2> QED  BY <1>1, <2>1, <2>2, PerDigitAgrees
<1> QED  BY <1>3, <1>7, <1>8, <1>9 DEF UpdateOps, BitOps

\* Without add and sub a signed proxy stays the small value.
LEMMA SignedUpdateStays ==
  ASSUME NEW k \in Nat \ {0}, NEW b \in Nat \ {0}, k <= b, NEW op \in UpdateOps \ {"add", "sub"},
         NEW v \in Numbers(k, TRUE), NEW a \in Numbers(k, TRUE), NEW r, IsUpdate(b, TRUE, op, v, a, r)
  PROVE  r \in Numbers(k, TRUE)
<1>1. CASE op \in BitOps
  <2>1. PerDigit(b, TRUE, op, v, a, r)
    BY <1>1 DEF IsUpdate
  <2> QED  BY <2>1, SignedStays
<1>2. CASE op \in {"max", "min", "load", "store", "exchange"}
  BY <1>2 DEF IsUpdate
<1> QED  BY <1>1, <1>2 DEF UpdateOps, BitOps

\* A mask has the digits 1 below k.
IsMask(k, a) == a % 2^k = (2^k - 1) % 2^k

\* It cleans a proxy.
LEMMA Cleaned ==
  ASSUME NEW k \in Nat \ {0}, NEW b \in Nat \ {0}, k <= b, NEW sg \in BOOLEAN,
         NEW v \in Int, NEW a \in Int, NEW r, IsMask(k, a),
         IsUpdate(b, sg, "and", v, a, r)
  PROVE  Rep(k, sg, r) = Rep(k, sg, v)
<1>1. PerDigit(b, sg, "and", v, a, r)
  BY DEF IsUpdate, BitOps
<1>2. r \in Int
  BY <1>1, NumbersAreInt DEF PerDigit
<1>3. r % 2^k = v % 2^k
  BY <1>1, MaskKeeps DEF IsMask
<1>4. /\ Rep(k, sg, r) \in Numbers(k, sg) /\ Rep(k, sg, r) % 2^k = r % 2^k
      /\ Rep(k, sg, v) \in Numbers(k, sg) /\ Rep(k, sg, v) % 2^k = v % 2^k
  BY <1>2, RepFacts
<1> QED  BY <1>3, <1>4, NumbersDecided

\* What the conversion makes of 2^k - 1 is one.
LEMMA MaskDigits ==
  ASSUME NEW k \in Nat \ {0}, NEW b \in Nat \ {0}, k <= b, NEW sg \in BOOLEAN
  PROVE  /\ Rep(b, sg, 2^k - 1) \in Numbers(b, sg) /\ Rep(b, sg, 2^k - 1) \in Int
         /\ IsMask(k, Rep(b, sg, 2^k - 1))
<1> DEFINE n == 2^k - 1
<1>1. n \in Int
  BY PowerPositive
<1> HIDE DEF n
<1>2. Rep(b, sg, n) \in Numbers(b, sg) /\ Rep(b, sg, n) \in Int
  BY <1>1, RepFacts
<1>3. Rep(b, sg, n) % 2^k = n % 2^k
  BY <1>1, RepWider
<1> QED  BY <1>2, <1>3 DEF n, IsMask
-----------------------------------------------------------------------------
(* The operations per bit choose a value: one of M, for a width b.         *)
BitAt(b, n, i) == ((n % 2^b) \div 2^i) % 2
ChosenAnd(M, b, v, a) ==
  CHOOSE x \in M : \A i \in 0..(b - 1) : BitAt(b, x, i) = BitAt(b, v, i) * BitAt(b, a, i)
ChosenOr(M, b, v, a) ==
  CHOOSE x \in M : \A i \in 0..(b - 1) :
    BitAt(b, x, i) = BitAt(b, v, i) + BitAt(b, a, i) - BitAt(b, v, i) * BitAt(b, a, i)
ChosenXor(M, b, v, a) ==
  CHOOSE x \in M : \A i \in 0..(b - 1) : BitAt(b, x, i) = (BitAt(b, v, i) + BitAt(b, a, i)) % 2

LEMMA ChosenBits ==
  ASSUME NEW b \in Nat \ {0}, NEW sg \in BOOLEAN, NEW M, M = Numbers(b, sg), NEW v \in Int, NEW a \in Int
  PROVE  /\ PerDigit(b, sg, "and", v, a, ChosenAnd(M, b, v, a))
         /\ PerDigit(b, sg, "or", v, a, ChosenOr(M, b, v, a))
         /\ PerDigit(b, sg, "xor", v, a, ChosenXor(M, b, v, a))
<1>1. M \subseteq Int
  BY NumbersAreInt
<1>2. ASSUME NEW n \in Int, NEW i \in 0..(b - 1) PROVE BitAt(b, n, i) = Digit(n, i)
  BY <1>2, BitIsDigit DEF BitAt
<1>3. \A x \in M : \A i \in 0..(b - 1) :
        BitAt(b, x, i) = Digit(x, i) /\ BitAt(b, v, i) = Digit(v, i) /\ BitAt(b, a, i) = Digit(a, i)
  BY <1>1, <1>2
<1>4. ASSUME NEW op \in {"and", "or", "xor"}
      PROVE  \E x \in M : \A i \in 0..(b - 1) : BitAt(b, x, i) = OfDigits(op, BitAt(b, v, i), BitAt(b, a, i))
  <2>1. PICK r \in Numbers(b, sg) : PerDigit(b, sg, op, v, a, r)
    BY PerDigitExists
  <2>2. r \in M /\ \A i \in 0..(b - 1) : Digit(r, i) = OfDigits(op, Digit(v, i), Digit(a, i))
    BY <2>1 DEF PerDigit
  <2> QED  BY <1>3, <2>1, <2>2
<1>5. PerDigit(b, sg, "and", v, a, ChosenAnd(M, b, v, a))
  <2>1. \E x \in M : \A i \in 0..(b - 1) : BitAt(b, x, i) = BitAt(b, v, i) * BitAt(b, a, i)
    BY <1>4 DEF OfDigits
  <2> DEFINE r == ChosenAnd(M, b, v, a)
  <2>2. r \in M /\ \A i \in 0..(b - 1) : BitAt(b, r, i) = BitAt(b, v, i) * BitAt(b, a, i)
    BY <2>1 DEF ChosenAnd
  <2> HIDE DEF r
  <2>3. \A i \in 0..(b - 1) : Digit(r, i) = Digit(v, i) * Digit(a, i)
    BY <1>3, <2>2
  <2>4. PerDigit(b, sg, "and", v, a, r)
    BY <2>2, <2>3 DEF PerDigit, OfDigits
  <2> QED  BY <2>4 DEF r
<1>6. PerDigit(b, sg, "or", v, a, ChosenOr(M, b, v, a))
  <2>1. \E x \in M : \A i \in 0..(b - 1) :
          BitAt(b, x, i) = BitAt(b, v, i) + BitAt(b, a, i) - BitAt(b, v, i) * BitAt(b, a, i)
    BY <1>4 DEF OfDigits
  <2> DEFINE r == ChosenOr(M, b, v, a)
  <2>2. r \in M /\ \A i \in 0..(b - 1) :
          BitAt(b, r, i) = BitAt(b, v, i) + BitAt(b, a, i) - BitAt(b, v, i) * BitAt(b, a, i)
    BY <2>1 DEF ChosenOr
  <2> HIDE DEF r
  <2>3. \A i \in 0..(b - 1) : Digit(r, i) = Digit(v, i) + Digit(a, i) - Digit(v, i) * Digit(a, i)
    BY <1>3, <2>2
  <2>4. PerDigit(b, sg, "or", v, a, r)
    BY <2>2, <2>3 DEF PerDigit, OfDigits
  <2> QED  BY <2>4 DEF r
<1>7. PerDigit(b, sg, "xor", v, a, ChosenXor(M, b, v, a))
  <2>1. \E x \in M : \A i \in 0..(b - 1) : BitAt(b, x, i) = (BitAt(b, v, i) + BitAt(b, a, i)) % 2
    BY <1>4 DEF OfDigits
  <2> DEFINE r == ChosenXor(M, b, v, a)
  <2>2. r \in M /\ \A i \in 0..(b - 1) : BitAt(b, r, i) = (BitAt(b, v, i) + BitAt(b, a, i)) % 2
    BY <2>1 DEF ChosenXor
  <2> HIDE DEF r
  <2>3. \A i \in 0..(b - 1) : Digit(r, i) = (Digit(v, i) + Digit(a, i)) % 2
    BY <1>3, <2>2
  <2>4. PerDigit(b, sg, "xor", v, a, r)
    BY <2>2, <2>3 DEF PerDigit, OfDigits
  <2> QED  BY <2>4 DEF r
<1> QED  BY <1>5, <1>6, <1>7
-----------------------------------------------------------------------------
(* The widths of the suite, and AtomicOps as its instances use it.         *)
LEMMA Widths ==
  /\ SmallBits \in Nat \ {0} /\ WordBits \in Nat \ {0} /\ SmallBits <= WordBits /\ PartBits \in Nat \ {0}
  /\ 2^SmallBits \in Nat \ {0} /\ 2^WordBits \in Nat \ {0} /\ 2^PartBits \in Nat \ {0}
<1>1. SmallBits \in Nat \ {0} /\ WordBits \in Nat \ {0} /\ SmallBits <= WordBits /\ PartBits \in Nat \ {0}
  BY SuiteAssumption DEF U!BitsAssumption, W!BitsAssumption
<1> QED  BY <1>1, PowerPositive

LEMMA UValues ==
  /\ U!S!Value = Numbers(SmallBits, FALSE) /\ U!Abs!Value = Numbers(SmallBits, FALSE)
  /\ U!W!Value = Numbers(WordBits, FALSE)
  /\ \A n : U!From32(n) = Rep(SmallBits, FALSE, n) /\ U!Abs!Trunc(n) = Rep(SmallBits, FALSE, n)
  /\ \A n : U!W!Trunc(n) = Rep(WordBits, FALSE, n)
<1>1. U!S!Value = Numbers(SmallBits, FALSE) /\ U!Abs!Value = Numbers(SmallBits, FALSE)
  BY DEF U!S!Value, U!S!Modulus, U!Abs!Value, U!Abs!Modulus, Numbers
<1>2. U!W!Value = Numbers(WordBits, FALSE)
  BY DEF U!W!Value, U!W!Modulus, Numbers
<1>3. \A n : U!From32(n) = Rep(SmallBits, FALSE, n) /\ U!Abs!Trunc(n) = Rep(SmallBits, FALSE, n)
  BY DEF U!From32, U!S!Trunc, U!S!Modulus, U!Abs!Trunc, U!Abs!Modulus, Rep
<1>4. \A n : U!W!Trunc(n) = Rep(WordBits, FALSE, n)
  BY DEF U!W!Trunc, U!W!Modulus, Rep
<1> QED  BY <1>1, <1>2, <1>3, <1>4

LEMMA UUpdates ==
  ASSUME NEW op \in UpdateOps, NEW v \in Int, NEW a \in Int
  PROVE  /\ IsUpdate(WordBits, FALSE, op, v, a, U!W!Updated(op, v, a))
         /\ IsUpdate(SmallBits, FALSE, op, v, a, U!Abs!Updated(op, v, a))
<1>1. U!W!Updated("and", v, a) = ChosenAnd(U!W!Value, WordBits, v, a)
  BY DEF U!W!Updated, U!W!PerBit, U!W!Bit, U!W!Modulus, ChosenAnd, BitAt
<1>2. U!W!Updated("or", v, a) = ChosenOr(U!W!Value, WordBits, v, a)
  BY DEF U!W!Updated, U!W!PerBit, U!W!Bit, U!W!Modulus, ChosenOr, BitAt
<1>3. U!W!Updated("xor", v, a) = ChosenXor(U!W!Value, WordBits, v, a)
  BY DEF U!W!Updated, U!W!PerBit, U!W!Bit, U!W!Modulus, ChosenXor, BitAt
<1>4. ASSUME op \in BitOps PROVE PerDigit(WordBits, FALSE, op, v, a, U!W!Updated(op, v, a))
  BY <1>1, <1>2, <1>3, <1>4, ChosenBits, UValues, Widths DEF BitOps
<1>5. IsUpdate(WordBits, FALSE, op, v, a, U!W!Updated(op, v, a))
  BY <1>4, UValues DEF IsUpdate, BitOps, UpdateOps, U!W!Updated
<1>6. U!Abs!Updated("and", v, a) = ChosenAnd(U!Abs!Value, SmallBits, v, a)
  BY DEF U!Abs!Updated, U!Abs!PerBit, U!Abs!Bit, U!Abs!Modulus, ChosenAnd, BitAt
<1>7. U!Abs!Updated("or", v, a) = ChosenOr(U!Abs!Value, SmallBits, v, a)
  BY DEF U!Abs!Updated, U!Abs!PerBit, U!Abs!Bit, U!Abs!Modulus, ChosenOr, BitAt
<1>8. U!Abs!Updated("xor", v, a) = ChosenXor(U!Abs!Value, SmallBits, v, a)
  BY DEF U!Abs!Updated, U!Abs!PerBit, U!Abs!Bit, U!Abs!Modulus, ChosenXor, BitAt
<1>9. ASSUME op \in BitOps PROVE PerDigit(SmallBits, FALSE, op, v, a, U!Abs!Updated(op, v, a))
  BY <1>6, <1>7, <1>8, <1>9, ChosenBits, UValues, Widths DEF BitOps
<1>10. IsUpdate(SmallBits, FALSE, op, v, a, U!Abs!Updated(op, v, a))
  BY <1>9, UValues DEF IsUpdate, BitOps, UpdateOps, U!Abs!Updated
<1> QED  BY <1>5, <1>10

LEMMA SValues ==
  /\ S!S!Value = Numbers(SmallBits, TRUE) /\ S!Abs!Value = Numbers(SmallBits, TRUE)
  /\ S!W!Value = Numbers(WordBits, TRUE)
  /\ \A n : S!From32(n) = Rep(SmallBits, TRUE, n) /\ S!Abs!Trunc(n) = Rep(SmallBits, TRUE, n)
  /\ \A n : S!W!Trunc(n) = Rep(WordBits, TRUE, n)
<1>1. \A h \in Nat : -h = 0 - h
  OBVIOUS
<1>2. 2^SmallBits \div 2 \in Nat /\ 2^WordBits \div 2 \in Nat
  BY Widths, HalfRange
<1>3. S!S!Value = Numbers(SmallBits, TRUE) /\ S!Abs!Value = Numbers(SmallBits, TRUE)
  BY <1>1, <1>2 DEF S!S!Value, S!S!Modulus, S!Abs!Value, S!Abs!Modulus, Numbers
<1>4. S!W!Value = Numbers(WordBits, TRUE)
  BY <1>1, <1>2 DEF S!W!Value, S!W!Modulus, Numbers
<1>5. \A n : S!From32(n) = Rep(SmallBits, TRUE, n) /\ S!Abs!Trunc(n) = Rep(SmallBits, TRUE, n)
  BY DEF S!From32, S!S!Trunc, S!S!Modulus, S!Abs!Trunc, S!Abs!Modulus, Rep
<1>6. \A n : S!W!Trunc(n) = Rep(WordBits, TRUE, n)
  BY DEF S!W!Trunc, S!W!Modulus, Rep
<1> QED  BY <1>3, <1>4, <1>5, <1>6

LEMMA SUpdates ==
  ASSUME NEW op \in UpdateOps, NEW v \in Int, NEW a \in Int
  PROVE  /\ IsUpdate(WordBits, TRUE, op, v, a, S!W!Updated(op, v, a))
         /\ IsUpdate(SmallBits, TRUE, op, v, a, S!Abs!Updated(op, v, a))
<1>1. S!W!Updated("and", v, a) = ChosenAnd(S!W!Value, WordBits, v, a)
  BY DEF S!W!Updated, S!W!PerBit, S!W!Bit, S!W!Modulus, ChosenAnd, BitAt
<1>2. S!W!Updated("or", v, a) = ChosenOr(S!W!Value, WordBits, v, a)
  BY DEF S!W!Updated, S!W!PerBit, S!W!Bit, S!W!Modulus, ChosenOr, BitAt
<1>3. S!W!Updated("xor", v, a) = ChosenXor(S!W!Value, WordBits, v, a)
  BY DEF S!W!Updated, S!W!PerBit, S!W!Bit, S!W!Modulus, ChosenXor, BitAt
<1>4. ASSUME op \in BitOps PROVE PerDigit(WordBits, TRUE, op, v, a, S!W!Updated(op, v, a))
  BY <1>1, <1>2, <1>3, <1>4, ChosenBits, SValues, Widths DEF BitOps
<1>5. IsUpdate(WordBits, TRUE, op, v, a, S!W!Updated(op, v, a))
  BY <1>4, SValues DEF IsUpdate, BitOps, UpdateOps, S!W!Updated
<1>6. S!Abs!Updated("and", v, a) = ChosenAnd(S!Abs!Value, SmallBits, v, a)
  BY DEF S!Abs!Updated, S!Abs!PerBit, S!Abs!Bit, S!Abs!Modulus, ChosenAnd, BitAt
<1>7. S!Abs!Updated("or", v, a) = ChosenOr(S!Abs!Value, SmallBits, v, a)
  BY DEF S!Abs!Updated, S!Abs!PerBit, S!Abs!Bit, S!Abs!Modulus, ChosenOr, BitAt
<1>8. S!Abs!Updated("xor", v, a) = ChosenXor(S!Abs!Value, SmallBits, v, a)
  BY DEF S!Abs!Updated, S!Abs!PerBit, S!Abs!Bit, S!Abs!Modulus, ChosenXor, BitAt
<1>9. ASSUME op \in BitOps PROVE PerDigit(SmallBits, TRUE, op, v, a, S!Abs!Updated(op, v, a))
  BY <1>6, <1>7, <1>8, <1>9, ChosenBits, SValues, Widths DEF BitOps
<1>10. IsUpdate(SmallBits, TRUE, op, v, a, S!Abs!Updated(op, v, a))
  BY <1>9, SValues DEF IsUpdate, BitOps, UpdateOps, S!Abs!Updated
<1> QED  BY <1>5, <1>10

LEMMA WValues ==
  /\ W!A!Value = Numbers(PartBits, FALSE) /\ W!Abs!Value = Numbers(PartBits, FALSE)
  /\ \A n : W!A!Trunc(n) = Rep(PartBits, FALSE, n)
<1>1. W!A!Value = Numbers(PartBits, FALSE) /\ W!Abs!Value = Numbers(PartBits, FALSE)
  BY DEF W!A!Value, W!A!Modulus, W!Abs!Value, W!Abs!Modulus, Numbers
<1>2. \A n : W!A!Trunc(n) = Rep(PartBits, FALSE, n)
  BY DEF W!A!Trunc, W!A!Modulus, Rep
<1> QED  BY <1>1, <1>2

LEMMA WUpdates ==
  ASSUME NEW op \in UpdateOps, NEW v \in Int, NEW a \in Int
  PROVE  /\ IsUpdate(PartBits, FALSE, op, v, a, W!A!Updated(op, v, a))
         /\ W!Abs!Updated(op, v, a) = W!A!Updated(op, v, a)
<1>1. W!A!Updated("and", v, a) = ChosenAnd(W!A!Value, PartBits, v, a)
  BY DEF W!A!Updated, W!A!PerBit, W!A!Bit, W!A!Modulus, ChosenAnd, BitAt
<1>2. W!A!Updated("or", v, a) = ChosenOr(W!A!Value, PartBits, v, a)
  BY DEF W!A!Updated, W!A!PerBit, W!A!Bit, W!A!Modulus, ChosenOr, BitAt
<1>3. W!A!Updated("xor", v, a) = ChosenXor(W!A!Value, PartBits, v, a)
  BY DEF W!A!Updated, W!A!PerBit, W!A!Bit, W!A!Modulus, ChosenXor, BitAt
<1>4. ASSUME op \in BitOps PROVE PerDigit(PartBits, FALSE, op, v, a, W!A!Updated(op, v, a))
  BY <1>1, <1>2, <1>3, <1>4, ChosenBits, WValues, Widths DEF BitOps
<1>5. IsUpdate(PartBits, FALSE, op, v, a, W!A!Updated(op, v, a))
  BY <1>4, WValues DEF IsUpdate, BitOps, UpdateOps, W!A!Updated
<1>6. W!Abs!Updated(op, v, a) = W!A!Updated(op, v, a)
  BY DEF W!Abs!Updated, W!A!Updated, W!Abs!Trunc, W!A!Trunc, W!Abs!PerBit, W!A!PerBit, W!Abs!Bit, W!A!Bit,
         W!Abs!Modulus, W!A!Modulus, W!Abs!Value, W!A!Value
<1> QED  BY <1>5, <1>6
-----------------------------------------------------------------------------
(* The unsigned value: the proxy may be dirty above it.                    *)
UnsignedOps == {"load", "exchange", "add", "sub", "xor"} \cup CompareOps
UnsignedCalls == [op : UnsignedOps, cell : {0}, arg : Numbers(SmallBits, FALSE), exp : Numbers(SmallBits, FALSE)]

UInv ==
  /\ uProxy \in Numbers(WordBits, FALSE)
  /\ uPc \in [Thread -> {"idle", "run", "clean"}]
  /\ uCall \in [Thread -> UnsignedCalls \cup {U!NoCall}]
  /\ uLast \in [Thread -> [old : Numbers(SmallBits, FALSE), ok : BOOLEAN]]
  /\ uCalls \in 0..ProxyCalls
  /\ \A t \in Thread : (uPc[t] = "idle") <=> (uCall[t] = U!NoCall)
  /\ \A t \in Thread : uPc[t] = "clean" => uCall[t].op \in CompareOps

LEMMA UType ==
  UInv => U!TypeOK
BY UValues DEF UInv, U!TypeOK

LEMMA UNumbers ==
  /\ Numbers(SmallBits, FALSE) \subseteq Numbers(WordBits, FALSE)
  /\ Numbers(WordBits, FALSE) \subseteq Int /\ 0 \in Numbers(SmallBits, FALSE)
  /\ \A v \in Numbers(SmallBits, FALSE) : U!To32(v) = v /\ U!From32(v) = v
  /\ \A n \in Int : U!From32(n) \in Numbers(SmallBits, FALSE)
<1>1. /\ Numbers(SmallBits, FALSE) \subseteq Numbers(WordBits, FALSE)
      /\ Numbers(WordBits, FALSE) \subseteq Int /\ 0 \in Numbers(SmallBits, FALSE)
  BY Widths, NumbersGrow, NumbersAreInt
<1>2. ASSUME NEW v \in Numbers(SmallBits, FALSE) PROVE U!To32(v) = v /\ U!From32(v) = v
  <2>1. Rep(WordBits, FALSE, v) = v
    BY <1>1, Widths, RepSame
  <2>2. Rep(SmallBits, FALSE, v) = v
    BY Widths, RepSame
  <2> QED  BY <2>1, <2>2, UValues DEF U!To32
<1>3. ASSUME NEW n \in Int PROVE U!From32(n) \in Numbers(SmallBits, FALSE)
  BY Widths, RepFacts, UValues
<1> QED  BY <1>1, <1>2, <1>3

LEMMA UInitial ==
  U!Init => UInv /\ U!Abs!CellsInit
<1> SUFFICES ASSUME U!Init PROVE UInv /\ U!Abs!CellsInit
  OBVIOUS
<1>1. uProxy \in Numbers(WordBits, FALSE) /\ uProxy \in Int
  BY UNumbers, UValues DEF U!Init
<1>2. UInv
  <2>1. uCalls = ProxyCalls /\ ProxyCalls \in Nat
    BY SuiteAssumption DEF U!Init, U!CallsAssumption
  <2>2. U!Result(0, FALSE) \in [old : Numbers(SmallBits, FALSE), ok : BOOLEAN]
    BY UNumbers DEF U!Result
  <2>3. /\ uPc = [t \in Thread |-> "idle"] /\ uCall = [t \in Thread |-> U!NoCall]
        /\ uLast = [t \in Thread |-> U!Result(0, FALSE)]
    BY DEF U!Init
  <2>4. uCall \in [Thread -> UnsignedCalls \cup {U!NoCall}] /\ uPc \in [Thread -> {"idle", "run", "clean"}]
    BY <2>3
  <2>5. uLast \in [Thread -> [old : Numbers(SmallBits, FALSE), ok : BOOLEAN]]
    BY <2>2, <2>3
  <2>6. \A t \in Thread : uPc[t] = "idle" /\ uCall[t] = U!NoCall
    BY <2>3
  <2>7. uCalls \in 0..ProxyCalls
    BY <2>1
  <2>8. \A t \in Thread : uPc[t] = "clean" => uCall[t].op \in CompareOps
    BY <2>6
  <2>9. \A t \in Thread : (uPc[t] = "idle") <=> (uCall[t] = U!NoCall)
    BY <2>6
  <2> QED  BY <1>1, <2>4, <2>5, <2>7, <2>8, <2>9 DEF UInv
<1>3. U!Abs!CellsInit
  BY <1>1, UNumbers, UValues DEF U!Init, U!Abs!CellsInit, U!NoCall, U!Abs!NoCall, U!Result, U!Abs!Result
<1> QED  BY <1>2, <1>3

\* What a thread inside an operation has, and how it ends.
LEMMA UInside ==
  ASSUME UInv, NEW t \in Thread, uPc[t] # "idle"
  PROVE  /\ uCall[t] \in UnsignedCalls /\ uCall[t] # U!NoCall
         /\ uCall[t].op \in UnsignedOps /\ uCall[t].cell = 0
         /\ uCall[t].arg \in Numbers(SmallBits, FALSE) /\ uCall[t].exp \in Numbers(SmallBits, FALSE)
<1>1. uCall[t] \in UnsignedCalls /\ uCall[t] # U!NoCall
  BY DEF UInv
<1> QED  BY <1>1 DEF UnsignedCalls

LEMMA UReturn ==
  ASSUME UInv, NEW t \in Thread, NEW r \in [old : Numbers(SmallBits, FALSE), ok : BOOLEAN],
         U!Return(t, r), uProxy' \in Numbers(WordBits, FALSE), uCalls' = uCalls
  PROVE  UInv'
BY DEF UInv, U!Return

\* The call of t takes effect when the small value becomes what it leaves.
LEMMA UEffect ==
  ASSUME UInv, NEW t \in Thread, uPc[t] # "idle",
         U!Return(t, U!Result(U!From32(uProxy), U!Abs!Succeeds(uCall[t], U!From32(uProxy)))),
         U!From32(uProxy') = U!Abs!Leaves(uCall[t], U!From32(uProxy))
  PROVE  U!Abs!Effect(t)
<1>1. uCall[t] # U!NoCall /\ uCall[t].cell = 0
  BY UInside
<1> QED  BY <1>1 DEF U!Abs!Effect, U!Return, U!Abs!NoCall, U!NoCall, U!Result, U!Abs!Result

LEMMA UBegin ==
  ASSUME UInv, NEW t \in Thread, U!Call(t)
  PROVE  UInv' /\ U!Abs!Begin(t)
<1>1. PICK op \in UnsignedOps, arg \in {1, 2^SmallBits - 1}, exp \in U!S!Value \cup {0} :
        uCall' = [uCall EXCEPT ![t] = [op |-> op, cell |-> 0, arg |-> arg, exp |-> exp]]
  BY DEF U!Call, UnsignedOps, CompareOps
<1> DEFINE o == [op |-> op, cell |-> 0, arg |-> arg, exp |-> exp]
<1>2. arg \in Numbers(SmallBits, FALSE) /\ exp \in Numbers(SmallBits, FALSE)
  BY UNumbers, UValues, SuiteAssumption DEF U!OpsAssumption
<1>3. o \in UnsignedCalls /\ o # U!NoCall /\ uCall' = [uCall EXCEPT ![t] = o]
  BY <1>1, <1>2 DEF UnsignedCalls, U!NoCall
<1>4. o \in [op : U!Abs!Updates \cup U!Abs!Compares, cell : {0}, arg : U!Abs!Value, exp : U!Abs!Value]
  BY <1>2, UValues DEF UnsignedOps, CompareOps, U!Abs!Updates, U!Abs!Compares
<1> HIDE DEF o
<1>5. UInv'
  <2>1. /\ uPc' = [uPc EXCEPT ![t] = "run"] /\ uCalls' = uCalls - 1 /\ uCalls > 0
        /\ uProxy' = uProxy /\ uLast' = uLast
    BY DEF U!Call
  <2>2. uCalls' \in 0..ProxyCalls
    BY <2>1, SuiteAssumption DEF UInv, U!CallsAssumption
  <2>3. \A s \in Thread : (uPc'[s] = "idle") <=> (uCall'[s] = U!NoCall)
    BY <1>3, <2>1 DEF UInv
  <2>4. \A s \in Thread : uPc'[s] = "clean" => uCall'[s].op \in CompareOps
    BY <1>3, <2>1 DEF UInv
  <2>5. uCall' \in [Thread -> UnsignedCalls \cup {U!NoCall}] /\ uPc' \in [Thread -> {"idle", "run", "clean"}]
    BY <1>3, <2>1 DEF UInv
  <2> QED  BY <2>1, <2>2, <2>3, <2>4, <2>5 DEF UInv
<1>6. uCall[t] = U!NoCall /\ uCall'[t] = o
  BY <1>3 DEF UInv, U!Call
<1>7. U!Abs!Begin(t)
  BY <1>3, <1>4, <1>6 DEF U!Abs!Begin, U!Call, U!NoCall, U!Abs!NoCall
<1> QED  BY <1>5, <1>7

LEMMA UApply ==
  ASSUME UInv, NEW t \in Thread, U!Access(t) \/ U!Fetch(t)
  PROVE  UInv' /\ U!Abs!Effect(t)
<1> DEFINE o == uCall[t]
           v == U!From32(uProxy)
<1>1. uPc[t] # "idle" /\ U!Apply(t) /\ o.op \notin CompareOps
  BY DEF U!Access, U!Fetch, U!Apply, CompareOps
<1>2. /\ o.op \in UpdateOps \ {"max", "min"} /\ o.arg \in Numbers(SmallBits, FALSE)
      /\ o.arg \in Numbers(WordBits, FALSE) /\ o.arg \in Int /\ U!To32(o.arg) = o.arg
  <2>1. o.op \in UnsignedOps /\ o.arg \in Numbers(SmallBits, FALSE)
    BY <1>1, UInside
  <2> QED  BY <1>1, <2>1, UNumbers DEF UnsignedOps, UpdateOps
<1>3. /\ uProxy \in Numbers(WordBits, FALSE) /\ uProxy \in Int
      /\ v \in Numbers(SmallBits, FALSE) /\ v \in Int /\ v = Rep(SmallBits, FALSE, uProxy)
  BY UNumbers, UValues DEF UInv
<1>4. uProxy' = U!W!Updated(o.op, uProxy, o.arg) /\ U!Return(t, U!Result(v, TRUE)) /\ uCalls' = uCalls
  BY <1>1, <1>2 DEF U!Apply
<1> HIDE DEF o, v
<1>5. IsUpdate(WordBits, FALSE, o.op, uProxy, o.arg, uProxy')
  BY <1>2, <1>3, <1>4, UUpdates
<1>6. IsUpdate(SmallBits, FALSE, o.op, v, o.arg, U!Abs!Updated(o.op, v, o.arg))
  BY <1>2, <1>3, UUpdates
<1>7. uProxy' \in Numbers(WordBits, FALSE)
  BY <1>2, <1>3, <1>5, Widths, UpdateType
<1>8. U!From32(uProxy') = U!Abs!Updated(o.op, v, o.arg)
  <2>1. Rep(SmallBits, FALSE, uProxy') = U!Abs!Updated(o.op, v, o.arg)
    BY <1>2, <1>3, <1>5, <1>6, Widths, UpdateAgrees
  <2> QED  BY <2>1, UValues
<1>9. UInv'
  <2>1. U!Result(v, TRUE) \in [old : Numbers(SmallBits, FALSE), ok : BOOLEAN]
    BY <1>3 DEF U!Result
  <2> QED  BY <1>4, <1>7, <2>1, UReturn
<1>10. o.op \in U!Abs!Updates
  BY <1>2 DEF UpdateOps, U!Abs!Updates
<1>11. U!Abs!Leaves(o, v) = U!Abs!Updated(o.op, v, o.arg) /\ U!Abs!Succeeds(o, v) = TRUE
  BY <1>10 DEF U!Abs!Leaves, U!Abs!Succeeds
<1>12. U!Abs!Effect(t)
  BY <1>1, <1>4, <1>8, <1>11, UEffect DEF o, v
<1> QED  BY <1>9, <1>12

LEMMA UCasSucceeds ==
  ASSUME UInv, NEW t \in Thread, U!CasSucceeds(t)
  PROVE  UInv' /\ U!Abs!Effect(t)
<1> DEFINE o == uCall[t]
           v == U!From32(uProxy)
<1>1. /\ uPc[t] # "idle" /\ o.op \in CompareOps /\ uProxy = U!To32(o.exp) /\ uProxy' = U!To32(o.arg)
      /\ U!Return(t, U!Result(o.exp, TRUE)) /\ uCalls' = uCalls
  BY DEF U!CasSucceeds, U!Matches, U!S!Compares, CompareOps
<1>2. o.arg \in Numbers(SmallBits, FALSE) /\ o.exp \in Numbers(SmallBits, FALSE)
  BY <1>1, UInside
<1>3. uProxy = o.exp /\ v = o.exp /\ uProxy' = o.arg /\ U!From32(uProxy') = o.arg
  BY <1>1, <1>2, UNumbers
<1> HIDE DEF o, v
<1>4. UInv'
  <2>1. U!Result(o.exp, TRUE) \in [old : Numbers(SmallBits, FALSE), ok : BOOLEAN]
    BY <1>2 DEF U!Result
  <2>2. uProxy' \in Numbers(WordBits, FALSE)
    BY <1>2, <1>3, UNumbers
  <2> QED  BY <1>1, <2>1, <2>2, UReturn
<1>5. o.op \notin U!Abs!Updates
  BY <1>1 DEF CompareOps, U!Abs!Updates
<1>6. U!Abs!Leaves(o, v) = o.arg /\ U!Abs!Succeeds(o, v) = TRUE
  BY <1>3, <1>5 DEF U!Abs!Leaves, U!Abs!Succeeds
<1>7. U!Abs!Effect(t)
  BY <1>1, <1>3, <1>6, UEffect DEF o, v
<1> QED  BY <1>4, <1>7

\* A difference is an effect; otherwise the proxy is going to be cleaned.
LEMMA UCasFails ==
  ASSUME UInv, NEW t \in Thread, U!CasFails(t)
  PROVE  UInv' /\ (U!Abs!Effect(t) \/ UNCHANGED U!Abs!cellVars)
<1> DEFINE o == uCall[t]
           v == U!From32(uProxy)
<1>1. uPc[t] # "idle" /\ o.op \in CompareOps /\ uProxy' = uProxy /\ uCalls' = uCalls
  BY DEF U!CasFails, U!S!Compares, CompareOps
<1>2. v \in Numbers(SmallBits, FALSE) /\ uProxy \in Numbers(WordBits, FALSE)
  BY UNumbers DEF UInv
<1>3. CASE v = o.exp
  <2>1. uPc' = [uPc EXCEPT ![t] = "clean"] /\ uCall' = uCall /\ uLast' = uLast
    BY <1>3 DEF U!CasFails, U!OnlyDirty
  <2>2. UInv'
    BY <1>1, <2>1 DEF UInv
  <2>3. UNCHANGED U!Abs!cellVars
    BY <1>1, <2>1 DEF U!Abs!cellVars
  <2> QED  BY <2>2, <2>3
<1>4. CASE v # o.exp
  <2>1. U!Return(t, U!Result(v, FALSE))
    BY <1>4 DEF U!CasFails, U!OnlyDirty
  <2> HIDE DEF o, v
  <2>2. U!Result(v, FALSE) \in [old : Numbers(SmallBits, FALSE), ok : BOOLEAN]
    BY <1>2 DEF U!Result
  <2>3. UInv'
    BY <1>1, <1>2, <2>1, <2>2, UReturn
  <2>4. o.op \notin U!Abs!Updates
    BY <1>1 DEF CompareOps, U!Abs!Updates
  <2>5. U!Abs!Leaves(o, v) = v /\ U!Abs!Succeeds(o, v) = FALSE
    BY <1>4, <2>4 DEF U!Abs!Leaves, U!Abs!Succeeds
  <2>6. U!From32(uProxy') = v
    BY <1>1 DEF v
  <2>7. U!Abs!Effect(t)
    BY <1>1, <2>1, <2>5, <2>6, UEffect DEF o, v
  <2> QED  BY <2>3, <2>7
<1> QED  BY <1>3, <1>4

LEMMA UClean ==
  ASSUME UInv, NEW t \in Thread, U!Clean(t)
  PROVE  UInv' /\ (U!Abs!FailForNoReason(t) \/ UNCHANGED U!Abs!cellVars)
<1> DEFINE o == uCall[t]
<1>1. uPc[t] # "idle" /\ uProxy' = U!W!Updated("and", uProxy, U!Mask) /\ uCalls' = uCalls
  BY DEF U!Clean
<1>2. o.op \in CompareOps /\ o.exp \in Numbers(SmallBits, FALSE)
  BY <1>1, UInside DEF U!Clean, UInv
<1>3. uProxy \in Numbers(WordBits, FALSE) /\ uProxy \in Int
  BY UNumbers DEF UInv
<1>4. /\ U!Mask \in Int /\ U!Mask \in Numbers(WordBits, FALSE)
      /\ IsMask(SmallBits, U!Mask)
  <2>1. U!Mask = Rep(WordBits, FALSE, 2^SmallBits - 1)
    BY UValues DEF U!Mask, U!S!Modulus
  <2>2. SmallBits \in Nat \ {0} /\ WordBits \in Nat \ {0} /\ SmallBits <= WordBits
    BY Widths
  <2> QED  BY <2>1, <2>2, MaskDigits
<1>5. IsUpdate(WordBits, FALSE, "and", uProxy, U!Mask, uProxy')
  <2>1. "and" \in UpdateOps
    BY DEF UpdateOps
  <2> QED  BY <1>1, <1>3, <1>4, <2>1, UUpdates
<1>6. uProxy' \in Numbers(WordBits, FALSE)
  BY <1>3, <1>4, <1>5, Widths, UpdateType DEF UpdateOps
<1>7. U!From32(uProxy') = U!From32(uProxy)
  <2> DEFINE sg == FALSE
  <2>1. sg \in BOOLEAN /\ IsUpdate(WordBits, sg, "and", uProxy, U!Mask, uProxy')
    BY <1>5
  <2> HIDE DEF sg
  <2>2. Rep(SmallBits, sg, uProxy') = Rep(SmallBits, sg, uProxy)
    BY <1>3, <1>4, <2>1, Widths, Cleaned
  <2> QED  BY <2>2, UValues DEF sg
<1>8. CASE o.op = "weak"
  <2>1. U!Return(t, U!Result(o.exp, FALSE))
    BY <1>8 DEF U!Clean
  <2> HIDE DEF o
  <2>2. U!Result(o.exp, FALSE) \in [old : Numbers(SmallBits, FALSE), ok : BOOLEAN]
    BY <1>2 DEF U!Result
  <2>3. UInv'
    BY <1>1, <1>6, <2>1, <2>2, UReturn
  <2>4. U!Abs!FailForNoReason(t)
    BY <1>7, <1>8, <2>1 DEF U!Abs!FailForNoReason, U!Return, U!Result, U!Abs!Result, U!NoCall, U!Abs!NoCall, o
  <2> QED  BY <2>3, <2>4
<1>9. CASE o.op # "weak"
  <2>1. uPc' = [uPc EXCEPT ![t] = "run"] /\ uCall' = uCall /\ uLast' = uLast
    BY <1>9 DEF U!Clean
  <2>2. UInv'
    BY <1>1, <1>6, <2>1 DEF UInv
  <2>3. UNCHANGED U!Abs!cellVars
    BY <1>7, <2>1 DEF U!Abs!cellVars
  <2> QED  BY <2>2, <2>3
<1> QED  BY <1>8, <1>9

LEMMA USteps ==
  UInv /\ [U!Next]_U!vars => UInv' /\ [U!Abs!CellsNext]_U!Abs!cellVars
<1> SUFFICES ASSUME UInv, [U!Next]_U!vars PROVE UInv' /\ [U!Abs!CellsNext]_U!Abs!cellVars
  OBVIOUS
<1>1. CASE UNCHANGED U!vars
  <2>1. UInv'
    BY <1>1 DEF U!vars, UInv
  <2>2. UNCHANGED U!Abs!cellVars
    BY <1>1 DEF U!vars, U!Abs!cellVars
  <2> QED  BY <2>1, <2>2
<1>2. ASSUME NEW t \in Thread, U!Call(t) \/ U!ThreadStep(t)
      PROVE  UInv' /\ (U!Abs!CellsNext \/ UNCHANGED U!Abs!cellVars)
  <2>1. CASE U!Call(t)
    BY <2>1, UBegin DEF U!Abs!CellsNext
  <2>2. CASE U!Access(t) \/ U!Fetch(t)
    BY <2>2, UApply DEF U!Abs!CellsNext
  <2>3. CASE U!CasSucceeds(t)
    BY <2>3, UCasSucceeds DEF U!Abs!CellsNext
  <2>4. CASE U!CasFails(t)
    BY <2>4, UCasFails DEF U!Abs!CellsNext
  <2>5. CASE U!Clean(t)
    BY <2>5, UClean DEF U!Abs!CellsNext
  <2> QED  BY <1>2, <2>1, <2>2, <2>3, <2>4, <2>5 DEF U!ThreadStep
<1> QED  BY <1>1, <1>2 DEF U!Next
-----------------------------------------------------------------------------
(* The signed value: the proxy is its sign extension, and never dirty.     *)
SignedOps == {"store", "and", "or", "max", "min"} \cup CompareOps
SignedCalls == [op : SignedOps, cell : {0}, arg : Numbers(SmallBits, TRUE), exp : Numbers(SmallBits, TRUE)]

SInv ==
  /\ sProxy \in Numbers(SmallBits, TRUE)
  /\ sPc \in [Thread -> {"idle", "run"}]
  /\ sCall \in [Thread -> SignedCalls \cup {S!NoCall}]
  /\ sLast \in [Thread -> [old : Numbers(SmallBits, TRUE), ok : BOOLEAN]]
  /\ sCalls \in 0..ProxyCalls
  /\ \A t \in Thread : (sPc[t] = "idle") <=> (sCall[t] = S!NoCall)

LEMMA SNumbers ==
  /\ Numbers(SmallBits, TRUE) \subseteq Numbers(WordBits, TRUE)
  /\ Numbers(WordBits, TRUE) \subseteq Int /\ 0 \in Numbers(SmallBits, TRUE)
  /\ \A v \in Numbers(SmallBits, TRUE) : S!To32(v) = v /\ S!From32(v) = v
  /\ \A n \in Int : S!From32(n) \in Numbers(SmallBits, TRUE)
<1>1. /\ Numbers(SmallBits, TRUE) \subseteq Numbers(WordBits, TRUE)
      /\ Numbers(WordBits, TRUE) \subseteq Int /\ 0 \in Numbers(SmallBits, TRUE)
  BY Widths, NumbersGrow, NumbersAreInt
<1>2. ASSUME NEW v \in Numbers(SmallBits, TRUE) PROVE S!To32(v) = v /\ S!From32(v) = v
  <2>1. Rep(WordBits, TRUE, v) = v
    BY <1>1, Widths, RepSame
  <2>2. Rep(SmallBits, TRUE, v) = v
    BY Widths, RepSame
  <2> QED  BY <2>1, <2>2, SValues DEF S!To32
<1>3. ASSUME NEW n \in Int PROVE S!From32(n) \in Numbers(SmallBits, TRUE)
  BY Widths, RepFacts, SValues
<1> QED  BY <1>1, <1>2, <1>3

LEMMA SType ==
  SInv => S!TypeOK
BY SValues, SNumbers DEF SInv, S!TypeOK

LEMMA SInitial ==
  S!Init => SInv /\ S!Abs!CellsInit
<1> SUFFICES ASSUME S!Init PROVE SInv /\ S!Abs!CellsInit
  OBVIOUS
<1>1. sProxy \in Numbers(SmallBits, TRUE) /\ sProxy \in Int
  <2>1. PICK v \in Numbers(SmallBits, TRUE) : sProxy = S!To32(v)
    BY SValues DEF S!Init
  <2> QED  BY <2>1, SNumbers
<1>2. SInv
  <2>1. sCalls = ProxyCalls /\ ProxyCalls \in Nat
    BY SuiteAssumption DEF S!Init, U!CallsAssumption
  <2>2. S!Result(0, FALSE) \in [old : Numbers(SmallBits, TRUE), ok : BOOLEAN]
    BY SNumbers DEF S!Result
  <2>3. /\ sPc = [t \in Thread |-> "idle"] /\ sCall = [t \in Thread |-> S!NoCall]
        /\ sLast = [t \in Thread |-> S!Result(0, FALSE)]
    BY DEF S!Init
  <2>4. sCall \in [Thread -> SignedCalls \cup {S!NoCall}] /\ sPc \in [Thread -> {"idle", "run"}]
    BY <2>3
  <2>5. sLast \in [Thread -> [old : Numbers(SmallBits, TRUE), ok : BOOLEAN]]
    BY <2>2, <2>3
  <2>6. \A t \in Thread : sPc[t] = "idle" /\ sCall[t] = S!NoCall
    BY <2>3
  <2>7. sCalls \in 0..ProxyCalls
    BY <2>1
  <2>8. \A t \in Thread : (sPc[t] = "idle") <=> (sCall[t] = S!NoCall)
    BY <2>6
  <2> QED  BY <1>1, <2>4, <2>5, <2>7, <2>8 DEF SInv
<1>3. S!Abs!CellsInit
  BY <1>1, SNumbers, SValues DEF S!Init, S!Abs!CellsInit, S!NoCall, S!Abs!NoCall, S!Result, S!Abs!Result
<1> QED  BY <1>2, <1>3

\* What a thread inside an operation has, and how it ends.
LEMMA SInside ==
  ASSUME SInv, NEW t \in Thread, sPc[t] # "idle"
  PROVE  /\ sCall[t] \in SignedCalls /\ sCall[t] # S!NoCall
         /\ sCall[t].op \in SignedOps /\ sCall[t].cell = 0
         /\ sCall[t].arg \in Numbers(SmallBits, TRUE) /\ sCall[t].exp \in Numbers(SmallBits, TRUE)
<1>1. sCall[t] \in SignedCalls /\ sCall[t] # S!NoCall
  BY DEF SInv
<1> QED  BY <1>1 DEF SignedCalls

LEMMA SReturn ==
  ASSUME SInv, NEW t \in Thread, NEW r \in [old : Numbers(SmallBits, TRUE), ok : BOOLEAN],
         S!Return(t, r), sProxy' \in Numbers(SmallBits, TRUE), sCalls' = sCalls
  PROVE  SInv'
BY DEF SInv, S!Return

\* The call of t takes effect when the small value becomes what it leaves.
LEMMA SEffect ==
  ASSUME SInv, NEW t \in Thread, sPc[t] # "idle",
         S!Return(t, S!Result(S!From32(sProxy), S!Abs!Succeeds(sCall[t], S!From32(sProxy)))),
         S!From32(sProxy') = S!Abs!Leaves(sCall[t], S!From32(sProxy))
  PROVE  S!Abs!Effect(t)
<1>1. sCall[t] # S!NoCall /\ sCall[t].cell = 0
  BY SInside
<1> QED  BY <1>1 DEF S!Abs!Effect, S!Return, S!Abs!NoCall, S!NoCall, S!Result, S!Abs!Result

LEMMA SBegin ==
  ASSUME SInv, NEW t \in Thread, S!Call(t)
  PROVE  SInv' /\ S!Abs!Begin(t)
<1>1. PICK op \in SignedOps, arg \in {-2^(SmallBits - 1), 2^(SmallBits - 1) - 1}, exp \in S!S!Value \cup {0} :
        sCall' = [sCall EXCEPT ![t] = [op |-> op, cell |-> 0, arg |-> arg, exp |-> exp]]
  BY DEF S!Call, SignedOps, CompareOps
<1> DEFINE o == [op |-> op, cell |-> 0, arg |-> arg, exp |-> exp]
<1>2. arg \in Numbers(SmallBits, TRUE) /\ exp \in Numbers(SmallBits, TRUE)
  BY SNumbers, SValues, SuiteAssumption DEF S!OpsAssumption
<1>3. o \in SignedCalls /\ o # S!NoCall /\ sCall' = [sCall EXCEPT ![t] = o]
  BY <1>1, <1>2 DEF SignedCalls, S!NoCall
<1>4. o \in [op : S!Abs!Updates \cup S!Abs!Compares, cell : {0}, arg : S!Abs!Value, exp : S!Abs!Value]
  BY <1>2, SValues DEF SignedOps, CompareOps, S!Abs!Updates, S!Abs!Compares
<1> HIDE DEF o
<1>5. SInv'
  <2>1. /\ sPc' = [sPc EXCEPT ![t] = "run"] /\ sCalls' = sCalls - 1 /\ sCalls > 0
        /\ sProxy' = sProxy /\ sLast' = sLast
    BY DEF S!Call
  <2>2. sCalls' \in 0..ProxyCalls
    BY <2>1, SuiteAssumption DEF SInv, U!CallsAssumption
  <2>3. \A s \in Thread : (sPc'[s] = "idle") <=> (sCall'[s] = S!NoCall)
    BY <1>3, <2>1 DEF SInv
  <2>4. sCall' \in [Thread -> SignedCalls \cup {S!NoCall}] /\ sPc' \in [Thread -> {"idle", "run"}]
    BY <1>3, <2>1 DEF SInv
  <2> QED  BY <2>1, <2>2, <2>3, <2>4 DEF SInv
<1>6. sCall[t] = S!NoCall /\ sCall'[t] = o
  BY <1>3 DEF SInv, S!Call
<1>7. S!Abs!Begin(t)
  BY <1>3, <1>4, <1>6 DEF S!Abs!Begin, S!Call, S!NoCall, S!Abs!NoCall
<1> QED  BY <1>5, <1>7

LEMMA SApply ==
  ASSUME SInv, NEW t \in Thread, S!Access(t) \/ S!Fetch(t)
  PROVE  SInv' /\ S!Abs!Effect(t)
<1> DEFINE o == sCall[t]
           v == S!From32(sProxy)
<1>1. sPc[t] # "idle" /\ S!Apply(t) /\ o.op \notin CompareOps
  BY DEF S!Access, S!Fetch, S!Apply, CompareOps
<1>2. /\ o.op \in UpdateOps \ {"add", "sub"} /\ o.arg \in Numbers(SmallBits, TRUE)
      /\ o.arg \in Int /\ S!To32(o.arg) = o.arg
  <2>1. o.op \in SignedOps /\ o.arg \in Numbers(SmallBits, TRUE)
    BY <1>1, SInside
  <2> QED  BY <1>1, <2>1, SNumbers DEF SignedOps, UpdateOps
<1>3. sProxy \in Numbers(SmallBits, TRUE) /\ sProxy \in Int /\ v = sProxy
  BY SNumbers DEF SInv
<1>4. sProxy' = S!W!Updated(o.op, sProxy, o.arg) /\ S!Return(t, S!Result(v, TRUE)) /\ sCalls' = sCalls
  BY <1>1, <1>2 DEF S!Apply
<1> HIDE DEF o, v
<1>5. IsUpdate(WordBits, TRUE, o.op, sProxy, o.arg, sProxy')
  BY <1>2, <1>3, <1>4, SUpdates
<1>6. IsUpdate(SmallBits, TRUE, o.op, sProxy, o.arg, S!Abs!Updated(o.op, sProxy, o.arg))
  BY <1>2, <1>3, SUpdates
<1>7. sProxy' \in Numbers(SmallBits, TRUE)
  BY <1>2, <1>3, <1>5, Widths, SignedUpdateStays
<1>8. S!From32(sProxy') = S!Abs!Updated(o.op, v, o.arg)
  <2>1. CASE o.op \in {"max", "min"}
    <3>1. S!Abs!Updated(o.op, v, o.arg) = sProxy'
      BY <1>3, <1>5, <1>6, <2>1 DEF IsUpdate
    <3> QED  BY <1>7, <3>1, SNumbers
  <2>2. CASE o.op \notin {"max", "min"}
    <3>1. Rep(SmallBits, TRUE, sProxy) = v
      BY <1>3, Widths, RepSame
    <3>2. IsUpdate(SmallBits, TRUE, o.op, Rep(SmallBits, TRUE, sProxy), o.arg, S!Abs!Updated(o.op, v, o.arg))
      BY <1>3, <1>6, <3>1
    <3>3. o.op \in UpdateOps \ {"max", "min"}
      BY <1>2, <2>2
    <3>4. Rep(SmallBits, TRUE, sProxy') = S!Abs!Updated(o.op, v, o.arg)
      BY <1>2, <1>3, <1>5, <3>2, <3>3, Widths, UpdateAgrees
    <3> QED  BY <3>4, SValues
  <2> QED  BY <2>1, <2>2
<1>9. SInv'
  <2>1. S!Result(v, TRUE) \in [old : Numbers(SmallBits, TRUE), ok : BOOLEAN]
    BY <1>3 DEF S!Result
  <2> QED  BY <1>4, <1>7, <2>1, SReturn
<1>10. o.op \in S!Abs!Updates
  BY <1>2 DEF UpdateOps, S!Abs!Updates
<1>11. S!Abs!Leaves(o, v) = S!Abs!Updated(o.op, v, o.arg) /\ S!Abs!Succeeds(o, v) = TRUE
  BY <1>10 DEF S!Abs!Leaves, S!Abs!Succeeds
<1>12. S!Abs!Effect(t)
  BY <1>1, <1>4, <1>8, <1>11, SEffect DEF o, v
<1> QED  BY <1>9, <1>12

LEMMA SCasSucceeds ==
  ASSUME SInv, NEW t \in Thread, S!CasSucceeds(t)
  PROVE  SInv' /\ S!Abs!Effect(t)
<1> DEFINE o == sCall[t]
           v == S!From32(sProxy)
<1>1. /\ sPc[t] # "idle" /\ o.op \in CompareOps /\ sProxy = S!To32(o.exp) /\ sProxy' = S!To32(o.arg)
      /\ S!Return(t, S!Result(o.exp, TRUE)) /\ sCalls' = sCalls
  BY DEF S!CasSucceeds, S!Matches, S!S!Compares, CompareOps
<1>2. o.arg \in Numbers(SmallBits, TRUE) /\ o.exp \in Numbers(SmallBits, TRUE)
  BY <1>1, SInside
<1>3. sProxy = o.exp /\ v = o.exp /\ sProxy' = o.arg /\ S!From32(sProxy') = o.arg
  BY <1>1, <1>2, SNumbers
<1> HIDE DEF o, v
<1>4. SInv'
  <2>1. S!Result(o.exp, TRUE) \in [old : Numbers(SmallBits, TRUE), ok : BOOLEAN]
    BY <1>2 DEF S!Result
  <2>2. sProxy' \in Numbers(SmallBits, TRUE)
    BY <1>2, <1>3, SNumbers
  <2> QED  BY <1>1, <2>1, <2>2, SReturn
<1>5. o.op \notin S!Abs!Updates
  BY <1>1 DEF CompareOps, S!Abs!Updates
<1>6. S!Abs!Leaves(o, v) = o.arg /\ S!Abs!Succeeds(o, v) = TRUE
  BY <1>3, <1>5 DEF S!Abs!Leaves, S!Abs!Succeeds
<1>7. S!Abs!Effect(t)
  BY <1>1, <1>3, <1>6, SEffect DEF o, v
<1> QED  BY <1>4, <1>7

\* Only a difference makes the compare_exchange fail.
LEMMA SCasFails ==
  ASSUME SInv, NEW t \in Thread, S!CasFails(t)
  PROVE  SInv' /\ S!Abs!Effect(t)
<1> DEFINE o == sCall[t]
           v == S!From32(sProxy)
<1>1. sPc[t] # "idle" /\ o.op \in CompareOps /\ sProxy' = sProxy /\ sCalls' = sCalls /\ sProxy # S!To32(o.exp)
  BY DEF S!CasFails, S!Matches, S!S!Compares, CompareOps
<1>2. o.exp \in Numbers(SmallBits, TRUE) /\ S!To32(o.exp) = o.exp
  BY <1>1, SInside, SNumbers
<1>3. v = sProxy /\ v \in Numbers(SmallBits, TRUE) /\ v # o.exp
  BY <1>1, <1>2, SNumbers DEF SInv
<1>4. S!Return(t, S!Result(v, FALSE))
  BY <1>3 DEF S!CasFails, S!OnlyDirty
<1> HIDE DEF o, v
<1>5. SInv'
  <2>1. S!Result(v, FALSE) \in [old : Numbers(SmallBits, TRUE), ok : BOOLEAN]
    BY <1>3 DEF S!Result
  <2> QED  BY <1>1, <1>3, <1>4, <2>1, SReturn
<1>6. o.op \notin S!Abs!Updates
  BY <1>1 DEF CompareOps, S!Abs!Updates
<1>7. S!Abs!Leaves(o, v) = v /\ S!Abs!Succeeds(o, v) = FALSE
  BY <1>3, <1>6 DEF S!Abs!Leaves, S!Abs!Succeeds
<1>8. S!From32(sProxy') = v
  BY <1>1 DEF v
<1>9. S!Abs!Effect(t)
  BY <1>1, <1>4, <1>7, <1>8, SEffect DEF o, v
<1> QED  BY <1>5, <1>9

LEMMA SSteps ==
  SInv /\ [S!Next]_S!vars => SInv' /\ [S!Abs!CellsNext]_S!Abs!cellVars
<1> SUFFICES ASSUME SInv, [S!Next]_S!vars PROVE SInv' /\ [S!Abs!CellsNext]_S!Abs!cellVars
  OBVIOUS
<1>1. CASE UNCHANGED S!vars
  <2>1. SInv'
    BY <1>1 DEF S!vars, SInv
  <2>2. UNCHANGED S!Abs!cellVars
    BY <1>1 DEF S!vars, S!Abs!cellVars
  <2> QED  BY <2>1, <2>2
<1>2. ASSUME NEW t \in Thread, S!Call(t) \/ S!ThreadStep(t)
      PROVE  SInv' /\ (S!Abs!CellsNext \/ UNCHANGED S!Abs!cellVars)
  <2>1. CASE S!Call(t)
    BY <2>1, SBegin DEF S!Abs!CellsNext
  <2>2. CASE S!Access(t) \/ S!Fetch(t)
    BY <2>2, SApply DEF S!Abs!CellsNext
  <2>3. CASE S!CasSucceeds(t)
    BY <2>3, SCasSucceeds DEF S!Abs!CellsNext
  <2>4. CASE S!CasFails(t)
    BY <2>4, SCasFails DEF S!Abs!CellsNext
  <2>5. CASE S!Clean(t)
    BY <2>5 DEF S!Clean, SInv
  <2> QED  BY <1>2, <2>1, <2>2, <2>3, <2>4, <2>5 DEF S!ThreadStep
<1> QED  BY <1>1, <1>2 DEF S!Next
-----------------------------------------------------------------------------
(* The values that share a word: a guess is right about the value itself.  *)
PartValue == Numbers(PartBits, FALSE)
WordOps == {"exchange", "add", "sub", "and", "or", "xor", "max", "min", "strong"}
WordCall == [op : WordOps, cell : Parts, arg : PartValue, exp : PartValue]

\* What the attempts of t are based on.
Guessed(t) ==
  /\ wGuess[t][wCall[t].cell] = wExpected[t]
  /\ wCall[t].op = "strong" => wExpected[t] = wCall[t].exp

WInv ==
  /\ wWord \in [Parts -> PartValue]
  /\ wPc \in [Thread -> {"idle", "load", "try"}]
  /\ wCall \in [Thread -> WordCall \cup {W!NoCall}]
  /\ wExpected \in [Thread -> PartValue]
  /\ wGuess \in [Thread -> [Parts -> PartValue]]
  /\ wCalls \in 0..WordCalls
  /\ \A t \in Thread : (wPc[t] = "idle") <=> (wCall[t] = W!NoCall)
  /\ \A t \in Thread : wPc[t] = "try" => Guessed(t)

LEMMA WType ==
  WInv => W!TypeOK
BY WValues DEF WInv, W!TypeOK, PartValue

LEMMA WNumbers ==
  PartValue \subseteq Int /\ 0 \in PartValue
BY Widths, NumbersAreInt DEF PartValue

\* What the operations make of values.
LEMMA WUpdated ==
  ASSUME NEW op \in WordOps \ {"strong"}, NEW v \in PartValue, NEW a \in PartValue
  PROVE  /\ W!A!Updated(op, v, a) \in PartValue /\ W!Abs!Updated(op, v, a) = W!A!Updated(op, v, a)
         /\ op \in {"max", "min"} => W!A!Updated(op, v, a) \in {v, a}
<1>1. v \in Int /\ a \in Int /\ op \in UpdateOps
  BY WNumbers DEF WordOps, UpdateOps
<1>2. /\ IsUpdate(PartBits, FALSE, op, v, a, W!A!Updated(op, v, a))
      /\ W!Abs!Updated(op, v, a) = W!A!Updated(op, v, a)
  BY <1>1, WUpdates
<1>3. W!A!Updated(op, v, a) \in PartValue
  BY <1>1, <1>2, Widths, UpdateType DEF PartValue
<1>4. op \in {"max", "min"} => W!A!Updated(op, v, a) \in {v, a}
  BY <1>2 DEF IsUpdate
<1> QED  BY <1>2, <1>3, <1>4

LEMMA WInitial ==
  W!Init => WInv /\ W!Abs!CellsInit
<1> SUFFICES ASSUME W!Init PROVE WInv /\ W!Abs!CellsInit
  OBVIOUS
<1>1. /\ wWord \in [Parts -> PartValue] /\ wPc = [t \in Thread |-> "idle"]
      /\ wCall = [t \in Thread |-> W!NoCall] /\ wCalls = WordCalls
      /\ wExpected = [t \in Thread |-> 0] /\ wGuess = [t \in Thread |-> W!Zeros]
  BY WValues DEF W!Init, PartValue
<1>2. W!Zeros \in [Parts -> PartValue] /\ WordCalls \in Nat
  BY WNumbers, SuiteAssumption DEF W!Zeros, W!CallsAssumption
<1>3. wExpected \in [Thread -> PartValue] /\ wGuess \in [Thread -> [Parts -> PartValue]]
  BY <1>1, <1>2, WNumbers
<1>4. wCall \in [Thread -> WordCall \cup {W!NoCall}] /\ wPc \in [Thread -> {"idle", "load", "try"}]
  BY <1>1
<1>5. \A t \in Thread : wPc[t] = "idle" /\ wCall[t] = W!NoCall
  BY <1>1
<1>6. wCalls \in 0..WordCalls
  BY <1>1, <1>2
<1>7. WInv
  BY <1>1, <1>3, <1>4, <1>5, <1>6 DEF WInv
<1>8. W!Abs!CellsInit
  BY WValues DEF W!Init, W!Abs!CellsInit, W!NoCall, W!Abs!NoCall, W!Result, W!Abs!Result
<1> QED  BY <1>7, <1>8

LEMMA WInside ==
  ASSUME WInv, NEW t \in Thread, wPc[t] # "idle"
  PROVE  /\ wCall[t] \in WordCall /\ wCall[t] # W!NoCall
         /\ wCall[t].op \in WordOps /\ wCall[t].cell \in Parts
         /\ wCall[t].arg \in PartValue /\ wCall[t].exp \in PartValue
         /\ wWord[wCall[t].cell] \in PartValue /\ wExpected[t] \in PartValue
<1>1. wCall[t] \in WordCall /\ wCall[t] # W!NoCall
  BY DEF WInv
<1>2. wCall[t].cell \in Parts
  BY <1>1 DEF WordCall
<1> QED  BY <1>1, <1>2 DEF WordCall, WInv

LEMMA WReturn ==
  ASSUME WInv, NEW t \in Thread, NEW r, W!Return(t, r), wWord' \in [Parts -> PartValue], wCalls' = wCalls
  PROVE  WInv'
<1>1. 0 \in PartValue /\ W!Zeros \in [Parts -> PartValue]
  BY WNumbers DEF W!Zeros
<1>2. /\ wPc' = [wPc EXCEPT ![t] = "idle"] /\ wCall' = [wCall EXCEPT ![t] = W!NoCall]
      /\ wExpected' = [wExpected EXCEPT ![t] = 0] /\ wGuess' = [wGuess EXCEPT ![t] = W!Zeros]
  BY DEF W!Return
<1>3. \A s \in Thread : (wPc'[s] = "idle") <=> (wCall'[s] = W!NoCall)
  BY <1>2 DEF WInv
<1>4. \A s \in Thread : wPc'[s] = "try" => Guessed(s)'
  BY <1>2 DEF WInv, Guessed
<1>5. /\ wPc' \in [Thread -> {"idle", "load", "try"}] /\ wCall' \in [Thread -> WordCall \cup {W!NoCall}]
      /\ wExpected' \in [Thread -> PartValue] /\ wGuess' \in [Thread -> [Parts -> PartValue]]
  BY <1>1, <1>2 DEF WInv
<1> QED  BY <1>3, <1>4, <1>5 DEF WInv

\* The call of t takes effect when its cell gets what it leaves.
LEMMA WEffect ==
  ASSUME WInv, NEW t \in Thread, wPc[t] # "idle", NEW v, v = wWord[wCall[t].cell],
         W!Return(t, W!Result(v, W!Abs!Succeeds(wCall[t], v))),
         wWord' = [wWord EXCEPT ![wCall[t].cell] = W!Abs!Leaves(wCall[t], v)]
  PROVE  W!Abs!Effect(t)
<1>1. wCall[t] # W!NoCall /\ wCall[t].cell \in Parts
  BY WInside
<1> QED  BY <1>1 DEF W!Abs!Effect, W!Return, W!Abs!NoCall, W!NoCall, W!Result, W!Abs!Result

LEMMA WBegin ==
  ASSUME WInv, NEW t \in Thread, W!Call(t)
  PROVE  WInv' /\ W!Abs!Begin(t)
<1>1. PICK op \in WordOps, c \in Parts, arg \in PartValue, exp \in PartValue \cup {0} :
        wCall' = [wCall EXCEPT ![t] = [op |-> op, cell |-> c, arg |-> arg, exp |-> exp]]
  <2>1. PartValue = W!A!Value
    BY WValues DEF PartValue
  <2> QED  BY <2>1 DEF W!Call, WordOps
<1> DEFINE o == [op |-> op, cell |-> c, arg |-> arg, exp |-> exp]
<1>2. exp \in PartValue
  BY WNumbers
<1>3. o \in WordCall /\ o # W!NoCall /\ wCall' = [wCall EXCEPT ![t] = o]
  BY <1>1, <1>2 DEF WordCall, W!NoCall
<1>4. o \in [op : W!Abs!Updates \cup W!Abs!Compares, cell : Parts, arg : W!Abs!Value, exp : W!Abs!Value]
  BY <1>2, WValues DEF WordOps, W!Abs!Updates, W!Abs!Compares, PartValue
<1> HIDE DEF o
<1>5. /\ wPc[t] = "idle" /\ wPc' = [wPc EXCEPT ![t] = "load"] /\ wCalls > 0 /\ wCalls' = wCalls - 1
      /\ wWord' = wWord /\ wLast' = wLast /\ wExpected' = wExpected /\ wGuess' = wGuess
  BY DEF W!Call
<1>6. WInv'
  <2>1. wCalls' \in 0..WordCalls
    BY <1>5, SuiteAssumption DEF WInv, W!CallsAssumption
  <2>2. \A s \in Thread : (wPc'[s] = "idle") <=> (wCall'[s] = W!NoCall)
    BY <1>3, <1>5 DEF WInv
  <2>3. \A s \in Thread : wPc'[s] = "try" => Guessed(s)'
    BY <1>3, <1>5 DEF WInv, Guessed
  <2>4. wPc' \in [Thread -> {"idle", "load", "try"}] /\ wCall' \in [Thread -> WordCall \cup {W!NoCall}]
    BY <1>3, <1>5 DEF WInv
  <2> QED  BY <1>5, <2>1, <2>2, <2>3, <2>4 DEF WInv
<1>7. wCall[t] = W!NoCall /\ wCall'[t] = o
  BY <1>3, <1>5 DEF WInv
<1>8. W!Abs!Begin(t)
  BY <1>3, <1>4, <1>5, <1>7 DEF W!Abs!Begin, W!NoCall, W!Abs!NoCall
<1> QED  BY <1>6, <1>8

\* The operation goes on with v, the value of its cell or the one its caller
\* expects, or ends because max or min of v and its argument is v.
LEMMA WWith ==
  ASSUME WInv, NEW t \in Thread, wPc[t] # "idle", NEW v \in PartValue, W!With(t, v),
         IF wCall[t].op = "strong" THEN v = wCall[t].exp ELSE v = wWord[wCall[t].cell],
         wWord' = wWord, wCalls' = wCalls
  PROVE  WInv' /\ (W!Abs!Effect(t) \/ UNCHANGED W!Abs!cellVars)
<1> DEFINE o == wCall[t]
<1>1. /\ o.op \in WordOps /\ o.cell \in Parts /\ o.arg \in PartValue
  BY WInside
<1>2. CASE W!Stops(o, v)
  <2>1. /\ o.op \in {"max", "min"} /\ W!A!Updated(o.op, v, o.arg) # o.arg
        /\ W!Return(t, W!Result(v, TRUE))
    BY <1>2 DEF W!Stops, W!With
  <2>2. WInv'
    <3>1. wWord' \in [Parts -> PartValue]
      BY DEF WInv
    <3> HIDE DEF o
    <3> QED  BY <2>1, <3>1, WReturn
  <2>3. v = wWord[o.cell]
    BY <2>1
  <2>4. W!Abs!Leaves(o, v) = v /\ W!Abs!Succeeds(o, v) = TRUE
    <3>1. o.op \in WordOps \ {"strong"} /\ o.op \in W!Abs!Updates
      BY <2>1 DEF WordOps, W!Abs!Updates
    <3>2. W!Abs!Updated(o.op, v, o.arg) = v
      <4> HIDE DEF o
      <4> QED  BY <1>1, <2>1, <3>1, WUpdated
    <3> QED  BY <3>1, <3>2 DEF W!Abs!Leaves, W!Abs!Succeeds
  <2>5. wWord' = [wWord EXCEPT ![o.cell] = v]
    BY <1>1, <2>3 DEF WInv
  <2>6. W!Abs!Effect(t)
    BY <2>1, <2>3, <2>4, <2>5, WEffect
  <2> QED  BY <2>2, <2>6
<1>3. CASE ~W!Stops(o, v)
  <2>1. /\ wPc' = [wPc EXCEPT ![t] = "try"] /\ wExpected' = [wExpected EXCEPT ![t] = v]
        /\ wGuess' = [wGuess EXCEPT ![t] = W!FirstGuess(t, v)] /\ wCall' = wCall /\ wLast' = wLast
    BY <1>3 DEF W!With
  <2>2. W!FirstGuess(t, v) \in [Parts -> PartValue] /\ W!FirstGuess(t, v)[o.cell] = v
    BY <1>1, WNumbers DEF W!FirstGuess, W!Zeros
  <2>3. \A s \in Thread : wPc'[s] = "try" => Guessed(s)'
    BY <2>1, <2>2 DEF WInv, Guessed
  <2>4. \A s \in Thread : (wPc'[s] = "idle") <=> (wCall'[s] = W!NoCall)
    BY <2>1 DEF WInv
  <2>5. /\ wPc' \in [Thread -> {"idle", "load", "try"}] /\ wExpected' \in [Thread -> PartValue]
        /\ wGuess' \in [Thread -> [Parts -> PartValue]]
    BY <2>1, <2>2 DEF WInv
  <2>6. WInv'
    BY <2>1, <2>3, <2>4, <2>5 DEF WInv
  <2>7. UNCHANGED W!Abs!cellVars
    BY <2>1 DEF W!Abs!cellVars
  <2> QED  BY <2>6, <2>7
<1> QED  BY <1>2, <1>3

LEMMA WLoad ==
  ASSUME WInv, NEW t \in Thread, W!Load(t)
  PROVE  WInv' /\ (W!Abs!Effect(t) \/ UNCHANGED W!Abs!cellVars)
<1> DEFINE v == IF wCall[t].op \in W!A!Compares THEN wCall[t].exp ELSE wWord[wCall[t].cell]
<1>1. wPc[t] # "idle" /\ W!With(t, v) /\ wWord' = wWord /\ wCalls' = wCalls
  BY DEF W!Load
<1>2. wCall[t].op \in WordOps /\ wCall[t].exp \in PartValue /\ wWord[wCall[t].cell] \in PartValue
  BY <1>1, WInside
<1>3. wCall[t].op \in W!A!Compares <=> wCall[t].op = "strong"
  BY <1>2 DEF WordOps, W!A!Compares
<1>4. v \in PartValue /\ IF wCall[t].op = "strong" THEN v = wCall[t].exp ELSE v = wWord[wCall[t].cell]
  BY <1>2, <1>3
<1> HIDE DEF v
<1> QED  BY <1>1, <1>4, WWith

LEMMA WCasSucceeds ==
  ASSUME WInv, NEW t \in Thread, W!CasSucceeds(t)
  PROVE  WInv' /\ W!Abs!Effect(t)
<1> DEFINE o == wCall[t]
           v == wExpected[t]
<1>1. /\ wPc[t] = "try" /\ wPc[t] # "idle" /\ wWord = wGuess[t] /\ wWord' = [wWord EXCEPT ![o.cell] = W!Desired(t)]
      /\ W!Return(t, W!Result(v, TRUE)) /\ wCalls' = wCalls
  BY DEF W!CasSucceeds, W!Hits, W!Attempt
<1>2. /\ o.op \in WordOps /\ o.cell \in Parts /\ o.arg \in PartValue /\ v \in PartValue
  BY <1>1, WInside
<1>3. v = wWord[o.cell] /\ (o.op = "strong" => v = o.exp)
  BY <1>1 DEF WInv, Guessed
<1>4. W!Desired(t) \in PartValue /\ W!Desired(t) = W!Abs!Leaves(o, v) /\ W!Abs!Succeeds(o, v) = TRUE
  <2>1. CASE o.op = "strong"
    BY <1>2, <1>3, <2>1 DEF W!Desired, W!A!Compares, W!Abs!Leaves, W!Abs!Succeeds, W!Abs!Updates
  <2>2. CASE o.op # "strong"
    <3>1. o.op \in WordOps \ {"strong"} /\ o.op \in W!Abs!Updates /\ o.op \notin W!A!Compares
      BY <1>2, <2>2 DEF WordOps, W!Abs!Updates, W!A!Compares
    <3>2. W!A!Updated(o.op, v, o.arg) \in PartValue /\ W!Abs!Updated(o.op, v, o.arg) = W!A!Updated(o.op, v, o.arg)
      <4> HIDE DEF o, v
      <4> QED  BY <1>2, <3>1, WUpdated
    <3> QED  BY <3>1, <3>2 DEF W!Desired, W!Abs!Leaves, W!Abs!Succeeds
  <2> QED  BY <2>1, <2>2
<1>5. WInv'
  <2>1. wWord' \in [Parts -> PartValue]
    BY <1>1, <1>2, <1>4 DEF WInv
  <2> HIDE DEF o, v
  <2> QED  BY <1>1, <2>1, WReturn
<1>6. W!Abs!Effect(t)
  BY <1>1, <1>3, <1>4, WEffect
<1> QED  BY <1>5, <1>6

LEMMA WCasFails ==
  ASSUME WInv, NEW t \in Thread, W!CasFails(t)
  PROVE  WInv' /\ (W!Abs!Effect(t) \/ UNCHANGED W!Abs!cellVars)
<1> DEFINE o == wCall[t]
           v == wWord[o.cell]
<1>1. wPc[t] = "try" /\ wPc[t] # "idle" /\ wWord' = wWord /\ wCalls' = wCalls
  BY DEF W!CasFails
<1>2. o.op \in WordOps /\ o.cell \in Parts /\ v \in PartValue
  BY <1>1, WInside
<1>3. o.op \in W!A!Compares <=> o.op = "strong"
  BY <1>2 DEF WordOps, W!A!Compares
<1>4. \/ /\ v = wExpected[t] /\ wGuess' = [wGuess EXCEPT ![t] = wWord]
         /\ UNCHANGED <<wPc, wCall, wLast, wExpected>>
      \/ v # wExpected[t] /\ o.op = "strong" /\ W!Return(t, W!Result(v, FALSE))
      \/ v # wExpected[t] /\ o.op # "strong" /\ W!With(t, v)
  BY <1>3 DEF W!CasFails, W!NewGuess
<1>5. CASE /\ v = wExpected[t] /\ wGuess' = [wGuess EXCEPT ![t] = wWord]
           /\ UNCHANGED <<wPc, wCall, wLast, wExpected>>
  <2>1. \A s \in Thread : wPc'[s] = "try" => Guessed(s)'
    BY <1>1, <1>5 DEF WInv, Guessed
  <2>2. wGuess' \in [Thread -> [Parts -> PartValue]]
    BY <1>5 DEF WInv
  <2>3. WInv'
    BY <1>1, <1>5, <2>1, <2>2 DEF WInv
  <2>4. UNCHANGED W!Abs!cellVars
    BY <1>1, <1>5 DEF W!Abs!cellVars
  <2> QED  BY <2>3, <2>4
<1>6. CASE v # wExpected[t] /\ o.op = "strong" /\ W!Return(t, W!Result(v, FALSE))
  <2>1. WInv'
    <3>1. wWord' \in [Parts -> PartValue]
      BY <1>1 DEF WInv
    <3> HIDE DEF o, v
    <3> QED  BY <1>1, <1>6, <3>1, WReturn
  <2>2. v # o.exp
    BY <1>1, <1>6 DEF WInv, Guessed
  <2>3. W!Abs!Leaves(o, v) = v /\ W!Abs!Succeeds(o, v) = FALSE
    BY <1>6, <2>2 DEF W!Abs!Leaves, W!Abs!Succeeds, W!Abs!Updates
  <2>4. wWord' = [wWord EXCEPT ![o.cell] = v]
    BY <1>1, <1>2 DEF WInv
  <2>5. W!Abs!Effect(t)
    BY <1>1, <1>6, <2>3, <2>4, WEffect
  <2> QED  BY <2>1, <2>5
<1>7. CASE v # wExpected[t] /\ o.op # "strong" /\ W!With(t, v)
  BY <1>1, <1>2, <1>7, WWith
<1> QED  BY <1>4, <1>5, <1>6, <1>7

LEMMA WSteps ==
  WInv /\ [W!Next]_W!vars => WInv' /\ [W!Abs!CellsNext]_W!Abs!cellVars
<1> SUFFICES ASSUME WInv, [W!Next]_W!vars PROVE WInv' /\ [W!Abs!CellsNext]_W!Abs!cellVars
  OBVIOUS
<1>1. CASE UNCHANGED W!vars
  <2>1. WInv'
    BY <1>1 DEF W!vars, WInv, Guessed
  <2>2. UNCHANGED W!Abs!cellVars
    BY <1>1 DEF W!vars, W!Abs!cellVars
  <2> QED  BY <2>1, <2>2
<1>2. ASSUME NEW t \in Thread, W!Call(t) \/ W!ThreadStep(t)
      PROVE  WInv' /\ (W!Abs!CellsNext \/ UNCHANGED W!Abs!cellVars)
  <2>1. CASE W!Call(t)
    BY <2>1, WBegin DEF W!Abs!CellsNext
  <2>2. CASE W!Load(t)
    BY <2>2, WLoad DEF W!Abs!CellsNext
  <2>3. CASE W!CasSucceeds(t)
    BY <2>3, WCasSucceeds DEF W!Abs!CellsNext
  <2>4. CASE W!CasFails(t)
    BY <2>4, WCasFails DEF W!Abs!CellsNext
  <2> QED  BY <1>2, <2>1, <2>2, <2>3, <2>4 DEF W!ThreadStep
<1> QED  BY <1>1, <1>2 DEF W!Next
-----------------------------------------------------------------------------
(* The suite.                                                              *)
LEMMA SuiteInitial ==
  Init => U!Init /\ S!Init /\ W!Init
BY DEF Init

LEMMA SuiteSteps ==
  [Next]_allVars => [U!Next]_U!vars /\ [S!Next]_S!vars /\ [W!Next]_W!vars
<1> SUFFICES ASSUME [Next]_allVars
             PROVE  [U!Next]_U!vars /\ [S!Next]_S!vars /\ [W!Next]_W!vars
  OBVIOUS
<1>1. CASE UNCHANGED allVars
  BY <1>1 DEF allVars, uVars, sVars, wVars, U!vars, S!vars, W!vars
<1>2. ASSUME NEW t \in Thread, Begin(t) \/ Step(t)
      PROVE  \/ U!Next /\ UNCHANGED <<S!vars, W!vars>>
             \/ S!Next /\ UNCHANGED <<U!vars, W!vars>>
             \/ W!Next /\ UNCHANGED <<U!vars, S!vars>>
  <2>1. CASE (U!Call(t) \/ U!ThreadStep(t)) /\ UNCHANGED <<sVars, wVars>>
    BY <2>1 DEF U!Next, sVars, wVars, S!vars, W!vars
  <2>2. CASE (S!Call(t) \/ S!ThreadStep(t)) /\ UNCHANGED <<uVars, wVars>>
    BY <2>2 DEF S!Next, uVars, wVars, U!vars, W!vars
  <2>3. CASE (W!Call(t) \/ W!ThreadStep(t)) /\ UNCHANGED <<uVars, sVars>>
    BY <2>3 DEF W!Next, uVars, sVars, U!vars, S!vars
  <2> QED  BY <1>2, <2>1, <2>2, <2>3 DEF Begin, Step
<1> QED  BY <1>1, <1>2 DEF Next

(* The proxy of a small value is invisible (__cxx_atomic_base_small_impl): *)
(* whatever a carry left above an unsigned value, and with the least and   *)
(* the greatest signed value, the operations on 32 bits are, one step each *)
(* or a step that changes nothing, those of an atomic of the small type.   *)
THEOREM ProxyIsInvisible == Spec => ProxyImplements
<1>1. Init => UInv /\ SInv /\ U!Abs!CellsInit /\ S!Abs!CellsInit
  BY SuiteInitial, UInitial, SInitial
<1>2. UInv /\ SInv /\ [Next]_allVars
        => UInv' /\ SInv' /\ [U!Abs!CellsNext]_U!Abs!cellVars /\ [S!Abs!CellsNext]_S!Abs!cellVars
  BY SuiteSteps, USteps, SSteps
<1>3. UInv /\ SInv => U!TypeOK /\ S!TypeOK
  BY UType, SType
<1> QED  BY <1>1, <1>2, <1>3, PTL DEF Spec, ProxyImplements, U!Implements, S!Implements, U!Abs!CellsSpec, S!Abs!CellsSpec

(* The loops of compare_exchange on an aligned word are atomic operations  *)
(* on the value they name and leave the neighbours as other threads left   *)
(* them: an attempt succeeds only on the word it was computed from.        *)
THEOREM WordIsShared == Spec => WordImplements
<1>1. Init => WInv /\ W!Abs!CellsInit
  BY SuiteInitial, WInitial
<1>2. WInv /\ [Next]_allVars => WInv' /\ [W!Abs!CellsNext]_W!Abs!cellVars
  BY SuiteSteps, WSteps
<1>3. WInv => W!TypeOK
  BY WType
<1> QED  BY <1>1, <1>2, <1>3, PTL DEF Spec, WordImplements, W!Implements, W!Abs!CellsSpec

=============================================================================
