--------------------------- MODULE NodeIDByteProofs ---------------------------
(***************************************************************************)
(* Identifiers as arrays of bytes are those of NodeIDs, for every length of *)
(* a byte and of an identifier.                                            *)
(***************************************************************************)
EXTENDS NodeIDBytes, FiniteSetTheorems, TLAPS

\* A set of numbers that is not empty has a least element.
LEMMA LeastNumber ==
    ASSUME NEW T \in SUBSET Nat, T # {}
    PROVE  \E i \in T : \A j \in T : i <= j
<1>1. PICK n \in T : TRUE
  OBVIOUS
<1> DEFINE U     == T \cap (0 .. n)
           Below == {0 .. i : i \in U}
           R     == StrictSubsetOrdering(0 .. n)
<1>2. n \in Nat /\ n \in U /\ U \subseteq 0 .. n
  BY <1>1
<1>3. IsFiniteSet(0 .. n)
  BY <1>2, FS_Interval
<1>4. IsWellFoundedOn(R, SUBSET (0 .. n))
  BY <1>3, FS_FiniteSubsetsOfFinite, FS_StrictSubsetOrderingWellFounded
<1>5. Below # {} /\ Below \subseteq SUBSET (0 .. n)
  BY <1>2
<1>6. PICK x \in Below : \A y \in Below : <<y, x>> \notin R
  <2> HIDE DEF Below, R
  <2> QED
    BY <1>4, <1>5, WFMin
<1>7. PICK i \in U : x = 0 .. i
  BY <1>6
<1>8. ASSUME NEW j \in T, j < i PROVE FALSE
  <2>1. j \in U
    BY <1>2, <1>8
  <2>2. 0 .. j \in Below /\ 0 .. j \subseteq 0 .. i /\ 0 .. j # 0 .. i
    BY <1>2, <1>8, <2>1
  <2>3. 0 .. j \in SUBSET (0 .. n) /\ x \in SUBSET (0 .. n)
    BY <1>5, <2>2
  <2> HIDE DEF Below
  <2> QED
    BY <1>6, <1>7, <2>2, <2>3 DEF StrictSubsetOrdering
<1>9. \A j \in T : i <= j
  BY <1>8
<1> QED
  BY <1>7, <1>9

\* So what holds of 0, and of n + 1 when it holds of n, holds of all.
LEMMA Induction ==
    ASSUME NEW S, 0 \in S, \A n \in Nat : n \in S => n + 1 \in S
    PROVE  \A n \in Nat : n \in S
<1> DEFINE T == {n \in Nat : n \notin S}
<1>1. SUFFICES ASSUME T # {} PROVE FALSE
  OBVIOUS
<1>2. PICK i \in T : \A j \in T : i <= j
  <2>1. T \in SUBSET Nat
    OBVIOUS
  <2> HIDE DEF T
  <2> QED
    BY <1>1, <2>1, LeastNumber
<1>3. i \in Nat /\ i # 0 /\ i \notin S
  OBVIOUS
<1>4. i - 1 \in Nat /\ i - 1 \notin T
  BY <1>2, <1>3
<1>5. i - 1 \in S /\ (i - 1) + 1 = i
  BY <1>3, <1>4
<1> QED
  BY <1>3, <1>4, <1>5

-----------------------------------------------------------------------------
(* Powers of two.                                                          *)

\* There is a function as PowerOfTwo wants it.
LEMMA PowersExist ==
    \A m \in Nat : \E f : f = [n \in 0 .. m |-> IF n = 0 THEN 1 ELSE 2 * f[n - 1]]
<1> DEFINE S == {m \in Nat : \E f : f = [n \in 0 .. m |-> IF n = 0 THEN 1 ELSE 2 * f[n - 1]]}
<1>1. 0 \in S
  <2> DEFINE f == [n \in 0 .. 0 |-> 1]
  <2>1. f = [n \in 0 .. 0 |-> IF n = 0 THEN 1 ELSE 2 * f[n - 1]]
    OBVIOUS
  <2> QED
    BY <2>1
<1>2. ASSUME NEW m \in Nat, m \in S PROVE m + 1 \in S
  <2>1. PICK f : f = [n \in 0 .. m |-> IF n = 0 THEN 1 ELSE 2 * f[n - 1]]
    BY <1>2
  <2> DEFINE g == [n \in 0 .. m + 1 |-> IF n <= m THEN f[n] ELSE 2 * f[m]]
  <2>2. ASSUME NEW n \in 0 .. m + 1
        PROVE  g[n] = IF n = 0 THEN 1 ELSE 2 * g[n - 1]
    <3>1. CASE n = 0
      <4>1. f[0] = 1
        BY <2>1
      <4> QED
        BY <3>1, <4>1
    <3>2. CASE n # 0 /\ n <= m
      <4>1. n \in 0 .. m /\ n - 1 \in 0 .. m + 1 /\ n - 1 <= m
        BY <3>2
      <4>2. f[n] = 2 * f[n - 1]
        BY <2>1, <3>2, <4>1
      <4>3. g[n] = f[n] /\ g[n - 1] = f[n - 1]
        BY <3>2, <4>1
      <4> QED
        BY <3>2, <4>2, <4>3
    <3>3. CASE n = m + 1
      <4>1. g[n] = 2 * f[m] /\ g[n - 1] = f[m]
        BY <3>3
      <4> QED
        BY <3>3, <4>1
    <3> QED
      BY <3>1, <3>2, <3>3
  <2>3. g = [n \in 0 .. m + 1 |-> g[n]]
    OBVIOUS
  <2> HIDE DEF g
  <2>4. g = [n \in 0 .. m + 1 |-> IF n = 0 THEN 1 ELSE 2 * g[n - 1]]
    <3>1. [n \in 0 .. m + 1 |-> g[n]] = [n \in 0 .. m + 1 |-> IF n = 0 THEN 1 ELSE 2 * g[n - 1]]
      BY <2>2
    <3> QED
      BY <2>3, <3>1
  <2>5. m + 1 \in Nat
    OBVIOUS
  <2> QED
    BY <2>4, <2>5
<1> HIDE DEF S
<1>3. \A m \in Nat : m \in S
  BY <1>1, <1>2, Induction
<1> QED
  BY <1>3 DEF S

\* The first is 1, every other one twice the one before.
LEMMA PowerFacts ==
    /\ PowerOfTwo[0] = 1
    /\ \A n \in 0 .. ByteBits - 1 : PowerOfTwo[n + 1] = 2 * PowerOfTwo[n]
    /\ \A n \in 0 .. ByteBits : PowerOfTwo[n] \in Nat \ {0}
<1>1. ByteBits \in Nat \ {0}
  BY SizesAssumption
<1>2. PowerOfTwo = [n \in 0 .. ByteBits |-> IF n = 0 THEN 1 ELSE 2 * PowerOfTwo[n - 1]]
  BY <1>1, PowersExist DEF PowerOfTwo
<1>3. PowerOfTwo[0] = 1
  BY <1>1, <1>2
<1>4. ASSUME NEW n \in 0 .. ByteBits - 1 PROVE PowerOfTwo[n + 1] = 2 * PowerOfTwo[n]
  <2>1. n + 1 \in 0 .. ByteBits /\ n + 1 # 0 /\ (n + 1) - 1 = n
    BY <1>1
  <2> QED
    BY <1>2, <2>1
<1> DEFINE S == {n \in Nat : n <= ByteBits => PowerOfTwo[n] \in Nat \ {0}}
<1>5. 0 \in S
  BY <1>3
<1>6. ASSUME NEW n \in Nat, n \in S PROVE n + 1 \in S
  BY <1>1, <1>4, <1>6
<1> HIDE DEF S
<1>7. \A n \in Nat : n \in S
  BY <1>5, <1>6, Induction
<1> QED
  BY <1>1, <1>3, <1>4, <1>7 DEF S

\* Every power of two is an even multiple of every smaller one.
LEMMA PowerDivides ==
    ASSUME NEW j \in Nat, NEW w \in Nat, j < w, w <= ByteBits
    PROVE  \E m \in Nat \ {0} : PowerOfTwo[w] = 2 * m * PowerOfTwo[j]
<1> DEFINE S == {d \in Nat : j + d + 1 <= ByteBits =>
                   \E m \in Nat \ {0} : PowerOfTwo[j + d + 1] = 2 * m * PowerOfTwo[j]}
<1>1. ByteBits \in Nat \ {0}
  BY SizesAssumption
<1>2. 0 \in S
  <2>1. ASSUME j + 0 + 1 <= ByteBits PROVE PowerOfTwo[j + 0 + 1] = 2 * 1 * PowerOfTwo[j]
    <3>1. j \in 0 .. ByteBits - 1 /\ j \in 0 .. ByteBits
      BY <1>1, <2>1
    <3>2. PowerOfTwo[j + 1] = 2 * PowerOfTwo[j] /\ j + 0 + 1 = j + 1
      BY <3>1, PowerFacts
    <3> QED
      BY <3>2
  <2> QED
    BY <2>1
<1>3. ASSUME NEW d \in Nat, d \in S PROVE d + 1 \in S
  <2>1. SUFFICES ASSUME j + d + 2 <= ByteBits
                 PROVE  \E m \in Nat \ {0} : PowerOfTwo[j + d + 2] = 2 * m * PowerOfTwo[j]
    <3>1. j + (d + 1) + 1 = j + d + 2 /\ d + 1 \in Nat
      OBVIOUS
    <3> QED
      BY <3>1
  <2>2. PICK m \in Nat \ {0} : PowerOfTwo[j + d + 1] = 2 * m * PowerOfTwo[j]
    BY <1>1, <1>3, <2>1
  <2>3. j + d + 1 \in 0 .. ByteBits - 1 /\ (j + d + 1) + 1 = j + d + 2 /\ j \in 0 .. ByteBits
    BY <1>1, <2>1
  <2>4. PowerOfTwo[j + d + 2] = 2 * PowerOfTwo[j + d + 1] /\ PowerOfTwo[j] \in Nat
    BY <2>3, PowerFacts
  <2>5. PowerOfTwo[j + d + 2] = 2 * (2 * m * PowerOfTwo[j])
    BY <2>2, <2>4
  <2> HIDE DEF S
  <2>6. 2 * (2 * m * PowerOfTwo[j]) = 2 * (2 * m) * PowerOfTwo[j] /\ 2 * m \in Nat \ {0}
    BY <2>4, Z3
  <2> QED
    BY <2>5, <2>6
<1> HIDE DEF S
<1>4. \A d \in Nat : d \in S
  BY <1>2, <1>3, Induction
<1>5. w - j - 1 \in Nat /\ j + (w - j - 1) + 1 = w
  OBVIOUS
<1> QED
  BY <1>4, <1>5 DEF S

-----------------------------------------------------------------------------
(* The bits of a number.                                                   *)

\* What dividing means.
LEMMA Quotient ==
    ASSUME NEW x \in Nat, NEW d \in Nat \ {0}
    PROVE  /\ x \div d \in Nat
           /\ \A q \in Nat : q * d <= x /\ x < q * d + d => x \div d = q
  BY Z3

\* A multiple of the divisor is added to the quotient.
LEMMA QuotientAdds ==
    ASSUME NEW x \in Nat, NEW d \in Nat \ {0}, NEW m \in Nat
    PROVE  (x + m * d) \div d = x \div d + m
  BY Z3

\* An even number more does not change whether a number is odd.
LEMMA Parity ==
    ASSUME NEW x \in Nat, NEW m \in Nat
    PROVE  x % 2 \in {0, 1} /\ (x + 2 * m) % 2 = x % 2 /\ (2 * m) % 2 = 0 /\ (2 * m + 1) % 2 = 1
  BY Z3

\* A place of a byte has its power of two.
LEMMA Places ==
    /\ ByteBits \in Nat \ {0}
    /\ \A j \in Place : /\ j \in Nat /\ j < ByteBits /\ j \in 0 .. ByteBits
                        /\ PowerOfTwo[j] \in Nat \ {0}
    /\ PowerOfTwo[ByteBits] \in Nat \ {0}
    /\ \A j \in Nat : j < ByteBits => j \in Place
<1>1. ByteBits \in Nat \ {0}
  BY SizesAssumption
<1> QED
  BY <1>1, PowerFacts DEF Place

\* A bit is 0 or 1.
LEMMA BitType ==
    ASSUME NEW x \in Nat, NEW j \in Place
    PROVE  Bit(x, j) \in {0, 1}
<1>1. PowerOfTwo[j] \in Nat \ {0}
  BY Places
<1>2. x \div PowerOfTwo[j] \in Nat
  BY <1>1, Quotient
<1> QED
  BY <1>2, Parity DEF Bit

\* Below a power of two its bit is 0, from there to the next one it is 1.
LEMMA TopBit ==
    ASSUME NEW x \in Nat, NEW j \in Place, x < 2 * PowerOfTwo[j]
    PROVE  Bit(x, j) = IF x < PowerOfTwo[j] THEN 0 ELSE 1
<1>1. PowerOfTwo[j] \in Nat \ {0}
  BY Places
<1>2. CASE x < PowerOfTwo[j]
  <2>1. x \div PowerOfTwo[j] = 0
    BY <1>1, <1>2, Quotient
  <2> QED
    BY <1>2, <2>1 DEF Bit
<1>3. CASE ~(x < PowerOfTwo[j])
  <2>1. x \div PowerOfTwo[j] = 1
    BY <1>1, <1>3, Quotient
  <2> QED
    BY <1>3, <2>1 DEF Bit
<1> QED
  BY <1>2, <1>3

\* Adding a power of two leaves the bits below it alone.
LEMMA LowBits ==
    ASSUME NEW x \in Nat, NEW j \in Place, NEW w \in Nat, j < w, w <= ByteBits
    PROVE  Bit(x + PowerOfTwo[w], j) = Bit(x, j)
<1>1. PowerOfTwo[j] \in Nat \ {0} /\ j \in Nat
  BY Places
<1>2. PICK m \in Nat \ {0} : PowerOfTwo[w] = 2 * m * PowerOfTwo[j]
  BY <1>1, PowerDivides
<1>3. 2 * m \in Nat
  OBVIOUS
<1>4. (x + (2 * m) * PowerOfTwo[j]) \div PowerOfTwo[j] = x \div PowerOfTwo[j] + 2 * m
  BY <1>1, <1>3, QuotientAdds
<1>5. x \div PowerOfTwo[j] \in Nat
  BY <1>1, Quotient
<1>6. (x \div PowerOfTwo[j] + 2 * m) % 2 = (x \div PowerOfTwo[j]) % 2
  BY <1>5, Parity
<1> QED
  BY <1>2, <1>4, <1>6 DEF Bit

\* The bits below w of the numbers below the w-th power of two: any are those of one,
\* and of two different numbers, the smaller one is 0 at the last place they differ.
LEMMA BitsBelow ==
    ASSUME NEW w \in Nat, w <= ByteBits
    PROVE  /\ \A f \in [Place -> {0, 1}] :
                 \E x \in Nat : /\ x < PowerOfTwo[w]
                                /\ \A j \in Place : j < w => Bit(x, j) = f[j]
           /\ \A x, y \in Nat :
                 x < y /\ y < PowerOfTwo[w] =>
                    \E j \in Place : /\ j < w /\ Bit(x, j) = 0 /\ Bit(y, j) = 1
                                     /\ \A k \in Place : j < k /\ k < w => Bit(x, k) = Bit(y, k)
<1> DEFINE Some(n) == \A f \in [Place -> {0, 1}] :
                         \E x \in Nat : /\ x < PowerOfTwo[n]
                                        /\ \A j \in Place : j < n => Bit(x, j) = f[j]
           LastAt(x, y, n, j) ==
              /\ j < n /\ Bit(x, j) = 0 /\ Bit(y, j) = 1
              /\ \A k \in Place : j < k /\ k < n => Bit(x, k) = Bit(y, k)
           Order(n) == \A x, y \in Nat :
                          x < y /\ y < PowerOfTwo[n] => \E j \in Place : LastAt(x, y, n, j)
           S == {n \in Nat : n <= ByteBits => Some(n) /\ Order(n)}
<1>1. 0 \in S
  <2>1. PowerOfTwo[0] = 1
    BY PowerFacts
  <2>2. Some(0)
    <3>1. \A j \in Place : ~(j < 0)
      BY Places
    <3> QED
      BY <2>1, <3>1
  <2>3. Order(0)
    BY <2>1
  <2> QED
    BY <2>2, <2>3
<1>2. ASSUME NEW n \in Nat, n \in S PROVE n + 1 \in S
  <2>1. SUFFICES ASSUME n + 1 <= ByteBits PROVE Some(n + 1) /\ Order(n + 1)
    OBVIOUS
  <2>2. Some(n) /\ Order(n)
    BY <1>2, <2>1, Places
  <2>3. /\ n \in Place /\ n <= ByteBits
        /\ PowerOfTwo[n] \in Nat \ {0} /\ PowerOfTwo[n + 1] = 2 * PowerOfTwo[n]
    <3>1. n \in Place /\ n \in 0 .. ByteBits - 1 /\ n <= ByteBits
      BY <2>1, Places
    <3> QED
      BY <3>1, Places, PowerFacts
  <2>4. \A j \in Place : j < n + 1 <=> j < n \/ j = n
    BY Places
  <2>5. ASSUME NEW x \in Nat, NEW j \in Place, j < n
        PROVE  Bit(x + PowerOfTwo[n], j) = Bit(x, j)
    BY <2>3, <2>5, LowBits
  <2>6. ASSUME NEW x \in Nat, x < PowerOfTwo[n + 1]
        PROVE  Bit(x, n) = IF x < PowerOfTwo[n] THEN 0 ELSE 1
    BY <2>3, <2>6, TopBit
  <2>7. Some(n + 1)
    <3>1. SUFFICES ASSUME NEW f \in [Place -> {0, 1}]
                   PROVE  \E x \in Nat : /\ x < PowerOfTwo[n + 1]
                                         /\ \A j \in Place : j < n + 1 => Bit(x, j) = f[j]
      OBVIOUS
    <3>2. PICK x \in Nat : x < PowerOfTwo[n] /\ \A j \in Place : j < n => Bit(x, j) = f[j]
      BY <2>2
    <3>3. CASE f[n] = 0
      <4>1. x < PowerOfTwo[n + 1] /\ Bit(x, n) = 0
        BY <2>3, <2>6, <3>2
      <4>2. \A j \in Place : j < n + 1 => Bit(x, j) = f[j]
        BY <2>4, <3>2, <3>3, <4>1
      <4> QED
        BY <4>1, <4>2
    <3>4. CASE f[n] = 1
      <4> DEFINE y == x + PowerOfTwo[n]
      <4>1. y \in Nat /\ y < PowerOfTwo[n + 1] /\ ~(y < PowerOfTwo[n])
        BY <2>3, <3>2
      <4>2. Bit(y, n) = 1
        BY <2>6, <4>1
      <4>3. \A j \in Place : j < n => Bit(y, j) = f[j]
        BY <2>5, <3>2
      <4> HIDE DEF y
      <4>4. \A j \in Place : j < n + 1 => Bit(y, j) = f[j]
        BY <2>4, <3>4, <4>2, <4>3
      <4> QED
        BY <4>1, <4>4
    <3> QED
      BY <2>3, <3>3, <3>4
  <2>8. Order(n + 1)
    <3>1. SUFFICES ASSUME NEW x \in Nat, NEW y \in Nat, x < y, y < PowerOfTwo[n + 1]
                   PROVE  \E j \in Place : LastAt(x, y, n + 1, j)
      OBVIOUS
    <3>2. x < PowerOfTwo[n + 1]
      BY <2>3, <3>1
    <3>3. CASE ~(x < PowerOfTwo[n]) \/ y < PowerOfTwo[n]
      <4>1. Bit(x, n) = Bit(y, n)
        BY <2>3, <2>6, <3>1, <3>2, <3>3
      <4>2. \E j \in Place : LastAt(x, y, n, j)
        <5>1. CASE y < PowerOfTwo[n]
          BY <2>2, <3>1, <5>1
        <5>2. CASE ~(x < PowerOfTwo[n])
          <6> DEFINE u == x - PowerOfTwo[n]
                     v == y - PowerOfTwo[n]
          <6>1. /\ u \in Nat /\ v \in Nat /\ u < v /\ v < PowerOfTwo[n]
                /\ u + PowerOfTwo[n] = x /\ v + PowerOfTwo[n] = y
            BY <2>3, <3>1, <5>2
          <6> HIDE DEF u, v
          <6>2. PICK j \in Place : LastAt(u, v, n, j)
            BY <2>2, <6>1
          <6>3. \A k \in Place : k < n => Bit(x, k) = Bit(u, k) /\ Bit(y, k) = Bit(v, k)
            BY <2>5, <6>1
          <6>4. LastAt(x, y, n, j)
            BY <6>2, <6>3
          <6> QED
            BY <6>4
        <5> QED
          BY <3>3, <5>1, <5>2
      <4>3. PICK j \in Place : LastAt(x, y, n, j)
        BY <4>2
      <4>4. LastAt(x, y, n + 1, j)
        BY <2>4, <4>1, <4>3
      <4> QED
        BY <4>4
    <3>4. CASE x < PowerOfTwo[n] /\ ~(y < PowerOfTwo[n])
      <4>1. Bit(x, n) = 0 /\ Bit(y, n) = 1
        BY <2>6, <3>1, <3>2, <3>4
      <4>2. \A k \in Place : ~(n < k /\ k < n + 1)
        BY Places
      <4>3. LastAt(x, y, n + 1, n)
        BY <4>1, <4>2
      <4> QED
        BY <2>3, <4>3
    <3> QED
      BY <3>3, <3>4
  <2> HIDE DEF Some, Order
  <2> QED
    BY <2>7, <2>8
<1> HIDE DEF S
<1>3. \A n \in Nat : n \in S
  BY <1>1, <1>2, Induction
<1> QED
  BY <1>3 DEF S

-----------------------------------------------------------------------------
(* The operators on bytes.                                                 *)

\* The bytes are the numbers below 2 to the number of their bits.
LEMMA ByteIs == \A x : x \in Byte <=> x \in Nat /\ x < PowerOfTwo[ByteBits]
BY Places DEF Byte

\* Any bits are those of a byte.
LEMMA ByteWithFacts ==
    ASSUME NEW f \in [Place -> {0, 1}]
    PROVE  ByteWith(f) \in Byte /\ \A j \in Place : Bit(ByteWith(f), j) = f[j]
<1>1. ByteBits \in Nat /\ ByteBits <= ByteBits /\ \A j \in Place : j < ByteBits
  BY Places
<1>2. \E x \in Nat : /\ x < PowerOfTwo[ByteBits]
                     /\ \A j \in Place : j < ByteBits => Bit(x, j) = f[j]
  BY <1>1, BitsBelow
<1>3. \E x \in Byte : \A j \in Place : Bit(x, j) = f[j]
  BY <1>1, <1>2, ByteIs
<1> QED
  BY <1>3 DEF ByteWith

\* The highest bit two bytes differ at tells which is the smaller one.
LEMMA ByteOrder ==
    ASSUME NEW x \in Byte, NEW y \in Byte
    PROVE  x < y <=> \E j \in Place : /\ Bit(x, j) = 0 /\ Bit(y, j) = 1
                                      /\ \A k \in Place : j < k => Bit(x, k) = Bit(y, k)
<1> DEFINE Last(a, b, j) == /\ Bit(a, j) = 0 /\ Bit(b, j) = 1
                            /\ \A k \in Place : j < k => Bit(a, k) = Bit(b, k)
<1>1. /\ ByteBits \in Nat /\ ByteBits <= ByteBits
      /\ \A j \in Place : j < ByteBits /\ j \in Nat
  BY Places
<1>2. ASSUME NEW a \in Byte, NEW b \in Byte, a < b PROVE \E j \in Place : Last(a, b, j)
  <2>1. a \in Nat /\ b \in Nat /\ b < PowerOfTwo[ByteBits]
    BY ByteIs
  <2>2. PICK j \in Place :
              /\ j < ByteBits /\ Bit(a, j) = 0 /\ Bit(b, j) = 1
              /\ \A k \in Place : j < k /\ k < ByteBits => Bit(a, k) = Bit(b, k)
    BY <1>1, <1>2, <2>1, BitsBelow
  <2> QED
    BY <1>1, <2>2
<1>3. ASSUME NEW j \in Place, Last(x, y, j) PROVE x < y
  <2>1. SUFFICES ASSUME ~(x < y) PROVE FALSE
    OBVIOUS
  <2>2. x \in Nat /\ y \in Nat /\ x # y
    BY <1>3, ByteIs
  <2>3. y < x
    BY <2>1, <2>2
  <2>4. PICK i \in Place : Last(y, x, i)
    BY <1>2, <2>3
  <2>5. i \in Nat /\ j \in Nat
    BY <1>1
  <2>6. CASE i < j
    BY <1>3, <2>4, <2>6
  <2>7. CASE j < i
    BY <1>3, <2>4, <2>7
  <2>8. CASE i = j
    BY <1>3, <2>4, <2>8
  <2> QED
    BY <2>5, <2>6, <2>7, <2>8
<1> QED
  BY <1>2, <1>3

\* A byte is its bits.
LEMMA SameBits ==
    ASSUME NEW x \in Byte, NEW y \in Byte, \A j \in Place : Bit(x, j) = Bit(y, j)
    PROVE  x = y
<1>1. ~(x < y) /\ ~(y < x)
  BY ByteOrder
<1>2. x \in Nat /\ y \in Nat
  BY ByteIs
<1> QED
  BY <1>1, <1>2

\* What the operators do to each bit.
LEMMA OperatorFacts ==
    ASSUME NEW x \in Byte, NEW y \in Byte
    PROVE  /\ x & y \in Byte /\ x | y \in Byte /\ x ^^ y \in Byte /\ AndNot(x, y) \in Byte
           /\ \A j \in Place :
                 /\ Bit(x, j) \in {0, 1}
                 /\ Bit(x & y, j) = IF Bit(x, j) = 1 THEN Bit(y, j) ELSE 0
                 /\ Bit(x | y, j) = IF Bit(x, j) = 1 THEN 1 ELSE Bit(y, j)
                 /\ Bit(x ^^ y, j) = IF Bit(x, j) = Bit(y, j) THEN 0 ELSE 1
                 /\ Bit(AndNot(x, y), j) = IF Bit(y, j) = 1 THEN 0 ELSE Bit(x, j)
<1>1. x \in Nat /\ y \in Nat
  BY ByteIs
<1>2. \A j \in Place : Bit(x, j) \in {0, 1} /\ Bit(y, j) \in {0, 1}
  BY <1>1, BitType
<1> DEFINE and  == [j \in Place |-> IF Bit(x, j) = 1 THEN Bit(y, j) ELSE 0]
           or   == [j \in Place |-> IF Bit(x, j) = 1 THEN 1 ELSE Bit(y, j)]
           xor  == [j \in Place |-> IF Bit(x, j) = Bit(y, j) THEN 0 ELSE 1]
           not  == [j \in Place |-> IF Bit(y, j) = 1 THEN 0 ELSE Bit(x, j)]
<1>3. /\ and \in [Place -> {0, 1}] /\ or \in [Place -> {0, 1}]
      /\ xor \in [Place -> {0, 1}] /\ not \in [Place -> {0, 1}]
  BY <1>2
<1>4. x & y = ByteWith(and) /\ x | y = ByteWith(or)
  BY DEF &, |
<1>5. x ^^ y = ByteWith(xor) /\ AndNot(x, y) = ByteWith(not)
  BY DEF ^^, AndNot
<1>6. /\ \A j \in Place : and[j] = IF Bit(x, j) = 1 THEN Bit(y, j) ELSE 0
      /\ \A j \in Place : or[j] = IF Bit(x, j) = 1 THEN 1 ELSE Bit(y, j)
      /\ \A j \in Place : xor[j] = IF Bit(x, j) = Bit(y, j) THEN 0 ELSE 1
      /\ \A j \in Place : not[j] = IF Bit(y, j) = 1 THEN 0 ELSE Bit(x, j)
  OBVIOUS
<1> HIDE DEF and, or, xor, not
<1> QED
  BY <1>2, <1>3, <1>4, <1>5, <1>6, ByteWithFacts

\* A power of two has one bit, 0 has none, and what is left of the powers of two below
\* the m-th has those from m on.
LEMMA ConstantBits ==
    /\ 0 \in Byte /\ \A k \in Place : Bit(0, k) = 0
    /\ \A j \in Place : /\ PowerOfTwo[j] \in Byte
                        /\ \A k \in Place : Bit(PowerOfTwo[j], k) = IF k = j THEN 1 ELSE 0
    /\ \A m \in 0 .. ByteBits :
          /\ PowerOfTwo[m] \in Nat \ {0} /\ PowerOfTwo[m] <= PowerOfTwo[ByteBits]
          /\ PowerOfTwo[ByteBits] - PowerOfTwo[m] \in Byte
          /\ \A k \in Place :
                Bit(PowerOfTwo[ByteBits] - PowerOfTwo[m], k) = IF k < m THEN 0 ELSE 1
<1>1. ASSUME NEW k \in Place, NEW w \in Nat, k < w, w <= ByteBits
      PROVE  \E m \in Nat \ {0} : PowerOfTwo[w] = 2 * m * PowerOfTwo[k]
  BY <1>1, Places, PowerDivides
<1>2. ASSUME NEW j \in Nat, NEW w \in Nat, j < w, w <= ByteBits
      PROVE  PowerOfTwo[j] < PowerOfTwo[w]
  <2>1. PICK m \in Nat \ {0} : PowerOfTwo[w] = 2 * m * PowerOfTwo[j]
    BY <1>2, PowerDivides
  <2>2. PowerOfTwo[j] \in Nat \ {0}
    BY <1>2, Places, PowerFacts
  <2>3. PowerOfTwo[j] < 2 * m * PowerOfTwo[j]
    BY <2>2, Z3
  <2> QED
    BY <2>1, <2>3
<1>3. ASSUME NEW d \in Nat \ {0}, NEW q \in Nat PROVE (q * d) \div d = q
  BY Z3
<1>4. 0 \in Byte /\ \A k \in Place : Bit(0, k) = 0
  <2>1. 0 \in Byte
    BY ByteIs, Places
  <2>2. ASSUME NEW k \in Place PROVE Bit(0, k) = 0
    <3>1. PowerOfTwo[k] \in Nat \ {0}
      BY Places
    <3>2. 0 < PowerOfTwo[k] /\ 0 < 2 * PowerOfTwo[k]
      BY <3>1
    <3> QED
      BY <3>2, TopBit
  <2> QED
    BY <2>1, <2>2
<1>5. ASSUME NEW j \in Place
      PROVE  /\ PowerOfTwo[j] \in Byte
             /\ \A k \in Place : Bit(PowerOfTwo[j], k) = IF k = j THEN 1 ELSE 0
  <2>1. /\ j \in Nat /\ j < ByteBits /\ PowerOfTwo[j] \in Nat \ {0}
        /\ ByteBits \in Nat /\ ByteBits <= ByteBits
    BY Places
  <2>2. PowerOfTwo[j] \in Byte
    BY <1>2, <2>1, ByteIs
  <2>3. ASSUME NEW k \in Place PROVE Bit(PowerOfTwo[j], k) = IF k = j THEN 1 ELSE 0
    <3>1. k \in Nat /\ k < ByteBits /\ PowerOfTwo[k] \in Nat \ {0}
      BY Places
    <3>2. CASE k < j
      <4>1. PowerOfTwo[j] = 0 + PowerOfTwo[j] /\ j <= ByteBits
        BY <2>1
      <4>2. Bit(0 + PowerOfTwo[j], k) = Bit(0, k)
        BY <2>1, <3>2, <4>1, LowBits
      <4> QED
        BY <1>4, <2>1, <3>1, <3>2, <4>1, <4>2
    <3>3. CASE k = j
      <4>1. PowerOfTwo[j] < 2 * PowerOfTwo[k] /\ ~(PowerOfTwo[j] < PowerOfTwo[k])
        BY <2>1, <3>3
      <4> QED
        BY <2>1, <3>3, <4>1, TopBit
    <3>4. CASE j < k
      <4>1. PowerOfTwo[j] < PowerOfTwo[k]
        BY <1>2, <2>1, <3>1, <3>4
      <4>2. PowerOfTwo[j] < 2 * PowerOfTwo[k]
        BY <2>1, <3>1, <4>1
      <4> QED
        BY <2>1, <3>1, <3>4, <4>1, <4>2, TopBit
    <3> QED
      BY <2>1, <3>1, <3>2, <3>3, <3>4
  <2> QED
    BY <2>2, <2>3
<1>6. ASSUME NEW m \in 0 .. ByteBits
      PROVE  /\ PowerOfTwo[m] \in Nat \ {0} /\ PowerOfTwo[m] <= PowerOfTwo[ByteBits]
             /\ PowerOfTwo[ByteBits] - PowerOfTwo[m] \in Byte
             /\ \A k \in Place :
                   Bit(PowerOfTwo[ByteBits] - PowerOfTwo[m], k) = IF k < m THEN 0 ELSE 1
  <2> DEFINE x == PowerOfTwo[ByteBits] - PowerOfTwo[m]
  <2>1. /\ m \in Nat /\ m <= ByteBits /\ PowerOfTwo[m] \in Nat \ {0}
        /\ ByteBits \in Nat /\ PowerOfTwo[ByteBits] \in Nat \ {0}
    BY Places, PowerFacts
  <2>2. PowerOfTwo[m] <= PowerOfTwo[ByteBits]
    <3>1. CASE m < ByteBits
      BY <1>2, <2>1, <3>1
    <3>2. CASE m = ByteBits
      BY <2>1, <3>2
    <3> QED
      BY <2>1, <3>1, <3>2
  <2>3. x \in Byte
    BY <2>1, <2>2, ByteIs
  <2>4. ASSUME NEW k \in Place PROVE Bit(x, k) = IF k < m THEN 0 ELSE 1
    <3> DEFINE d == PowerOfTwo[k]
    <3>1. k \in Nat /\ k < ByteBits /\ d \in Nat \ {0}
      BY Places
    <3>2. PICK a \in Nat \ {0} : PowerOfTwo[ByteBits] = 2 * a * d
      BY <1>1, <2>1, <3>1
    <3> HIDE DEF d
    <3>3. CASE k < m
      <4>1. PICK b \in Nat \ {0} : PowerOfTwo[m] = 2 * b * d
        BY <1>1, <2>1, <3>3 DEF d
      <4>2. 2 * b * d <= 2 * a * d
        BY <2>2, <3>2, <4>1
      <4>3. b <= a
        BY <3>1, <4>2, Z3
      <4>4. a - b \in Nat /\ 2 * (a - b) \in Nat
        BY <4>3
      <4>5. x = (2 * (a - b)) * d
        <5>1. 2 * a * d - 2 * b * d = (2 * (a - b)) * d
          BY <3>1, Z3
        <5> QED
          BY <3>2, <4>1, <5>1
      <4>6. x \div d = 2 * (a - b)
        BY <1>3, <3>1, <4>4, <4>5
      <4>7. (2 * (a - b)) % 2 = 0
        BY <4>4, Parity
      <4> HIDE DEF x
      <4> QED
        BY <3>3, <4>6, <4>7 DEF Bit, d
    <3>4. CASE ~(k < m)
      <4>1. PowerOfTwo[m] <= d
        <5>1. CASE m < k
          BY <1>2, <2>1, <3>1, <5>1 DEF d
        <5>2. CASE m = k
          BY <2>1, <5>2 DEF d
        <5> QED
          BY <2>1, <3>1, <3>4, <5>1, <5>2
      <4>2. 2 * a - 1 \in Nat /\ a - 1 \in Nat /\ 2 * a - 1 = 2 * (a - 1) + 1
        OBVIOUS
      <4>3. (2 * a - 1) * d + d = 2 * a * d /\ (2 * a - 1) * d \in Nat
        BY <3>1, <4>2, Z3
      <4>4. (2 * a - 1) * d <= x /\ x < (2 * a - 1) * d + d
        BY <2>1, <3>1, <3>2, <4>1, <4>3
      <4>5. x \in Nat
        BY <2>1, <2>2
      <4> HIDE DEF x
      <4>6. x \div d = 2 * (a - 1) + 1
        BY <3>1, <4>2, <4>4, <4>5, Quotient
      <4>7. (2 * (a - 1) + 1) % 2 = 1
        BY <4>2, Parity
      <4> QED
        BY <3>4, <4>6, <4>7 DEF Bit, d
    <3> QED
      BY <3>3, <3>4
  <2> QED
    BY <2>1, <2>2, <2>3, <2>4
<1> QED
  BY <1>4, <1>5, <1>6

\* Testing a bit with a mask, as the code does.
LEMMA BitTest ==
    ASSUME NEW x \in Byte, NEW j \in Place
    PROVE  x & PowerOfTwo[j] # 0 <=> Bit(x, j) = 1
<1>1. PowerOfTwo[j] \in Byte /\ \A k \in Place : Bit(PowerOfTwo[j], k) = IF k = j THEN 1 ELSE 0
  BY ConstantBits
<1>2. /\ x & PowerOfTwo[j] \in Byte
      /\ \A k \in Place : /\ Bit(x, k) \in {0, 1}
                          /\ Bit(x & PowerOfTwo[j], k) = IF Bit(x, k) = 1 THEN Bit(PowerOfTwo[j], k) ELSE 0
  BY <1>1, OperatorFacts
<1>3. 0 \in Byte /\ \A k \in Place : Bit(0, k) = 0
  BY ConstantBits
<1>4. CASE Bit(x, j) = 1
  BY <1>1, <1>2, <1>3, <1>4
<1>5. CASE Bit(x, j) # 1
  <2>1. \A k \in Place : Bit(x & PowerOfTwo[j], k) = 0
    BY <1>1, <1>2, <1>5
  <2>2. x & PowerOfTwo[j] = 0
    BY <1>2, <1>3, <2>1, SameBits
  <2> QED
    BY <1>5, <2>2
<1> QED
  BY <1>4, <1>5

-----------------------------------------------------------------------------
(* The bits of an identifier.                                              *)

\* Dividing by the length of a byte gives the byte and the place of a bit.
LEMMA Division ==
    ASSUME NEW n \in Nat, NEW d \in Nat \ {0}
    PROVE  \E i \in Nat, j \in 0 .. d - 1 : n \div d = i /\ n % d = j /\ n = i * d + j
  BY Z3

\* It is the only way to.
LEMMA DivisionUnique ==
    ASSUME NEW i \in Nat, NEW d \in Nat \ {0}, NEW j \in 0 .. d - 1
    PROVE  (i * d + j) \div d = i /\ (i * d + j) % d = j /\ i * d + j \in Nat
  BY Z3

\* A byte further on is a whole byte further on.
LEMMA NextByte ==
    ASSUME NEW i \in Nat, NEW h \in Nat, NEW d \in Nat \ {0}, i < h
    PROVE  i * d + d <= h * d /\ i * d \in Nat /\ h * d \in Nat
  BY Z3

\* Numbers i * d + j are ordered by i, then by j.
LEMMA LexicographicOrder ==
    ASSUME NEW i \in Nat, NEW h \in Nat, NEW d \in Nat \ {0},
           NEW j \in Nat, NEW l \in Nat, j < d, l < d
    PROVE  i * d + j < h * d + l <=> i < h \/ (i = h /\ j < l)
<1>1. i * d \in Nat /\ h * d \in Nat
  BY Z3
<1>2. CASE i < h
  <2>1. i * d + d <= h * d
    BY <1>2, NextByte
  <2> QED
    BY <1>1, <1>2, <2>1
<1>3. CASE h < i
  <2>1. h * d + d <= i * d
    BY <1>3, NextByte
  <2> QED
    BY <1>1, <1>3, <2>1
<1>4. CASE i = h
  BY <1>1, <1>4
<1> QED
  BY <1>2, <1>3, <1>4

Index == 0 .. KeyBits - 1

\* Bit n of an identifier is bit n % ByteBits of byte n \div ByteBits, from the front.
LEMMA Indices ==
    /\ ByteBits \in Nat \ {0} /\ KeyBytes \in Nat \ {0} /\ KeyBits \in Nat \ {0}
    /\ \A n \in Index :
          /\ n \in Nat /\ n < KeyBits
          /\ \E i \in ByteIndex, j \in Place :
                n \div ByteBits = i /\ n % ByteBits = j /\ n = i * ByteBits + j
    /\ \A i \in ByteIndex, j \in Place :
          /\ i * ByteBits + j \in Index
          /\ (i * ByteBits + j) \div ByteBits = i /\ (i * ByteBits + j) % ByteBits = j
<1>1. ByteBits \in Nat \ {0} /\ KeyBytes \in Nat \ {0}
  BY SizesAssumption
<1>2. KeyBits \in Nat \ {0}
  BY <1>1, Z3 DEF KeyBits
<1>3. ASSUME NEW n \in Index
      PROVE  /\ n \in Nat /\ n < KeyBits
             /\ \E i \in ByteIndex, j \in Place :
                   n \div ByteBits = i /\ n % ByteBits = j /\ n = i * ByteBits + j
  <2>1. n \in Nat /\ n < KeyBytes * ByteBits /\ n < KeyBits
    BY <1>2 DEF Index, KeyBits
  <2>2. PICK i \in Nat, j \in 0 .. ByteBits - 1 :
              n \div ByteBits = i /\ n % ByteBits = j /\ n = i * ByteBits + j
    BY <1>1, <2>1, Division
  <2>3. i < KeyBytes
    <3>1. SUFFICES ASSUME KeyBytes <= i PROVE FALSE
      BY <1>1
    <3>2. KeyBytes * ByteBits <= i * ByteBits /\ KeyBytes * ByteBits \in Nat /\ i * ByteBits \in Nat
      BY <1>1, <3>1, NextByte, Z3
    <3> QED
      BY <2>1, <2>2, <3>2
  <2> QED
    BY <1>1, <2>1, <2>2, <2>3 DEF ByteIndex, Place
<1>4. ASSUME NEW i \in ByteIndex, NEW j \in Place
      PROVE  /\ i * ByteBits + j \in Index
             /\ (i * ByteBits + j) \div ByteBits = i /\ (i * ByteBits + j) % ByteBits = j
  <2>1. i \in Nat /\ i < KeyBytes /\ j \in 0 .. ByteBits - 1
    BY <1>1 DEF ByteIndex, Place
  <2>2. /\ (i * ByteBits + j) \div ByteBits = i /\ (i * ByteBits + j) % ByteBits = j
        /\ i * ByteBits + j \in Nat
    BY <1>1, <2>1, DivisionUnique
  <2>3. i * ByteBits + ByteBits <= KeyBits
    BY <1>1, <2>1, NextByte DEF KeyBits
  <2>4. i * ByteBits + j \in Index
    BY <1>1, <1>2, <2>1, <2>2, <2>3, NextByte DEF Index
  <2> QED
    BY <2>2, <2>4
<1> QED
  BY <1>1, <1>2, <1>3, <1>4

\* The order of the bits is that of the bytes, and of the places in one byte.
LEMMA IndexOrder ==
    ASSUME NEW n \in Index, NEW k \in Index
    PROVE  n < k <=> \/ n \div ByteBits < k \div ByteBits
                     \/ n \div ByteBits = k \div ByteBits /\ n % ByteBits < k % ByteBits
<1>1. /\ ByteBits \in Nat \ {0}
      /\ \A i \in ByteIndex : i \in Nat
      /\ \A j \in Place : j \in Nat /\ j < ByteBits
  BY Indices, Places DEF ByteIndex
<1>0. PICK i \in ByteIndex, j \in Place, h \in ByteIndex, l \in Place :
            /\ n \div ByteBits = i /\ n % ByteBits = j /\ n = i * ByteBits + j
            /\ k \div ByteBits = h /\ k % ByteBits = l /\ k = h * ByteBits + l
  BY Indices
<1>2. i \in Nat /\ h \in Nat /\ j \in Nat /\ l \in Nat /\ j < ByteBits /\ l < ByteBits
  BY <1>1
<1>3. i * ByteBits + j < h * ByteBits + l <=> i < h \/ (i = h /\ j < l)
  BY <1>1, <1>2, LexicographicOrder
<1>4. n < k <=> i < h \/ (i = h /\ j < l)
  BY <1>0, <1>3
<1> QED
  BY <1>0, <1>4

\* The place in its byte of bit n, counted as Bit counts.
PlaceOf(n) == ByteBits - 1 - (n % ByteBits)

\* Each bit of an identifier is at one place of one byte, the later ones of a byte at
\* the lower places, and each place of each byte holds one.
LEMMA PlaceOfType ==
    /\ \A n \in Index : PlaceOf(n) \in Place
    /\ \A n, k \in Index : PlaceOf(n) < PlaceOf(k) <=> k % ByteBits < n % ByteBits
    /\ \A n, k \in Index : n \div ByteBits = k \div ByteBits /\ PlaceOf(n) = PlaceOf(k) => n = k
    /\ \A i \in ByteIndex, j \in Place :
          \E n \in Index : n \div ByteBits = i /\ PlaceOf(n) = j
<1>1. ByteBits \in Nat \ {0} /\ \A n \in Index : n % ByteBits \in 0 .. ByteBits - 1
  <2>1. ASSUME NEW n \in Index PROVE n % ByteBits \in 0 .. ByteBits - 1
    BY Indices DEF Place
  <2> QED
    BY <2>1, Indices
<1>2. \A n \in Index : PlaceOf(n) \in Place
  BY <1>1 DEF PlaceOf, Place
<1>3. \A n, k \in Index : PlaceOf(n) < PlaceOf(k) <=> k % ByteBits < n % ByteBits
  BY <1>1 DEF PlaceOf
<1>4. ASSUME NEW n \in Index, NEW k \in Index,
             n \div ByteBits = k \div ByteBits, PlaceOf(n) = PlaceOf(k)
      PROVE  n = k
  <2>1. n % ByteBits = k % ByteBits
    BY <1>1, <1>4 DEF PlaceOf
  <2>2. PICK i \in ByteIndex, j \in Place :
              n \div ByteBits = i /\ n % ByteBits = j /\ n = i * ByteBits + j
    BY Indices
  <2>3. k \div ByteBits = i /\ k % ByteBits = j
    BY <1>4, <2>1, <2>2
  <2>4. k = i * ByteBits + j
    BY <2>3, Indices
  <2> QED
    BY <2>2, <2>4
<1>5. ASSUME NEW i \in ByteIndex, NEW j \in Place
      PROVE  \E n \in Index : n \div ByteBits = i /\ PlaceOf(n) = j
  <2> DEFINE l == ByteBits - 1 - j
             n == i * ByteBits + l
  <2>1. l \in Place
    BY <1>1 DEF Place
  <2>2. n \in Index /\ n \div ByteBits = i /\ n % ByteBits = l
    BY <2>1, Indices
  <2> HIDE DEF n
  <2>3. PlaceOf(n) = j
    BY <1>1, <2>2 DEF PlaceOf, Place
  <2> QED
    BY <2>2, <2>3
<1> QED
  BY <1>2, <1>3, <1>4, <1>5

\* The bits NodeIDs sees are those of the bytes, in that order.
LEMMA BitsOfFacts ==
    ASSUME NEW id \in NodeID
    PROVE  /\ \A i \in ByteIndex : id[i] \in Byte
           /\ BitsOf(id) \in [Index -> {0, 1}]
           /\ \A n \in Index : BitsOf(id)[n] = Bit(id[n \div ByteBits], PlaceOf(n))
<1>1. \A i \in ByteIndex : id[i] \in Byte /\ id[i] \in Nat
  BY ByteIs DEF NodeID
<1>2. \A n \in Index : n \div ByteBits \in ByteIndex /\ PlaceOf(n) \in Place
  BY Indices, PlaceOfType
<1>3. BitsOf(id) = [n \in Index |-> Bit(id[n \div ByteBits], PlaceOf(n))]
  BY DEF BitsOf, Bit, PlaceOf, Index
<1>4. \A n \in Index : Bit(id[n \div ByteBits], PlaceOf(n)) \in {0, 1}
  BY <1>1, <1>2, BitType
<1> QED
  BY <1>1, <1>3, <1>4

\* The distance of two identifiers has a bit where they differ.
LEMMA XorBits ==
    ASSUME NEW a \in NodeID, NEW b \in NodeID
    PROVE  /\ XorDistance(a, b) \in NodeID
           /\ \A i \in ByteIndex, j \in Place :
                 Bit(XorDistance(a, b)[i], j) = IF Bit(a[i], j) = Bit(b[i], j) THEN 0 ELSE 1
           /\ \A n \in Index :
                 BitsOf(XorDistance(a, b))[n] = IF BitsOf(a)[n] = BitsOf(b)[n] THEN 0 ELSE 1
<1>1. \A i \in ByteIndex : a[i] \in Byte /\ b[i] \in Byte
  BY DEF NodeID
<1>2. XorDistance(a, b) \in NodeID
  BY <1>1, OperatorFacts DEF XorDistance, NodeID
<1>3. \A i \in ByteIndex, j \in Place :
         Bit(XorDistance(a, b)[i], j) = IF Bit(a[i], j) = Bit(b[i], j) THEN 0 ELSE 1
  BY <1>1, OperatorFacts DEF XorDistance
<1>4. \A n \in Index : n \div ByteBits \in ByteIndex /\ PlaceOf(n) \in Place
  BY Indices, PlaceOfType
<1> QED
  BY <1>2, <1>3, <1>4, BitsOfFacts

-----------------------------------------------------------------------------
(* Searches.                                                               *)

\* The loop over the bits of a byte stops at the first one that is set.
LEMMA LeadingZerosFacts ==
    ASSUME NEW x \in Byte, x # 0
    PROVE  /\ LeadingZeros(x) \in Place
           /\ Bit(x, ByteBits - 1 - LeadingZeros(x)) = 1
           /\ \A k \in Place : k < LeadingZeros(x) => Bit(x, ByteBits - 1 - k) = 0
<1>1. /\ ByteBits \in Nat \ {0} /\ \A j \in Place : j \in Nat /\ ByteBits - 1 - j \in Place
      /\ \A j \in Place : (ByteBits - 1) - ((ByteBits - 1) - j) = j
  BY Places DEF Place
<1>2. \A j \in Place : Bit(x, j) \in {0, 1} /\ (x & PowerOfTwo[j] # 0 <=> Bit(x, j) = 1)
  BY ByteIs, BitType, BitTest
<1> DEFINE T == {j \in Place : Bit(x, ByteBits - 1 - j) = 1}
<1>3. T # {}
  <2>1. 0 \in Byte /\ \A j \in Place : Bit(0, j) = 0
    BY ConstantBits
  <2>2. PICK j \in Place : Bit(x, j) # 0
    BY <2>1, SameBits
  <2>3. Bit(x, j) = 1 /\ ByteBits - 1 - j \in Place
    BY <1>1, <1>2, <2>2
  <2>4. ByteBits - 1 - (ByteBits - 1 - j) = j
    BY <1>1
  <2>5. ByteBits - 1 - j \in T
    BY <2>3, <2>4
  <2> QED
    BY <2>5
<1>4. PICK j \in T : \A k \in T : j <= k
  <2>1. T \in SUBSET Nat
    BY <1>1
  <2> HIDE DEF T
  <2> QED
    BY <1>3, <2>1, LeastNumber
<1>5. /\ j \in 0 .. ByteBits - 1 /\ x & PowerOfTwo[ByteBits - 1 - j] # 0
      /\ \A k \in 0 .. j - 1 : x & PowerOfTwo[ByteBits - 1 - k] = 0
  <2>1. j \in Place /\ ByteBits - 1 - j \in Place /\ j \in 0 .. ByteBits - 1
    BY <1>1 DEF Place
  <2>2. x & PowerOfTwo[ByteBits - 1 - j] # 0
    BY <1>2, <2>1
  <2>3. ASSUME NEW k \in 0 .. j - 1 PROVE x & PowerOfTwo[ByteBits - 1 - k] = 0
    <3>1. k \in Place /\ ~(j <= k)
      BY <1>1, <2>1 DEF Place
    <3>2. k \notin T /\ ByteBits - 1 - k \in Place
      BY <1>1, <1>4, <3>1
    <3> QED
      BY <1>2, <3>1, <3>2
  <2> QED
    BY <2>1, <2>2, <2>3
<1>6. /\ LeadingZeros(x) \in 0 .. ByteBits - 1
      /\ x & PowerOfTwo[ByteBits - 1 - LeadingZeros(x)] # 0
      /\ \A k \in 0 .. LeadingZeros(x) - 1 : x & PowerOfTwo[ByteBits - 1 - k] = 0
  BY <1>5 DEF LeadingZeros
<1> DEFINE l == LeadingZeros(x)
<1>7. l \in Place /\ l \in Nat /\ ByteBits - 1 - l \in Place
  BY <1>1, <1>6 DEF Place
<1>8. ASSUME NEW k \in Place, k < l PROVE Bit(x, ByteBits - 1 - k) = 0
  <2>1. k \in 0 .. l - 1 /\ ByteBits - 1 - k \in Place
    BY <1>1, <1>7, <1>8
  <2>2. x & PowerOfTwo[ByteBits - 1 - k] = 0
    BY <1>6, <2>1
  <2> QED
    BY <1>2, <2>1, <2>2
<1> HIDE DEF l
<1>9. Bit(x, ByteBits - 1 - l) = 1
  BY <1>2, <1>6, <1>7 DEF l
<1> QED
  BY <1>7, <1>8, <1>9 DEF l

\* The nested loops stop at the first bit of an identifier that is set, if one is.
LEMMA FirstSetBitFacts ==
    ASSUME NEW dist \in NodeID, NEW none
    PROVE  \/ /\ FirstSetBit(dist, none) = none
              /\ \A n \in Index : BitsOf(dist)[n] = 0
           \/ /\ FirstSetBit(dist, none) \in Index
              /\ BitsOf(dist)[FirstSetBit(dist, none)] = 1
              /\ \A n \in Index : n < FirstSetBit(dist, none) => BitsOf(dist)[n] = 0
<1>1. /\ \A i \in ByteIndex : dist[i] \in Byte /\ i \in Nat
      /\ \A n \in Index : /\ BitsOf(dist)[n] = Bit(dist[n \div ByteBits], PlaceOf(n))
                          /\ n \div ByteBits \in ByteIndex /\ n % ByteBits \in Place
                          /\ PlaceOf(n) \in Place
  <2>1. \A i \in ByteIndex : i \in Nat
    BY Indices DEF ByteIndex
  <2>2. \A n \in Index : n \div ByteBits \in ByteIndex /\ n % ByteBits \in Place
    BY Indices
  <2> QED
    BY <2>1, <2>2, BitsOfFacts, PlaceOfType
<1>2. CASE \A i \in ByteIndex : dist[i] = 0
  <2>1. \A j \in Place : Bit(0, j) = 0
    BY ConstantBits
  <2> QED
    BY <1>1, <1>2, <2>1 DEF FirstSetBit
<1>3. CASE ~\A i \in ByteIndex : dist[i] = 0
  <2> DEFINE T == {i \in ByteIndex : dist[i] # 0}
  <2>1. PICK h \in T : \A i \in T : h <= i
    <3>1. T \in SUBSET Nat /\ T # {}
      BY <1>1, <1>3
    <3> HIDE DEF T
    <3> QED
      BY <3>1, LeastNumber
  <2>2. dist[h] # 0 /\ \A j \in ByteIndex : j < h => dist[j] = 0
    BY <1>1, <2>1
  <2> DEFINE i == CHOOSE i \in ByteIndex : dist[i] # 0 /\ \A j \in ByteIndex : j < i => dist[j] = 0
             l == LeadingZeros(dist[i])
             n == i * ByteBits + l
  <2>3. i \in ByteIndex /\ dist[i] # 0 /\ \A j \in ByteIndex : j < i => dist[j] = 0
    BY <2>1, <2>2
  <2>4. FirstSetBit(dist, none) = n
    BY <1>3 DEF FirstSetBit
  <2> HIDE DEF i
  <2>5. /\ l \in Place /\ Bit(dist[i], ByteBits - 1 - l) = 1
        /\ \A k \in Place : k < l => Bit(dist[i], ByteBits - 1 - k) = 0
    BY <1>1, <2>3, LeadingZerosFacts
  <2> HIDE DEF l
  <2>6. n \in Index /\ n \div ByteBits = i /\ n % ByteBits = l
    BY <2>3, <2>5, Indices
  <2> HIDE DEF n
  <2>7. BitsOf(dist)[n] = 1
    BY <1>1, <2>5, <2>6 DEF PlaceOf
  <2>8. ASSUME NEW k \in Index, k < n PROVE BitsOf(dist)[k] = 0
    <3>1. k \div ByteBits < i \/ (k \div ByteBits = i /\ k % ByteBits < l)
      BY <2>6, <2>8, IndexOrder
    <3>2. CASE k \div ByteBits < i
      <4>1. dist[k \div ByteBits] = 0
        BY <1>1, <2>3, <3>2
      <4> QED
        BY <1>1, <4>1, ConstantBits
    <3>3. CASE k \div ByteBits = i /\ k % ByteBits < l
      <4>1. Bit(dist[i], ByteBits - 1 - (k % ByteBits)) = 0
        BY <1>1, <2>5, <3>3
      <4> QED
        BY <1>1, <3>3, <4>1 DEF PlaceOf
    <3> QED
      BY <3>1, <3>2, <3>3
  <2> QED
    BY <2>4, <2>6, <2>7, <2>8
<1> QED
  BY <1>2, <1>3

\* The first bit two identifiers differ at.
FirstAt(a, b, n) ==
    BitsOf(a)[n] # BitsOf(b)[n] /\ \A k \in Index : k < n => BitsOf(a)[k] = BitsOf(b)[k]

\* Both searches return it, and what the code says if there is none.
LEMMA PrefixFacts ==
    ASSUME NEW a \in NodeID, NEW b \in NodeID
    PROVE  \/ /\ SharedPrefixLength(a, b) = KeyBits /\ KBucketIndex(a, b) = KeyBits - 1
              /\ \A n \in Index : BitsOf(a)[n] = BitsOf(b)[n]
           \/ \E n \in Index : /\ SharedPrefixLength(a, b) = n /\ KBucketIndex(a, b) = n
                               /\ FirstAt(a, b, n)
<1> DEFINE x == XorDistance(a, b)
           s == SharedPrefixLength(a, b)
           t == KBucketIndex(a, b)
<1>1. x \in NodeID /\ \A n \in Index : BitsOf(x)[n] = 0 <=> BitsOf(a)[n] = BitsOf(b)[n]
  BY XorBits
<1>2. s = FirstSetBit(x, KeyBits) /\ t = FirstSetBit(x, KeyBits - 1)
  BY DEF SharedPrefixLength, KBucketIndex
<1>3. \A n \in Index : n \in Nat
  BY Indices
<1> HIDE DEF x, s, t
<1>4. CASE \A n \in Index : BitsOf(x)[n] = 0
  <2>1. s = KeyBits /\ t = KeyBits - 1
    BY <1>1, <1>2, <1>4, FirstSetBitFacts
  <2> QED
    BY <1>1, <1>4, <2>1 DEF s, t
<1>5. CASE ~\A n \in Index : BitsOf(x)[n] = 0
  <2>1. /\ s \in Index /\ BitsOf(x)[s] = 1 /\ \A n \in Index : n < s => BitsOf(x)[n] = 0
        /\ t \in Index /\ BitsOf(x)[t] = 1 /\ \A n \in Index : n < t => BitsOf(x)[n] = 0
    BY <1>1, <1>2, <1>5, FirstSetBitFacts
  <2>2. s = t
    BY <1>3, <2>1
  <2>3. FirstAt(a, b, s)
    BY <1>1, <2>1 DEF FirstAt
  <2> QED
    BY <2>1, <2>2, <2>3 DEF s, t
<1> QED
  BY <1>4, <1>5

\* What NodeIDs makes of two arrays of bits.
LEMMA RefFacts ==
    ASSUME NEW p \in [Index -> {0, 1}], NEW q \in [Index -> {0, 1}]
    PROVE  /\ (\A n \in Index : p[n] = q[n]) =>
                 Ref!SharedPrefixLength(p, q) = KeyBits /\ Ref!KBucketIndex(p, q) = KeyBits - 1
           /\ \A n \in Index :
                 p[n] # q[n] /\ (\A k \in Index : k < n => p[k] = q[k]) =>
                    Ref!SharedPrefixLength(p, q) = n /\ Ref!KBucketIndex(p, q) = n
<1>1. Ref!BitIndex = Index /\ \A n \in Index : n \in Nat
  BY Indices DEF Ref!BitIndex, Index
<1>2. ASSUME \A n \in Index : p[n] = q[n]
      PROVE  Ref!SharedPrefixLength(p, q) = KeyBits /\ Ref!KBucketIndex(p, q) = KeyBits - 1
  BY <1>1, <1>2 DEF Ref!SharedPrefixLength, Ref!KBucketIndex
<1>3. ASSUME NEW n \in Index, p[n] # q[n], \A k \in Index : k < n => p[k] = q[k]
      PROVE  Ref!SharedPrefixLength(p, q) = n /\ Ref!KBucketIndex(p, q) = n
  <2>1. \A i \in Index : Ref!DifferFirstAt(p, q, i) <=> i = n
    BY <1>1, <1>3 DEF Ref!DifferFirstAt
  <2>2. (CHOOSE i \in Index : Ref!DifferFirstAt(p, q, i)) = n
    BY <2>1
  <2> QED
    BY <1>1, <1>3, <2>2 DEF Ref!SharedPrefixLength, Ref!KBucketIndex
<1> QED
  BY <1>2, <1>3

\* Counted from the other end, bit i of an identifier is in the byte as far from the
\* end, at the place that Bit counts.
LEMMA FromLastIndex ==
    ASSUME NEW i \in Index
    PROVE  /\ KeyBits - 1 - i \in Index
           /\ (KeyBits - 1 - i) \div ByteBits = ByteOf(i) /\ ByteOf(i) \in ByteIndex
           /\ PlaceOf(KeyBits - 1 - i) = i % ByteBits /\ i % ByteBits \in Place
<1>1. ByteBits \in Nat \ {0} /\ KeyBytes \in Nat \ {0}
  BY Indices
<1>2. PICK q \in ByteIndex, r \in Place :
            i \div ByteBits = q /\ i % ByteBits = r /\ i = q * ByteBits + r
  BY Indices
<1>3. q \in Nat /\ q < KeyBytes /\ r \in Nat /\ r < ByteBits
  BY <1>1, <1>2, Places DEF ByteIndex
<1> DEFINE h == KeyBytes - 1 - q
           l == ByteBits - 1 - r
<1>4. h \in ByteIndex /\ l \in Place /\ h \in Nat /\ l \in Nat
  BY <1>1, <1>3 DEF ByteIndex, Place
<1>5. KeyBits - 1 - i = h * ByteBits + l
  <2>1. KeyBytes * ByteBits - 1 - (q * ByteBits + r)
           = (KeyBytes - 1 - q) * ByteBits + (ByteBits - 1 - r)
    BY <1>1, <1>3, Z3
  <2> QED
    BY <1>2, <2>1 DEF KeyBits
<1> HIDE DEF h, l
<1>6. /\ h * ByteBits + l \in Index
      /\ (h * ByteBits + l) \div ByteBits = h /\ (h * ByteBits + l) % ByteBits = l
  BY <1>4, Indices
<1>7. ByteOf(i) = h
  BY <1>2 DEF ByteOf, h
<1>8. PlaceOf(KeyBits - 1 - i) = r
  <2>1. PlaceOf(KeyBits - 1 - i) = ByteBits - 1 - l
    BY <1>5, <1>6 DEF PlaceOf
  <2> QED
    BY <1>1, <1>3, <2>1 DEF l
<1> QED
  BY <1>2, <1>4, <1>5, <1>6, <1>7, <1>8

\* What GetBit reads.
LEMMA GetBitFacts ==
    ASSUME NEW a \in NodeID
    PROVE  /\ \A i \in Int : InKey(i) <=> i \in Index
           /\ \A i : ~InKey(i) => GetBit(a, i) = 0
           /\ \A i \in Index : /\ ByteOf(i) \in ByteIndex /\ i % ByteBits \in Place
                               /\ GetBit(a, i) = Bit(a[ByteOf(i)], i % ByteBits)
                               /\ GetBit(a, i) \in {0, 1}
<1>1. \A i \in Int : InKey(i) <=> i \in Index
  BY Indices DEF InKey, Index
<1>2. \A i : ~InKey(i) => GetBit(a, i) = 0
  BY DEF GetBit
<1>3. ASSUME NEW i \in Index
      PROVE  /\ ByteOf(i) \in ByteIndex /\ i % ByteBits \in Place
             /\ GetBit(a, i) = Bit(a[ByteOf(i)], i % ByteBits)
             /\ GetBit(a, i) \in {0, 1}
  <2>1. ByteOf(i) \in ByteIndex /\ i % ByteBits \in Place /\ a[ByteOf(i)] \in Byte
    BY FromLastIndex, BitsOfFacts
  <2>2. InKey(i)
    BY <1>1, Indices
  <2>3. /\ a[ByteOf(i)] & MaskOf(i) # 0 <=> Bit(a[ByteOf(i)], i % ByteBits) = 1
        /\ Bit(a[ByteOf(i)], i % ByteBits) \in {0, 1}
    BY <2>1, ByteIs, BitTest, BitType DEF MaskOf
  <2>4. GetBit(a, i) = Bit(a[ByteOf(i)], i % ByteBits)
    BY <2>2, <2>3 DEF GetBit
  <2> QED
    BY <2>1, <2>3, <2>4
<1> QED
  BY <1>1, <1>2, <1>3

\* Both variables are identifiers.
Typed == local \in NodeID /\ other \in NodeID

\* No step changes the two identifiers.
LEMMA TypedAlways == Spec => []Typed
<1>1. Init => Typed
  BY DEF Init, Typed
<1>2. Typed /\ [Next]_<<local, other>> => Typed'
  BY DEF Typed, Next
<1> QED
  BY <1>1, <1>2, PTL DEF Spec

\* For every length of identifiers and bytes, the loops of KBucketIndex
\* and SharedPrefixLength find the first bit that differs.
THEOREM SearchesAlwaysAgree == Spec => []SearchesAgree
<1>1. Typed => SearchesAgree
  <2>1. SUFFICES ASSUME Typed PROVE SearchesAgree
    OBVIOUS
  <2> DEFINE p == BitsOf(local)
             q == BitsOf(other)
  <2>2. local \in NodeID /\ other \in NodeID
    BY <2>1 DEF Typed
  <2>3. p \in [Index -> {0, 1}] /\ q \in [Index -> {0, 1}]
    BY <2>2, BitsOfFacts
  <2>4. /\ SharedPrefixLength(local, other) = Ref!SharedPrefixLength(p, q)
        /\ KBucketIndex(local, other) = Ref!KBucketIndex(p, q)
    <3>1. CASE /\ SharedPrefixLength(local, other) = KeyBits
               /\ KBucketIndex(local, other) = KeyBits - 1
               /\ \A n \in Index : p[n] = q[n]
      <4> HIDE DEF p, q
      <4> QED
        BY <2>3, <3>1, RefFacts
    <3>2. CASE \E n \in Index : /\ SharedPrefixLength(local, other) = n
                                /\ KBucketIndex(local, other) = n
                                /\ FirstAt(local, other, n)
      <4>1. PICK n \in Index : /\ SharedPrefixLength(local, other) = n
                               /\ KBucketIndex(local, other) = n
                               /\ p[n] # q[n] /\ \A k \in Index : k < n => p[k] = q[k]
        BY <3>2 DEF FirstAt
      <4> HIDE DEF p, q
      <4> QED
        BY <2>3, <4>1, RefFacts
    <3> QED
      BY <2>2, <3>1, <3>2, PrefixFacts
  <2> QED
    BY <2>4 DEF SearchesAgree
<1> QED
  BY <1>1, TypedAlways, PTL

-----------------------------------------------------------------------------
(* Distances.                                                              *)

\* Comparing byte by byte is comparing the first bit that differs.
LEMMA LessFacts ==
    ASSUME NEW a \in NodeID, NEW b \in NodeID
    PROVE  LessDistance(a, b)
           <=> \E n \in Index : /\ BitsOf(a)[n] = 0 /\ BitsOf(b)[n] = 1
                                /\ \A k \in Index : k < n => BitsOf(a)[k] = BitsOf(b)[k]
<1>1. /\ \A i \in ByteIndex : a[i] \in Byte /\ b[i] \in Byte /\ a[i] \in Nat /\ b[i] \in Nat /\ i \in Nat
      /\ \A n \in Index : /\ BitsOf(a)[n] = Bit(a[n \div ByteBits], PlaceOf(n))
                          /\ BitsOf(b)[n] = Bit(b[n \div ByteBits], PlaceOf(n))
                          /\ n \div ByteBits \in ByteIndex /\ PlaceOf(n) \in Place
  <2>1. \A i \in ByteIndex : a[i] \in Byte /\ b[i] \in Byte
    BY BitsOfFacts
  <2>2. \A i \in ByteIndex : a[i] \in Nat /\ b[i] \in Nat
    BY <2>1, ByteIs
  <2>3. \A i \in ByteIndex : i \in Nat
    BY Indices DEF ByteIndex
  <2>4. \A n \in Index : n \div ByteBits \in ByteIndex /\ PlaceOf(n) \in Place
    BY Indices, PlaceOfType
  <2>5. \A n \in Index : /\ BitsOf(a)[n] = Bit(a[n \div ByteBits], PlaceOf(n))
                         /\ BitsOf(b)[n] = Bit(b[n \div ByteBits], PlaceOf(n))
    BY BitsOfFacts
  <2> QED
    BY <2>1, <2>2, <2>3, <2>4, <2>5
<1>2. \A n, k \in Index :
         k < n => \/ k \div ByteBits < n \div ByteBits
                  \/ (k \div ByteBits = n \div ByteBits /\ PlaceOf(n) < PlaceOf(k))
  BY IndexOrder, PlaceOfType
<1>3. ASSUME LessDistance(a, b)
      PROVE  \E n \in Index : /\ BitsOf(a)[n] = 0 /\ BitsOf(b)[n] = 1
                              /\ \A k \in Index : k < n => BitsOf(a)[k] = BitsOf(b)[k]
  <2>1. PICK g \in ByteIndex : a[g] < b[g] /\ \A j \in ByteIndex : j < g => a[j] <= b[j]
    BY <1>3 DEF LessDistance
  <2> DEFINE T == {i \in ByteIndex : a[i] # b[i]}
  <2>2. PICK h \in T : \A i \in T : h <= i
    <3>1. T \in SUBSET Nat /\ T # {}
      BY <1>1, <2>1
    <3> HIDE DEF T
    <3> QED
      BY <3>1, LeastNumber
  <2>3. h \in ByteIndex /\ a[h] # b[h] /\ \A i \in ByteIndex : i < h => a[i] = b[i]
    BY <1>1, <2>2
  <2>4. a[h] < b[h]
    <3>1. h <= g
      BY <1>1, <2>1, <2>2
    <3>2. CASE h = g
      BY <2>1, <3>2
    <3>3. CASE h < g
      BY <1>1, <2>1, <2>3, <3>3
    <3> QED
      BY <1>1, <2>3, <3>1, <3>2, <3>3
  <2>5. PICK j \in Place : /\ Bit(a[h], j) = 0 /\ Bit(b[h], j) = 1
                           /\ \A k \in Place : j < k => Bit(a[h], k) = Bit(b[h], k)
    BY <1>1, <2>3, <2>4, ByteOrder
  <2>6. PICK n \in Index : n \div ByteBits = h /\ PlaceOf(n) = j
    BY <2>3, PlaceOfType
  <2>7. ASSUME NEW k \in Index, k < n PROVE BitsOf(a)[k] = BitsOf(b)[k]
    <3>1. CASE k \div ByteBits < h
      BY <1>1, <2>3, <3>1
    <3>2. CASE k \div ByteBits = h /\ j < PlaceOf(k)
      BY <1>1, <2>5, <3>2
    <3> QED
      BY <1>2, <2>6, <2>7, <3>1, <3>2
  <2> QED
    BY <1>1, <2>5, <2>6, <2>7
<1>4. ASSUME NEW n \in Index, BitsOf(a)[n] = 0, BitsOf(b)[n] = 1,
             \A k \in Index : k < n => BitsOf(a)[k] = BitsOf(b)[k]
      PROVE  LessDistance(a, b)
  <2>1. PICK h \in ByteIndex, j \in Place : h = n \div ByteBits /\ j = PlaceOf(n)
    BY <1>1
  <2>2. Bit(a[h], j) = 0 /\ Bit(b[h], j) = 1
    BY <1>1, <1>4, <2>1
  <2>3. ASSUME NEW i \in ByteIndex, NEW l \in Place, i < h \/ (i = h /\ j < l)
        PROVE  Bit(a[i], l) = Bit(b[i], l)
    <3>1. PICK k \in Index : k \div ByteBits = i /\ PlaceOf(k) = l
      BY PlaceOfType
    <3>2. k < n
      BY <2>1, <2>3, <3>1, IndexOrder, PlaceOfType
    <3> QED
      BY <1>1, <1>4, <3>1, <3>2
  <2>4. a[h] < b[h]
    BY <1>1, <2>2, <2>3, ByteOrder
  <2>5. ASSUME NEW i \in ByteIndex, i < h PROVE a[i] <= b[i]
    <3>1. a[i] = b[i]
      BY <1>1, <2>3, <2>5, SameBits
    <3> QED
      BY <1>1, <3>1
  <2> QED
    BY <2>4, <2>5 DEF LessDistance
<1> QED
  BY <1>3, <1>4

\* For every length of identifiers and bytes, distances are those of NodeIDs, and the
\* closer of two identifiers shares as long a prefix with the target or a longer one.
THEOREM DistancesAlwaysAgree == Spec => []DistancesAgree
<1>1. Typed => DistancesAgree
  <2>1. SUFFICES ASSUME Typed PROVE DistancesAgree
    OBVIOUS
  <2>2. local \in NodeID /\ other \in NodeID
    BY <2>1 DEF Typed
  <2>3. Ref!BitIndex = Index /\ \A n \in Index : n \in Nat /\ n < KeyBits
    BY Indices DEF Ref!BitIndex, Index
  <2>4. BitsOf(XorDistance(local, other)) = Ref!XorDistance(BitsOf(local), BitsOf(other))
    <3> DEFINE x == XorDistance(local, other)
    <3>1. /\ BitsOf(x) \in [Index -> {0, 1}]
          /\ \A n \in Index : BitsOf(x)[n] = IF BitsOf(local)[n] = BitsOf(other)[n] THEN 0 ELSE 1
      BY <2>2, XorBits, BitsOfFacts
    <3> HIDE DEF x
    <3>2. BitsOf(x) = [n \in Index |-> IF BitsOf(local)[n] = BitsOf(other)[n] THEN 0 ELSE 1]
      BY <3>1
    <3> QED
      BY <2>3, <3>2 DEF Ref!XorDistance, x
  <2>5. LessDistance(local, other) = Ref!LessDistance(BitsOf(local), BitsOf(other))
    <3> DEFINE p == BitsOf(local)
               q == BitsOf(other)
    <3>1. p \in [Index -> {0, 1}] /\ q \in [Index -> {0, 1}]
      BY <2>2, BitsOfFacts
    <3>2. LessDistance(local, other)
          <=> \E n \in Index : /\ p[n] = 0 /\ q[n] = 1
                               /\ \A k \in Index : k < n => p[k] = q[k]
      BY <2>2, LessFacts
    <3> HIDE DEF p, q
    <3>3. \A n \in Index : p[n] < q[n] /\ p[n] # q[n] <=> p[n] = 0 /\ q[n] = 1
      <4>1. \A n \in Index : p[n] \in {0, 1} /\ q[n] \in {0, 1}
        BY <3>1
      <4> QED
        BY <4>1
    <3>4. Ref!LessDistance(p, q)
          <=> \E n \in Index : /\ p[n] = 0 /\ q[n] = 1
                               /\ \A k \in Index : k < n => p[k] = q[k]
      BY <2>3, <3>3 DEF Ref!LessDistance, Ref!DifferFirstAt
    <3>5. LessDistance(local, other) \in BOOLEAN /\ Ref!LessDistance(p, q) \in BOOLEAN
      BY DEF LessDistance, Ref!LessDistance
    <3> QED
      BY <3>2, <3>4, <3>5 DEF p, q
  <2>6. ASSUME NEW target \in NodeID, CompareXorDistance(local, other, target)
        PROVE  SharedPrefixLength(local, target) >= SharedPrefixLength(other, target)
    <3> DEFINE u == XorDistance(local, target)
               v == XorDistance(other, target)
    <3>1. /\ u \in NodeID /\ v \in NodeID
          /\ \A n \in Index :
                /\ BitsOf(u)[n] = 0 <=> BitsOf(local)[n] = BitsOf(target)[n]
                /\ BitsOf(v)[n] = 0 <=> BitsOf(other)[n] = BitsOf(target)[n]
      BY <2>2, XorBits
    <3>2. LessDistance(u, v)
      BY <2>6 DEF CompareXorDistance
    <3> HIDE DEF u, v
    <3>3. PICK n \in Index : /\ BitsOf(u)[n] = 0 /\ BitsOf(v)[n] = 1
                             /\ \A k \in Index : k < n => BitsOf(u)[k] = BitsOf(v)[k]
      BY <3>1, <3>2, LessFacts
    <3>4. BitsOf(other)[n] # BitsOf(target)[n]
      BY <3>1, <3>3
    <3>5. PICK m \in Index : SharedPrefixLength(other, target) = m /\ FirstAt(other, target, m)
      BY <2>2, <3>4, PrefixFacts
    <3>6. CASE SharedPrefixLength(local, target) = KeyBits
      BY <2>3, <3>5, <3>6, Indices
    <3>7. ASSUME NEW l \in Index, SharedPrefixLength(local, target) = l, FirstAt(local, target, l)
          PROVE  l >= m
      <4>1. SUFFICES ASSUME l < m PROVE FALSE
        BY <2>3
      <4>2. ~(n < m)
        BY <3>4, <3>5 DEF FirstAt
      <4>3. l < n /\ BitsOf(local)[l] # BitsOf(target)[l]
        BY <2>3, <3>7, <4>1, <4>2 DEF FirstAt
      <4>4. BitsOf(other)[l] = BitsOf(target)[l]
        BY <3>5, <4>1 DEF FirstAt
      <4> QED
        BY <3>1, <3>3, <4>3, <4>4
    <3> QED
      BY <2>2, <3>5, <3>6, <3>7, PrefixFacts
  <2> QED
    BY <2>4, <2>5, <2>6 DEF DistancesAgree
<1> QED
  BY <1>1, TypedAlways, PTL

-----------------------------------------------------------------------------
(* Single bits.                                                            *)

\* Two bits in the same place of the same byte are one.
LEMMA SameBit ==
    ASSUME NEW i \in Index, NEW k \in Index,
           ByteOf(i) = ByteOf(k), i % ByteBits = k % ByteBits
    PROVE  i = k
<1>1. /\ KeyBits - 1 - i \in Index /\ KeyBits - 1 - k \in Index
      /\ (KeyBits - 1 - i) \div ByteBits = (KeyBits - 1 - k) \div ByteBits
      /\ PlaceOf(KeyBits - 1 - i) = PlaceOf(KeyBits - 1 - k)
  BY FromLastIndex
<1>2. KeyBits - 1 - i = KeyBits - 1 - k
  BY <1>1, PlaceOfType
<1>3. i \in Nat /\ k \in Nat /\ KeyBits \in Nat
  BY Indices
<1> QED
  BY <1>2, <1>3

\* A new value for the byte of bit i with a new bit in its place changes that bit only.
LEMMA OneBit ==
    ASSUME NEW a \in NodeID, NEW i \in Index, NEW y \in Byte, NEW new \in {0, 1},
           \A j \in Place : Bit(y, j) = IF j = i % ByteBits THEN new ELSE Bit(a[ByteOf(i)], j)
    PROVE  LET b == [a EXCEPT ![ByteOf(i)] = y]
           IN  b \in NodeID /\ \A k \in Index : GetBit(b, k) = IF k = i THEN new ELSE GetBit(a, k)
<1> DEFINE b == [a EXCEPT ![ByteOf(i)] = y]
<1>1. b \in NodeID /\ \A h \in ByteIndex : b[h] = IF h = ByteOf(i) THEN y ELSE a[h]
  BY DEF NodeID
<1> HIDE DEF b
<1>2. ASSUME NEW k \in Index PROVE GetBit(b, k) = IF k = i THEN new ELSE GetBit(a, k)
  <2>1. /\ ByteOf(k) \in ByteIndex /\ k % ByteBits \in Place
        /\ GetBit(b, k) = Bit(b[ByteOf(k)], k % ByteBits)
        /\ GetBit(a, k) = Bit(a[ByteOf(k)], k % ByteBits)
    BY <1>1, GetBitFacts
  <2>2. CASE ByteOf(k) # ByteOf(i)
    BY <1>1, <2>1, <2>2
  <2>3. CASE ByteOf(k) = ByteOf(i)
    <3>1. GetBit(b, k) = IF k % ByteBits = i % ByteBits THEN new ELSE GetBit(a, k)
      BY <1>1, <2>1, <2>3
    <3>2. k % ByteBits = i % ByteBits => k = i
      BY <2>3, SameBit
    <3> QED
      BY <3>1, <3>2
  <2> QED
    BY <2>2, <2>3
<1> QED
  BY <1>1, <1>2 DEF b

\* What each of the three operations does to every bit of the key.
LEMMA OperationsFacts ==
    ASSUME NEW a \in NodeID, NEW i \in Index
    PROVE  \A k \in Index :
              /\ GetBit(SetBit(a, i), k) = IF k = i THEN 1 ELSE GetBit(a, k)
              /\ GetBit(ClearBit(a, i), k) = IF k = i THEN 0 ELSE GetBit(a, k)
              /\ GetBit(FlipBit(a, i), k) = IF k = i THEN 1 - GetBit(a, i) ELSE GetBit(a, k)
<1> DEFINE x == a[ByteOf(i)]
           m == MaskOf(i)
           r == i % ByteBits
<1>1. /\ InKey(i) /\ ByteOf(i) \in ByteIndex /\ r \in Place /\ x \in Byte
      /\ GetBit(a, i) = Bit(x, r)
  <2>1. i \in Int
    BY Indices
  <2> QED
    BY <2>1, GetBitFacts, BitsOfFacts
<1>2. m \in Byte /\ \A j \in Place : Bit(m, j) = IF j = r THEN 1 ELSE 0
  BY <1>1, ConstantBits DEF MaskOf
<1>3. \A j \in Place : Bit(x, j) \in {0, 1}
  BY <1>1, OperatorFacts
<1>4. /\ SetBit(a, i) = [a EXCEPT ![ByteOf(i)] = x | m]
      /\ ClearBit(a, i) = [a EXCEPT ![ByteOf(i)] = AndNot(x, m)]
      /\ FlipBit(a, i) = [a EXCEPT ![ByteOf(i)] = x ^^ m]
  BY <1>1 DEF SetBit, ClearBit, FlipBit
<1> HIDE DEF x, m, r
<1>5. /\ x | m \in Byte /\ AndNot(x, m) \in Byte /\ x ^^ m \in Byte
      /\ \A j \in Place :
            /\ Bit(x | m, j) = IF j = r THEN 1 ELSE Bit(x, j)
            /\ Bit(AndNot(x, m), j) = IF j = r THEN 0 ELSE Bit(x, j)
            /\ Bit(x ^^ m, j) = IF j = r THEN 1 - Bit(x, r) ELSE Bit(x, j)
  <2>1. x | m \in Byte /\ AndNot(x, m) \in Byte /\ x ^^ m \in Byte
    BY <1>1, <1>2, OperatorFacts
  <2>2. ASSUME NEW j \in Place
        PROVE  /\ Bit(x | m, j) = IF j = r THEN 1 ELSE Bit(x, j)
               /\ Bit(AndNot(x, m), j) = IF j = r THEN 0 ELSE Bit(x, j)
               /\ Bit(x ^^ m, j) = IF j = r THEN 1 - Bit(x, r) ELSE Bit(x, j)
    <3>1. /\ Bit(x | m, j) = IF Bit(x, j) = 1 THEN 1 ELSE Bit(m, j)
          /\ Bit(AndNot(x, m), j) = IF Bit(m, j) = 1 THEN 0 ELSE Bit(x, j)
          /\ Bit(x ^^ m, j) = IF Bit(x, j) = Bit(m, j) THEN 0 ELSE 1
      BY <1>1, <1>2, OperatorFacts
    <3> QED
      BY <1>2, <1>3, <3>1
  <2> QED
    BY <2>1, <2>2
<1>6. 0 \in {0, 1} /\ 1 \in {0, 1} /\ 1 - Bit(x, r) \in {0, 1}
  BY <1>1, <1>3
<1>7. ASSUME NEW y \in Byte, NEW new \in {0, 1},
             \A j \in Place : Bit(y, j) = IF j = r THEN new ELSE Bit(x, j)
      PROVE  \A k \in Index :
                GetBit([a EXCEPT ![ByteOf(i)] = y], k) = IF k = i THEN new ELSE GetBit(a, k)
  <2>1. \A j \in Place :
           Bit(y, j) = IF j = i % ByteBits THEN new ELSE Bit(a[ByteOf(i)], j)
    BY <1>7 DEF x, r
  <2> QED
    BY <1>7, <2>1, OneBit
<1>8. \A k \in Index : GetBit(SetBit(a, i), k) = IF k = i THEN 1 ELSE GetBit(a, k)
  <2>1. \A j \in Place : Bit(x | m, j) = IF j = r THEN 1 ELSE Bit(x, j)
    BY <1>5
  <2> QED
    BY <1>4, <1>5, <1>6, <1>7, <2>1
<1>9. \A k \in Index : GetBit(ClearBit(a, i), k) = IF k = i THEN 0 ELSE GetBit(a, k)
  <2>1. \A j \in Place : Bit(AndNot(x, m), j) = IF j = r THEN 0 ELSE Bit(x, j)
    BY <1>5
  <2> QED
    BY <1>4, <1>5, <1>6, <1>7, <2>1
<1>10. \A k \in Index : GetBit(FlipBit(a, i), k) = IF k = i THEN 1 - GetBit(a, i) ELSE GetBit(a, k)
  <2>1. \A j \in Place : Bit(x ^^ m, j) = IF j = r THEN 1 - Bit(x, r) ELSE Bit(x, j)
    BY <1>5
  <2>2. \A k \in Index : GetBit(FlipBit(a, i), k) = IF k = i THEN 1 - Bit(x, r) ELSE GetBit(a, k)
    BY <1>4, <1>5, <1>6, <1>7, <2>1
  <2> QED
    BY <1>1, <2>2
<1> QED
  BY <1>8, <1>9, <1>10

\* For every length of identifiers and bytes, the operations on a bit change that bit
\* and no other, and nothing beyond the key.
THEOREM BitsAlwaysIndependent == Spec => []BitsAreIndependent
<1>1. Typed => BitsAreIndependent
  <2>1. SUFFICES ASSUME local \in NodeID, NEW bit \in -1 .. KeyBits, NEW at \in -1 .. KeyBits
                 PROVE  LET before == GetBit(local, at)
                            hit    == at = bit /\ InKey(bit)
                        IN  /\ GetBit(SetBit(local, bit), at) = IF hit THEN 1 ELSE before
                            /\ GetBit(ClearBit(local, bit), at) = IF hit THEN 0 ELSE before
                            /\ GetBit(FlipBit(local, bit), at) = IF hit THEN 1 - before ELSE before
    BY DEF BitsAreIndependent, Typed
  <2>2. (InKey(bit) <=> bit \in Index) /\ (InKey(at) <=> at \in Index)
    BY <2>1, Indices, GetBitFacts
  <2>3. CASE ~InKey(bit)
    BY <2>3 DEF SetBit, ClearBit, FlipBit
  <2>4. CASE InKey(bit) /\ ~InKey(at)
    <3>1. \A key : GetBit(key, at) = 0
      BY <2>4 DEF GetBit
    <3> QED
      BY <2>4, <3>1
  <2>5. CASE InKey(bit) /\ InKey(at)
    <3>1. /\ GetBit(SetBit(local, bit), at) = IF at = bit THEN 1 ELSE GetBit(local, at)
          /\ GetBit(ClearBit(local, bit), at) = IF at = bit THEN 0 ELSE GetBit(local, at)
          /\ GetBit(FlipBit(local, bit), at)
                = IF at = bit THEN 1 - GetBit(local, bit) ELSE GetBit(local, at)
      BY <2>1, <2>2, <2>5, OperationsFacts
    <3> QED
      BY <2>5, <3>1
  <2> QED
    BY <2>3, <2>4, <2>5
<1> QED
  BY <1>1, TypedAlways, PTL

-----------------------------------------------------------------------------
(* Refresh targets.                                                        *)

\* The mask has the bits of the byte in front of bit k.
LEMMA MaskFacts ==
    ASSUME NEW k \in Index
    PROVE  /\ HighMask(k) \in Byte
           /\ \A j \in Place : Bit(HighMask(k), j) = IF j <= PlaceOf(k) THEN 0 ELSE 1
<1> DEFINE m == PlaceOf(k) + 1
           w == PowerOfTwo[ByteBits]
           q == PowerOfTwo[m]
<1>1. PlaceOf(k) \in Place /\ \A j \in Place : j \in Nat /\ j < ByteBits
  BY PlaceOfType, Places
<1>2. m \in 0 .. ByteBits /\ \A j \in Place : j < m <=> j <= PlaceOf(k)
  BY <1>1, Places
<1>3. /\ q \in Nat \ {0} /\ q <= w /\ w \in Nat \ {0} /\ w - q \in Byte
      /\ \A j \in Place : Bit(w - q, j) = IF j < m THEN 0 ELSE 1
  BY <1>2, ConstantBits, Places
<1>4. HighMask(k) = ((w - 1) * q) % w
  BY DEF HighMask, PlaceOf
<1>5. ((w - 1) * q) % w = w - q
  <2> HIDE DEF w, q
  <2>1. (w - 1) * q = (q - 1) * w + (w - q)
    BY <1>3, Z3
  <2>2. q - 1 \in Nat /\ w - q \in 0 .. w - 1
    BY <1>3
  <2>3. ((q - 1) * w + (w - q)) % w = w - q
    BY <1>3, <2>2, DivisionUnique
  <2> QED
    BY <2>1, <2>3
<1> HIDE DEF m, w, q
<1> QED
  BY <1>2, <1>3, <1>4, <1>5

\* A refresh target has the bits of this node before bit k, the other one than the
\* noise at bit k, and those of the noise after it.
LEMMA TargetFacts ==
    ASSUME NEW a \in NodeID, NEW noise \in NodeID, NEW k \in Index
    PROVE  /\ RandomIDInBucket(a, k, noise) \in NodeID
           /\ \A n \in Index :
                 BitsOf(RandomIDInBucket(a, k, noise))[n]
                    = IF n < k THEN BitsOf(a)[n]
                      ELSE IF n = k THEN 1 - BitsOf(noise)[n] ELSE BitsOf(noise)[n]
<1> DEFINE h    == k \div ByteBits
           p    == PlaceOf(k)
           m    == HighMask(k)
           u    == AndNot(noise[h], m)
           v    == a[h] & m
           byte == u | v
           x    == byte ^^ PowerOfTwo[p]
           R    == RandomIDInBucket(a, k, noise)
<1>1. /\ h \in ByteIndex /\ p \in Place /\ \A i \in ByteIndex : i \in Nat
      /\ \A j \in Place : j \in Nat
      /\ \A i \in ByteIndex : a[i] \in Byte /\ noise[i] \in Byte
  <2>1. h \in ByteIndex
    BY Indices
  <2>2. p \in Place
    BY PlaceOfType
  <2>3. \A i \in ByteIndex : i \in Nat
    BY Indices DEF ByteIndex
  <2> QED
    BY <2>1, <2>2, <2>3, Places, BitsOfFacts
<1>2. R = [i \in ByteIndex |-> IF i < h THEN a[i] ELSE IF i = h THEN x ELSE noise[i]]
  BY DEF RandomIDInBucket, PlaceOf
<1> HIDE DEF R, h, p
<1>3. /\ x \in Byte
      /\ \A j \in Place : Bit(x, j) = IF j > p THEN Bit(a[h], j)
                                      ELSE IF j = p THEN 1 - Bit(noise[h], j) ELSE Bit(noise[h], j)
  <2>1. m \in Byte /\ \A j \in Place : Bit(m, j) = IF j <= p THEN 0 ELSE 1
    BY MaskFacts DEF p
  <2>2. PowerOfTwo[p] \in Byte /\ \A j \in Place : Bit(PowerOfTwo[p], j) = IF j = p THEN 1 ELSE 0
    BY <1>1, ConstantBits
  <2> HIDE DEF m
  <2>3. /\ u \in Byte /\ v \in Byte
        /\ \A j \in Place : /\ Bit(u, j) = IF Bit(m, j) = 1 THEN 0 ELSE Bit(noise[h], j)
                            /\ Bit(v, j) = IF Bit(a[h], j) = 1 THEN Bit(m, j) ELSE 0
                            /\ Bit(a[h], j) \in {0, 1} /\ Bit(noise[h], j) \in {0, 1}
    BY <1>1, <2>1, OperatorFacts
  <2> HIDE DEF u, v
  <2>4. byte \in Byte /\ \A j \in Place : Bit(byte, j) = IF Bit(u, j) = 1 THEN 1 ELSE Bit(v, j)
    BY <2>3, OperatorFacts
  <2> HIDE DEF byte
  <2>5. /\ x \in Byte
        /\ \A j \in Place : Bit(x, j) = IF Bit(byte, j) = Bit(PowerOfTwo[p], j) THEN 0 ELSE 1
    BY <2>2, <2>4, OperatorFacts
  <2> HIDE DEF x
  <2>6. ASSUME NEW j \in Place
        PROVE  Bit(x, j) = IF j > p THEN Bit(a[h], j)
                           ELSE IF j = p THEN 1 - Bit(noise[h], j) ELSE Bit(noise[h], j)
    <3>1. j \in Nat /\ p \in Nat
      BY <1>1
    <3>2. Bit(byte, j) = IF j > p THEN Bit(a[h], j) ELSE Bit(noise[h], j)
      BY <2>1, <2>3, <2>4, <3>1
    <3> QED
      BY <2>2, <2>3, <2>5, <3>1, <3>2
  <2> QED
    BY <2>5, <2>6
<1> HIDE DEF x
<1>4. R \in NodeID
  BY <1>1, <1>2, <1>3 DEF NodeID
<1>5. ASSUME NEW n \in Index
      PROVE  BitsOf(R)[n] = IF n < k THEN BitsOf(a)[n]
                            ELSE IF n = k THEN 1 - BitsOf(noise)[n] ELSE BitsOf(noise)[n]
  <2> DEFINE i == n \div ByteBits
             j == PlaceOf(n)
  <2>1. /\ BitsOf(R)[n] = Bit(R[i], j) /\ BitsOf(a)[n] = Bit(a[i], j)
        /\ BitsOf(noise)[n] = Bit(noise[i], j)
    BY <1>4, BitsOfFacts
  <2>2. i \in ByteIndex /\ j \in Place
    BY Indices, PlaceOfType
  <2>3. /\ n < k <=> i < h \/ (i = h /\ p < j)
        /\ n = k <=> i = h /\ j = p
    BY IndexOrder, PlaceOfType DEF h, p
  <2> HIDE DEF i, j
  <2>4. R[i] = IF i < h THEN a[i] ELSE IF i = h THEN x ELSE noise[i]
    BY <1>2, <2>2
  <2>5. CASE i < h
    <3>1. n < k
      BY <2>3, <2>5
    <3> QED
      BY <2>1, <2>4, <2>5, <3>1
  <2>6. CASE i = h
    <3>1. Bit(R[i], j) = IF j > p THEN Bit(a[i], j)
                         ELSE IF j = p THEN 1 - Bit(noise[i], j) ELSE Bit(noise[i], j)
      BY <1>1, <1>3, <2>2, <2>4, <2>6
    <3>2. i \in Nat /\ h \in Nat /\ j \in Nat /\ p \in Nat
      BY <1>1, <2>2
    <3> QED
      BY <2>1, <2>3, <2>6, <3>1, <3>2
  <2>7. CASE h < i
    <3>1. i \in Nat /\ h \in Nat
      BY <1>1, <2>2
    <3>2. ~(n < k) /\ n # k /\ R[i] = noise[i]
      BY <2>3, <2>4, <2>7, <3>1
    <3> QED
      BY <2>1, <3>2
  <2> QED
    BY <1>1, <2>2, <2>5, <2>6, <2>7
<1> QED
  BY <1>4, <1>5 DEF R

\* For every length of identifiers and bytes, a refresh target for bucket k shares the
\* bits before bit k with this node and is the generator's after it.
THEOREM RefreshTargetsAlwaysKeepPrefix == Spec => []RefreshTargetsKeepPrefix
<1>1. Typed => RefreshTargetsKeepPrefix
  <2>1. SUFFICES ASSUME local \in NodeID, other \in NodeID, NEW k \in Index, NEW n \in Index
                 PROVE  LET target == RandomIDInBucket(local, k, other)
                        IN  /\ n < k => BitsOf(target)[n] = BitsOf(local)[n]
                            /\ n > k => BitsOf(target)[n] = BitsOf(other)[n]
    BY DEF RefreshTargetsKeepPrefix, Typed, Index
  <2>2. k \in Nat /\ n \in Nat
    BY Indices
  <2>3. BitsOf(RandomIDInBucket(local, k, other))[n]
           = IF n < k THEN BitsOf(local)[n]
             ELSE IF n = k THEN 1 - BitsOf(other)[n] ELSE BitsOf(other)[n]
    BY <2>1, TargetFacts
  <2> QED
    BY <2>2, <2>3
<1> QED
  BY <1>1, TypedAlways, PTL

=============================================================================
