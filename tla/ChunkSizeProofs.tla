--------------------------- MODULE ChunkSizeProofs ---------------------------
(***************************************************************************)
(* What ChunkSizes promises for every file: its chunks are not empty, fit   *)
(* the buffer and cover it without gap or overlap, and both ways of storing *)
(* a file cut it alike.                                                     *)
(***************************************************************************)
EXTENDS ChunkSizes, TLAPS

\* What dividing means.
LEMMA Division ==
    ASSUME NEW n \in Nat, NEW d \in Nat \ {0}
    PROVE  /\ n \div d \in Nat
           /\ d * (n \div d) <= n
           /\ n < d * (n \div d) + d
  BY Z3

\* A product grows with its factors.
LEMMA ProductBound ==
    ASSUME NEW a \in Nat, NEW b \in Nat, NEW d \in Nat, a <= b
    PROVE  a * d <= b * d
  BY Z3

LEMMA ProductNat ==
    ASSUME NEW a \in Nat, NEW b \in Nat
    PROVE  a * b \in Nat
  BY Z3

\* A quotient rounded up: the last multiple below n is not the n-th itself.
LEMMA RoundedUp ==
    ASSUME NEW n \in Nat \ {0}, NEW d \in Nat \ {0}
    PROVE  /\ (n + d - 1) \div d \in Nat \ {0}
           /\ ((n + d - 1) \div d - 1) * d < n
           /\ n <= ((n + d - 1) \div d) * d
<1> DEFINE m == n + d - 1
           k == m \div d
<1>1. m \in Nat
  OBVIOUS
<1>2. k \in Nat /\ d * k <= m /\ m < d * k + d
  BY <1>1, Division
<1> HIDE DEF k
<1>3. k # 0
  <2>1. SUFFICES ASSUME k = 0 PROVE FALSE
    OBVIOUS
  <2>2. d * k = 0
    BY <2>1
  <2> QED
    BY <1>2, <2>2
<1>4. (k - 1) * d = d * k - d /\ k * d = d * k
  BY <1>2
<1> QED
  BY <1>2, <1>3, <1>4 DEF k

\* The nearest power of two is a positive number.
LEMMA RoundedPositive ==
    ASSUME NEW n \in MinChunkSize .. MaxFileSize
    PROVE  /\ n \div TargetChunks \in Nat \ {0}
           /\ Rounded(n \div TargetChunks) \in Nat \ {0}
           /\ IsNearest(Rounded(n \div TargetChunks), n \div TargetChunks)
<1> DEFINE q == n \div TargetChunks
           top == MaxFileSize \div TargetChunks
<1>1. n \in Nat /\ TargetChunks \in Nat \ {0} /\ TargetChunks <= n /\ MaxFileSize \in Nat
  BY SizesAssumption
<1>2. q \in Nat /\ TargetChunks * q <= n /\ n < TargetChunks * q + TargetChunks
  BY <1>1, Division
<1>3. top \in Nat /\ TargetChunks * top <= MaxFileSize
                  /\ MaxFileSize < TargetChunks * top + TargetChunks
  BY <1>1, Division
<1>4. q # 0
  BY <1>1, Z3
<1>5. q <= top
  BY <1>1, Z3
<1>6. q \in 1 .. MaxFileSize \div TargetChunks
  BY <1>2, <1>3, <1>4, <1>5
<1>7. \E r \in Powers : IsNearest(r, q)
  BY <1>6, SizesAssumption
<1>8. Rounded(q) \in Powers /\ IsNearest(Rounded(q), q)
  BY <1>7 DEF Rounded
<1> QED
  BY <1>2, <1>4, <1>8, SizesAssumption

\* Only an empty file has chunks of size 0, by which the number of chunks is divided.
THEOREM ChunkSizeBounds ==
    ASSUME NEW n \in FileSizes
    PROVE  /\ CalculateChunkSize(n) \in 0 .. MaxChunkSize
           /\ CalculateChunkSize(n) = 0 <=> n = 0
           /\ n >= MinChunkSize => CalculateChunkSize(n) >= MinChunkSize
<1>1. CASE n < MinChunkSize
  BY <1>1, SizesAssumption DEF FileSizes, CalculateChunkSize
<1>2. CASE n >= MinChunkSize
  <2>1. n \in MinChunkSize .. MaxFileSize
    BY <1>2, SizesAssumption DEF FileSizes
  <2>2. Rounded(n \div TargetChunks) \in Nat
    BY <2>1, RoundedPositive
  <2> QED
    BY <1>2, <2>2, SizesAssumption DEF FileSizes, CalculateChunkSize, Clamped
<1> QED
  BY <1>1, <1>2, SizesAssumption DEF FileSizes

\* The number of chunks does not wrap: it is the size divided by that of a chunk and
\* rounded up.
LEMMA CountIsExact ==
    ASSUME NEW n \in FileSizes \ {0}
    PROVE  /\ TotalChunks(n) \in Nat \ {0}
           /\ (TotalChunks(n) - 1) * CalculateChunkSize(n) < n
           /\ n <= TotalChunks(n) * CalculateChunkSize(n)
<1> DEFINE c == CalculateChunkSize(n)
           k == (n + c - 1) \div c
<1>1. n \in Nat \ {0} /\ n <= MaxFileSize /\ c \in Nat \ {0}
  BY ChunkSizeBounds, SizesAssumption DEF FileSizes
<1>2. k \in Nat \ {0} /\ (k - 1) * c < n /\ n <= k * c
  <2> HIDE DEF c
  <2> QED
    BY <1>1, RoundedUp
<1>3. Word \in Nat \ {0} /\ n <= (Word - 1) * MinChunkSize
  BY <1>1, WordAssumption, SizesAssumption
<1>4. k < Word
  <2>1. CASE n < MinChunkSize
    <3>1. c = n
      BY <2>1 DEF CalculateChunkSize
    <3>2. (k - 1) * n < n
      BY <1>2, <3>1
    <3>3. k = 1
      <4> HIDE DEF k
      <4>1. SUFFICES ASSUME k >= 2 PROVE FALSE
        BY <1>2
      <4>2. 1 * n <= (k - 1) * n
        BY <1>1, <1>2, <4>1, ProductBound
      <4>3. 1 * n = n /\ (k - 1) * n \in Nat
        BY <1>1, <1>2, ProductNat
      <4> QED
        BY <1>1, <3>2, <4>2, <4>3
    <3>4. Word # 1
      BY <1>1, <1>3, SizesAssumption
    <3> QED
      BY <1>3, <3>3, <3>4
  <2>2. CASE n >= MinChunkSize
    <3>1. c >= MinChunkSize
      BY <2>2, ChunkSizeBounds
    <3> HIDE DEF c, k
    <3>2. SUFFICES ASSUME k >= Word PROVE FALSE
      BY <1>2, <1>3
    <3>3. (Word - 1) * c <= (k - 1) * c
      BY <1>1, <1>2, <1>3, <3>2, ProductBound
    <3>4. (Word - 1) * MinChunkSize <= (Word - 1) * c
      <4>1. MinChunkSize * (Word - 1) <= c * (Word - 1)
        BY <1>1, <1>3, <3>1, ProductBound, SizesAssumption
      <4> QED
        BY <4>1, <1>1, <1>3, SizesAssumption
    <3>5. (Word - 1) * MinChunkSize \in Nat /\ (Word - 1) * c \in Nat /\ (k - 1) * c \in Nat
      BY <1>1, <1>2, <1>3, ProductNat, SizesAssumption
    <3> QED
      BY <1>1, <1>2, <1>3, <3>3, <3>4, <3>5
  <2> QED
    BY <2>1, <2>2, <1>1, SizesAssumption
<1>5. TotalChunks(n) = k % Word
  BY DEF TotalChunks
<1>6. TotalChunks(n) = k
  <2> HIDE DEF k
  <2> QED
    BY <1>2, <1>3, <1>4, <1>5
<1> QED
  BY <1>2, <1>6

\* The chunks of a file that is not empty: none is empty or longer than the buffer,
\* each begins where the one before it ends, the first at the beginning of the file and
\* the last ending with it; and LoadAndStoreFile reads as much as WriteFileToDisk
\* slices.
THEOREM ChunksPartitionFile ==
    ASSUME NEW n \in FileSizes \ {0}, NEW i \in Indices(n)
    PROVE  /\ StartIdx(n, i) < EndIdx(n, i)
           /\ EndIdx(n, i) - StartIdx(n, i) <= CalculateChunkSize(n)
           /\ i = 0 => StartIdx(n, i) = 0
           /\ i = TotalChunks(n) - 1 => EndIdx(n, i) = n
           /\ i + 1 \in Indices(n) => EndIdx(n, i) = StartIdx(n, i + 1)
           /\ BytesToRead(n, i) = EndIdx(n, i) - StartIdx(n, i)
<1> DEFINE c == CalculateChunkSize(n)
           k == TotalChunks(n)
<1>1. n \in Nat \ {0} /\ c \in Nat \ {0}
  BY ChunkSizeBounds, SizesAssumption DEF FileSizes
<1>2. k \in Nat \ {0} /\ (k - 1) * c < n /\ n <= k * c
  BY CountIsExact
<1>3. i \in Nat /\ i <= k - 1
  BY <1>2 DEF Indices
<1> HIDE DEF c, k
<1>4. i * c \in Nat /\ (k - 1) * c \in Nat /\ (i + 1) * c = i * c + c
  BY <1>1, <1>2, <1>3, ProductNat
<1>5. i * c <= (k - 1) * c
  BY <1>1, <1>2, <1>3, ProductBound
<1>6. i = k - 1 => i * c + c >= n
  BY <1>1, <1>2, <1>3, <1>4
<1>7. i < k - 1 => i * c + c < n
  <2>1. SUFFICES ASSUME i < k - 1 PROVE (i + 1) * c <= (k - 1) * c
    BY <1>1, <1>2, <1>3, <1>4
  <2> QED
    BY <1>1, <1>2, <1>3, <2>1, ProductBound
<1>8. StartIdx(n, i) = i * c /\ StartIdx(n, i + 1) = (i + 1) * c
  BY DEF StartIdx, c
<1>9. EndIdx(n, i) = IF i * c + c < n THEN i * c + c ELSE n
  BY <1>8 DEF EndIdx, c
<1>10. BytesToRead(n, i) = IF i = k - 1 THEN n - i * c ELSE c
  BY <1>8 DEF BytesToRead, c, k
<1>11. i + 1 \in Indices(n) => i < k - 1
  BY <1>2, <1>3 DEF Indices, k
<1>12. i = 0 => i * c = 0
  BY <1>1
<1>13. i = k - 1 \/ i < k - 1
  BY <1>2, <1>3
<1> HIDE DEF StartIdx
<1>14. StartIdx(n, i) < EndIdx(n, i)
  BY <1>1, <1>2, <1>4, <1>5, <1>8, <1>9
<1>15. EndIdx(n, i) - StartIdx(n, i) <= c
  BY <1>1, <1>4, <1>8, <1>9
<1>16. i = k - 1 => EndIdx(n, i) = n
  BY <1>1, <1>4, <1>6, <1>9
<1>17. i + 1 \in Indices(n) => EndIdx(n, i) = StartIdx(n, i + 1)
  BY <1>4, <1>7, <1>8, <1>9, <1>11
<1>18. BytesToRead(n, i) = EndIdx(n, i) - StartIdx(n, i)
  <2>1. CASE i = k - 1
    BY <2>1, <1>8, <1>10, <1>16
  <2>2. CASE i < k - 1
    BY <2>2, <1>1, <1>2, <1>3, <1>4, <1>7, <1>8, <1>9, <1>10
  <2> QED
    BY <1>13, <2>1, <2>2
<1> QED
  BY <1>8, <1>12, <1>14, <1>15, <1>16, <1>17, <1>18 DEF c, k

\* The target keeps the chunks of a long file many: a file of more than W chunks of
\* the smallest size has more than W chunks.  With W = 256, WriteFileToDisk, which
\* tells chunks apart by byte(i), gives two chunks of a file over 16 MB the same key.
THEOREM LongFilesHaveManyChunks ==
    ASSUME NEW W \in Nat, 2 * W * W <= TargetChunks * TargetChunks,
           NEW n \in FileSizes, n > W * MinChunkSize
    PROVE  TotalChunks(n) > W
<1> DEFINE c == CalculateChunkSize(n)
           q == n \div TargetChunks
           r == Rounded(q)
           T == TargetChunks
<1>1. n \in Nat \ {0} /\ c \in Nat \ {0} /\ T \in Nat \ {0} /\ MinChunkSize \in Nat \ {0}
  <2>1. W * MinChunkSize \in Nat
    BY ProductNat, SizesAssumption
  <2> QED
    BY <2>1, ChunkSizeBounds, SizesAssumption DEF FileSizes
<1>2. TotalChunks(n) \in Nat \ {0} /\ n <= TotalChunks(n) * c
  BY <1>1, CountIsExact
<1>3. SUFFICES W * c < n
  <2> DEFINE k == TotalChunks(n)
  <2> HIDE DEF c, k
  <2>1. SUFFICES ASSUME k <= W PROVE FALSE
    BY <1>2 DEF k
  <2>2. k * c <= W * c
    BY <1>1, <1>2, <2>1, ProductBound DEF k
  <2>3. k * c \in Nat /\ W * c \in Nat
    BY <1>1, <1>2, ProductNat DEF k
  <2> QED
    BY <1>1, <1>2, <1>3, <2>2, <2>3 DEF k
<1>4. CASE W = 0
  BY <1>1, <1>4
<1>5. CASE W # 0
  <2>1. n >= MinChunkSize
    <3>1. 1 * MinChunkSize <= W * MinChunkSize
      BY <1>1, <1>5, ProductBound
    <3> QED
      BY <1>1, <3>1, ProductNat
  <2>2. q \in Nat \ {0} /\ r \in Nat \ {0} /\ IsNearest(r, q)
    BY <2>1, <1>1, RoundedPositive, SizesAssumption DEF FileSizes
  <2>3. T * q <= n
    BY <1>1, Division
  <2>4. c = Clamped(r)
    BY <2>1, <1>1 DEF CalculateChunkSize
  <2>5. c = MinChunkSize \/ c <= r
    BY <2>2, <2>4, SizesAssumption DEF Clamped
  <2>6. CASE c = MinChunkSize
    BY <2>6
  <2>7. CASE c <= r
    <3> HIDE DEF c, q, r, T
    <3>1. r * r < 2 * q * q
      BY <2>2 DEF IsNearest
    <3>2. 2 * W * W <= T * T
      BY DEF T
    <3>3. W * r < T * q
      <4>1. SUFFICES ASSUME T * q <= W * r PROVE FALSE
        BY <1>1, <2>2, ProductNat
      <4>2. (T * q) * (T * q) <= (W * r) * (W * r)
        <5>1. T * q \in Nat /\ W * r \in Nat
          BY <1>1, <2>2, ProductNat
        <5>2. (T * q) * (T * q) <= (W * r) * (T * q)
          BY <4>1, <5>1, ProductBound
        <5>3. (T * q) * (W * r) <= (W * r) * (W * r)
          BY <4>1, <5>1, ProductBound
        <5> QED
          BY <5>1, <5>2, <5>3, Z3
      <4>3. (W * W) * (r * r) < (W * W) * (2 * q * q)
        BY <1>5, <2>2, <3>1, Z3
      <4>4. (2 * W * W) * (q * q) <= (T * T) * (q * q)
        BY <3>2, <1>1, <2>2, ProductNat, ProductBound
      <4>5. (T * q) * (T * q) = (T * T) * (q * q)
        BY <1>1, <2>2, Z3
      <4>6. (W * r) * (W * r) = (W * W) * (r * r)
        BY <2>2, Z3
      <4>7. (W * W) * (2 * q * q) = (2 * W * W) * (q * q)
        BY <2>2, Z3
      <4>8. /\ (W * W) * (r * r) \in Nat /\ (2 * W * W) * (q * q) \in Nat
            /\ (T * T) * (q * q) \in Nat
        BY <1>1, <2>2, ProductNat
      <4> QED
        BY <4>2, <4>3, <4>4, <4>5, <4>6, <4>7, <4>8
    <3>4. W * c <= W * r
      <4>1. c * W <= r * W
        BY <1>1, <2>2, <2>7, ProductBound
      <4> QED
        BY <4>1, <1>1, <2>2
    <3>5. W * c \in Nat /\ W * r \in Nat /\ T * q \in Nat
      BY <1>1, <2>2, ProductNat
    <3> QED
      BY <1>1, <2>3, <3>3, <3>4, <3>5 DEF q, T
  <2> QED
    BY <2>5, <2>6, <2>7
<1> QED
  BY <1>4, <1>5

=============================================================================
