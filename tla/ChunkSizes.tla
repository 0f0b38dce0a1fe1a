----------------------------- MODULE ChunkSizes -----------------------------
(***************************************************************************)
(* How the key store cuts a file into chunks: CalculateChunkSize, the       *)
(* number of chunks and their boundaries (src/storage/key_store).           *)
(*                                                                         *)
(* The logarithm is rounded in floating point, exactly: the sizes that are  *)
(* divided have less than 53 bits, and no power of two is half-way between  *)
(* two others.  A remainder is left as a division: 0 \div 0 has no value.   *)
(***************************************************************************)
EXTENDS Naturals

CONSTANTS
    MinChunkSize,   \* 2^16
    MaxChunkSize,   \* 2^22
    TargetChunks,   \* 1000
    Powers,         \* the powers of two
    Word,           \* 2^32: a uint32 is smaller
    MaxFileSize     \* the longest file

\* The power of two nearest to q: their logarithms differ by less than a half.
IsNearest(r, q) == r * r < 2 * q * q /\ q * q < 2 * r * r

ASSUME SizesAssumption ==
    /\ Powers \subseteq Nat \ {0}
    /\ MinChunkSize \in Nat \ {0} /\ MaxChunkSize \in Nat /\ MinChunkSize <= MaxChunkSize
    /\ TargetChunks \in 1 .. MinChunkSize
    /\ MaxFileSize \in Nat
    /\ \A q \in 1 .. MaxFileSize \div TargetChunks : \E r \in Powers : IsNearest(r, q)

\* 256 TB of chunks of 64 kB.
ASSUME WordAssumption == Word \in Nat \ {0} /\ MaxFileSize <= (Word - 1) * MinChunkSize

FileSizes == 0 .. MaxFileSize

Rounded(q) == CHOOSE r \in Powers : IsNearest(r, q)

Clamped(r) ==
    IF r < MinChunkSize THEN MinChunkSize ELSE IF r > MaxChunkSize THEN MaxChunkSize ELSE r

CalculateChunkSize(fileSize) ==
    IF fileSize < MinChunkSize THEN fileSize ELSE Clamped(Rounded(fileSize \div TargetChunks))

\* Rounded up and cut to 32 bits.
TotalChunks(fileSize) ==
    LET size == CalculateChunkSize(fileSize) IN ((fileSize + size - 1) \div size) % Word

Indices(fileSize) == 0 .. TotalChunks(fileSize) - 1

\* Of WriteFileToDisk.
StartIdx(fileSize, i) == i * CalculateChunkSize(fileSize)

EndIdx(fileSize, i) ==
    LET end == StartIdx(fileSize, i) + CalculateChunkSize(fileSize)
    IN  IF end < fileSize THEN end ELSE fileSize

\* Of LoadAndStoreFile, which reads on from where the last chunk ended.
BytesToRead(fileSize, i) ==
    IF i = TotalChunks(fileSize) - 1 THEN fileSize - StartIdx(fileSize, i)
    ELSE CalculateChunkSize(fileSize)

=============================================================================
