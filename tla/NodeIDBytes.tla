---------------------------- MODULE NodeIDBytes ----------------------------
(***************************************************************************)
(* Node identifiers as the program stores them: arrays of bytes, searched   *)
(* with masks and shifts (src/api/kdht_utils.go).  The module has no        *)
(* behaviour of its own: it checks the functions on every pair of           *)
(* identifiers, and NodeIDs, which the other modules use, against them.     *)
(***************************************************************************)
EXTENDS Integers

CONSTANTS
    KeyBytes,       \* api.KeyBytes, 20 in the program
    ByteBits        \* the bits of a byte, 8 in the program

ASSUME SizesAssumption == KeyBytes \in Nat \ {0} /\ ByteBits \in Nat \ {0}

KeyBits == KeyBytes * ByteBits

ByteIndex == 0 .. KeyBytes - 1

PowerOfTwo[n \in 0 .. ByteBits] == IF n = 0 THEN 1 ELSE 2 * PowerOfTwo[n - 1]

Byte == 0 .. PowerOfTwo[ByteBits] - 1

NodeID == [ByteIndex -> Byte]

-----------------------------------------------------------------------------
(* The operators of Go on bytes.                                           *)

\* The bits of a byte, 0 the least significant.
Place == 0 .. ByteBits - 1

Bit(x, j) == (x \div PowerOfTwo[j]) % 2

\* The byte that has these bits.
ByteWith(bits) == CHOOSE x \in Byte : \A j \in Place : Bit(x, j) = bits[j]

x & y == ByteWith([j \in Place |-> IF Bit(x, j) = 1 THEN Bit(y, j) ELSE 0])

x | y == ByteWith([j \in Place |-> IF Bit(x, j) = 1 THEN 1 ELSE Bit(y, j)])

x ^^ y == ByteWith([j \in Place |-> IF Bit(x, j) = Bit(y, j) THEN 0 ELSE 1])

AndNot(x, mask) == ByteWith([j \in Place |-> IF Bit(mask, j) = 1 THEN 0 ELSE Bit(x, j)])

-----------------------------------------------------------------------------

XorDistance(local, other) == [i \in ByteIndex |-> local[i] ^^ other[i]]

\* Mutant: a greater byte does not end the loop.
LessDistanceSomewhere(a, b) == \E i \in ByteIndex : a[i] < b[i]

\* The first byte that differs decides.
LessDistance(a, b) ==
    \E i \in ByteIndex : a[i] < b[i] /\ \A j \in ByteIndex : j < i => a[j] <= b[j]

CompareXorDistance(a, b, target) ==
    LessDistance(XorDistance(a, target), XorDistance(b, target))

\* Mutant: 1<<j for 0x80>>j.
TrailingZeros(x) ==
    CHOOSE j \in 0 .. ByteBits - 1 :
        x & PowerOfTwo[j] # 0 /\ \A k \in 0 .. j - 1 : x & PowerOfTwo[k] = 0

\* The first j for which x&(0x80>>j) is not zero.
LeadingZeros(x) ==
    CHOOSE j \in 0 .. ByteBits - 1 :
        /\ x & PowerOfTwo[ByteBits - 1 - j] # 0
        /\ \A k \in 0 .. j - 1 : x & PowerOfTwo[ByteBits - 1 - k] = 0

\* The two nested loops of KBucketIndex and SharedPrefixLength, which differ
\* only in what they return for equal identifiers.
FirstSetBit(dist, none) ==
    IF \A i \in ByteIndex : dist[i] = 0
    THEN none
    ELSE LET i == CHOOSE i \in ByteIndex :
                    dist[i] # 0 /\ \A j \in ByteIndex : j < i => dist[j] = 0
         IN  i * ByteBits + LeadingZeros(dist[i])

KBucketIndex(local, other) == FirstSetBit(XorDistance(local, other), KeyBits - 1)

SharedPrefixLength(local, other) == FirstSetBit(XorDistance(local, other), KeyBits)

-----------------------------------------------------------------------------
(* Single bits.  Here bit 0 is the least significant bit of the last byte. *)

InKey(bit) == bit >= 0 /\ bit < KeyBits

ByteOf(bit) == KeyBytes - 1 - bit \div ByteBits

MaskOf(bit) == PowerOfTwo[bit % ByteBits]

GetBit(key, bit) == IF InKey(bit) /\ key[ByteOf(bit)] & MaskOf(bit) # 0 THEN 1 ELSE 0

SetBit(key, bit) ==
    IF InKey(bit) THEN [key EXCEPT ![ByteOf(bit)] = @ | MaskOf(bit)] ELSE key

\* Mutant: ^= for &^=.
ClearBitFlips(key, bit) ==
    IF InKey(bit) THEN [key EXCEPT ![ByteOf(bit)] = @ ^^ MaskOf(bit)] ELSE key

ClearBit(key, bit) ==
    IF InKey(bit) THEN [key EXCEPT ![ByteOf(bit)] = AndNot(@, MaskOf(bit))] ELSE key

FlipBit(key, bit) ==
    IF InKey(bit) THEN [key EXCEPT ![ByteOf(bit)] = @ ^^ MaskOf(bit)] ELSE key

ConfirmPrefix(a, b, prefixLen) ==
    /\ prefixLen >= 0 /\ prefixLen <= KeyBits
    /\ \A i \in 0 .. prefixLen - 1 : GetBit(a, i) = GetBit(b, i)

-----------------------------------------------------------------------------
(* RandomIDInBucket.  Here bit 0 is the most significant bit of the first   *)
(* byte, as in SharedPrefixLength.                                          *)

\* Mutant: byte(0xFF << (bit + 2)).
HighMaskShort(k) ==
    LET bit == ByteBits - 1 - (k % ByteBits)
    IN  ((PowerOfTwo[ByteBits] - 1) * 2 * PowerOfTwo[bit + 1]) % PowerOfTwo[ByteBits]

\* byte(0xFF << (bit + 1)): the bits of a byte in front of bit k.
HighMask(k) ==
    LET bit == ByteBits - 1 - (k % ByteBits)
    IN  ((PowerOfTwo[ByteBits] - 1) * PowerOfTwo[bit + 1]) % PowerOfTwo[ByteBits]

\* What it returns for 0 <= k < KeyBits when the generator fills in noise.
RandomIDInBucket(local, k, noise) ==
    LET byteIdx == k \div ByteBits
        bit     == ByteBits - 1 - (k % ByteBits)
        byte    == AndNot(noise[byteIdx], HighMask(k)) | (local[byteIdx] & HighMask(k))
    IN  [i \in ByteIndex |-> IF i < byteIdx THEN local[i]
                             ELSE IF i = byteIdx THEN byte ^^ PowerOfTwo[bit]
                             ELSE noise[i]]

-----------------------------------------------------------------------------

VARIABLES
    local,          \* an identifier
    other           \* another, or the bytes the generator returns

Init == local \in NodeID /\ other \in NodeID

Next == UNCHANGED <<local, other>>

Spec == Init /\ [][Next]_<<local, other>>

-----------------------------------------------------------------------------

\* The bits of an identifier, as NodeIDs has them.
BitsOf(id) ==
    [n \in 0 .. KeyBits - 1 |->
        (id[n \div ByteBits] \div PowerOfTwo[ByteBits - 1 - (n % ByteBits)]) % 2]

Ref == INSTANCE NodeIDs WITH KeyBits <- KeyBits

\* The nested loops over bytes and bits find the first bit that differs.
SearchesAgree ==
    /\ SharedPrefixLength(local, other) = Ref!SharedPrefixLength(BitsOf(local), BitsOf(other))
    /\ KBucketIndex(local, other) = Ref!KBucketIndex(BitsOf(local), BitsOf(other))

\* Comparing distances byte by byte orders identifiers as comparing bit by bit
\* does, and to be less distant is to share a longer prefix or an equal one.
DistancesAgree ==
    /\ BitsOf(XorDistance(local, other)) = Ref!XorDistance(BitsOf(local), BitsOf(other))
    /\ LessDistance(local, other) = Ref!LessDistance(BitsOf(local), BitsOf(other))
    /\ \A target \in NodeID : CompareXorDistance(local, other, target) =>
          SharedPrefixLength(local, target) >= SharedPrefixLength(other, target)

\* Setting, clearing and flipping a bit changes what GetBit reads of that bit and
\* of no other; a bit beyond the key changes nothing.
BitsAreIndependent ==
    \A bit \in -1 .. KeyBits, at \in -1 .. KeyBits :
        LET before == GetBit(local, at)
            hit    == at = bit /\ InKey(bit)
        IN  /\ GetBit(SetBit(local, bit), at) = IF hit THEN 1 ELSE before
            /\ GetBit(ClearBit(local, bit), at) = IF hit THEN 0 ELSE before
            /\ GetBit(FlipBit(local, bit), at) = IF hit THEN 1 - before ELSE before

\* The masks and shifts of RandomIDInBucket leave a refresh target for bucket k the bits
\* of this node before bit k, and every bit after it as the generator drew it: "matches
\* `local` in all bits 0..k-1", "has bits k+1..159 uniformly random".
RefreshTargetsKeepPrefix ==
    \A k, n \in 0 .. KeyBits - 1 :
        LET target == RandomIDInBucket(local, k, other)
        IN  /\ n < k => BitsOf(target)[n] = BitsOf(local)[n]
            /\ n > k => BitsOf(target)[n] = BitsOf(other)[n]

-----------------------------------------------------------------------------
(* What two comments say and the code does not do.                         *)

\* "ConfirmPrefix checks if two NodeIDs have the same prefix of a given length", the
\* bits that SharedPrefixLength counts.
ConfirmsPrefixes ==
    \A n \in 0 .. KeyBits :
        ConfirmPrefix(local, other, n) <=> SharedPrefixLength(local, other) >= n

\* RandomIDInBucket "matches `local` in all bits 0..k-1" and "differs in bit k".
TargetsDiffer ==
    \A k \in 0 .. KeyBits - 1 :
        SharedPrefixLength(local, RandomIDInBucket(local, k, other)) = k

\* At least one of the two comments is right of this pair of identifiers.  A pair of
\* which it is false refutes both: ConfirmPrefix counts from the last bit, and bit k of
\* a refresh target is the flipped bit of the generator, not that of this node.
OneCommentHolds == ConfirmsPrefixes \/ TargetsDiffer

=============================================================================
