------------------------------- MODULE NodeIDs -------------------------------
(***************************************************************************)
(* Node identifiers and the Kademlia distance (src/api/kdht_utils.go).      *)
(*                                                                         *)
(* An identifier is the array of its bits, the most significant bit of its  *)
(* first byte at index 0.  The code walks bytes and then the bits of the    *)
(* first byte that differs; on the array of bits that is one search for the *)
(* first index at which two identifiers differ.  NodeIDBytes translates the *)
(* same functions byte by byte, and its runs check that the two agree.      *)
(***************************************************************************)
EXTENDS Naturals

CONSTANT KeyBits          \* api.KeyBits, 160 in the program

ASSUME KeyBitsAssumption == KeyBits \in Nat \ {0}

BitIndex == 0 .. KeyBits - 1

NodeID == [BitIndex -> {0, 1}]

\* NodeID{}: the value SliceToNodeID gives for a slice of the wrong length.
ZeroID == [i \in BitIndex |-> 0]

\* a and b first differ at bit i.
DifferFirstAt(a, b, i) == a[i] # b[i] /\ \A j \in BitIndex : j < i => a[j] = b[j]

-----------------------------------------------------------------------------

XorDistance(local, other) == [i \in BitIndex |-> IF local[i] = other[i] THEN 0 ELSE 1]

\* Lexicographic from the most significant end; FALSE on equal distances.
LessDistance(a, b) == \E i \in BitIndex : a[i] < b[i] /\ DifferFirstAt(a, b, i)

\* a is strictly closer to target than b is.
CompareXorDistance(a, b, target) ==
    LessDistance(XorDistance(a, target), XorDistance(b, target))

\* The length of the common prefix: KeyBits for equal identifiers.
SharedPrefixLength(local, other) ==
    IF \E i \in BitIndex : local[i] # other[i]
    THEN CHOOSE i \in BitIndex : DifferFirstAt(local, other, i)
    ELSE KeyBits

\* The same search, but an identifier equal to local counts as the last bucket's.
KBucketIndex(local, other) ==
    IF \E i \in BitIndex : local[i] # other[i]
    THEN CHOOSE i \in BitIndex : DifferFirstAt(local, other, i)
    ELSE KeyBits - 1

=============================================================================
