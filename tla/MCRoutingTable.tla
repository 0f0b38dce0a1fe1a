--------------------------- MODULE MCRoutingTable ---------------------------
(***************************************************************************)
(* Small instances of RoutingTable for TLC: identifiers of three bits.      *)
(***************************************************************************)
EXTENDS RoutingTable, TLC

CONSTANTS g1, g2

\* The identifier whose bits spell n.
Bits(n) == [i \in 0 .. 2 |-> (n \div 2 ^ (2 - i)) % 2]

Peer(n) == [id |-> Bits(n), addr |-> "a"]
Moved(n) == [id |-> Bits(n), addr |-> "b"]

MCLocalID == Bits(5)                  \* 101

\* Two peers with no bit in common with 101, one with one bit, one with two.
MCContacts == {Peer(1), Peer(3), Peer(7), Peer(4)}

\* One more than K of the first kind, one of them also at a second address, and the
\* local node itself.
MCMoved == {Peer(1), Peer(2), Peer(3), Moved(3), Peer(4), Peer(5)}

\* One more than K of the first kind, some also at a second address, and the
\* local node itself.
MCMoving == MCContacts \cup {Peer(2), Moved(1), Moved(7), Peer(5)}

MCTriple == {Peer(1), Peer(3), Peer(7)}

MCRemovable == {Peer(3)}

\* The local node, without which no bucket can be split.
MCLocalRemovable == {Peer(5)}

MCTargets == {Bits(6)}

MCSymmetry == Permutations(Goroutines)

=============================================================================
