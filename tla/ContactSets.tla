----------------------------- MODULE ContactSets -----------------------------
(***************************************************************************)
(* Contacts (api.Contact) and sets of them as seen from the local node: the *)
(* vocabulary that the routing table shares with what it promises.          *)
(***************************************************************************)
EXTENDS NodeIDs, FiniteSets

CONSTANTS
    K,              \* rt.k, the capacity of a bucket
    LocalID         \* the identifier of this node

ASSUME KAssumption == K \in Nat \ {0}

ASSUME LocalIDAssumption == LocalID \in NodeID

\* A contact is an identifier and the address it was last heard from.
IsContact(c) == c = [id |-> c.id, addr |-> c.addr] /\ c.id \in NodeID

\* rt.local, and the nil *api.Contact that slices.Delete leaves behind the
\* tail of a shortened slice: GetId of nil is empty, which reads as ZeroID.
Local == [id |-> LocalID, addr |-> "local"]
Nil   == [id |-> ZeroID, addr |-> "nil"]

Ids(S) == {c.id : c \in S}

\* The number of leading bits a contact shares with the local node.
Prefix(c) == SharedPrefixLength(LocalID, c.id)

Closer(S, c, target) == {d \in S : CompareXorDistance(d.id, c.id, target)}

\* Mutants: one too many; the order reversed.
NearestOneMore(S, target) == {c \in S : Cardinality(Closer(S, c, target)) <= K}

NearestReversed(S, target) ==
    {c \in S : Cardinality({d \in S : CompareXorDistance(c.id, d.id, target)}) < K}

\* The first K of S by distance to target: what sorting a slice and cutting
\* its tail leaves.  Both Insert and ClosestK do that.
Nearest(S, target) == {c \in S : Cardinality(Closer(S, c, target)) < K}

\* Mutant: contacts are compared by identifier and address.
WithoutSame(S, c) == S \ {c}

Without(S, c) == {p \in S : p.id # c.id}

=============================================================================
