-------------------------- MODULE ContactSetLemmas --------------------------
(***************************************************************************)
(* Facts about prefixes and distances of node identifiers of any length,   *)
(* and about cutting a set of contacts to its K nearest.                   *)
(***************************************************************************)
EXTENDS ContactSets, FiniteSetTheorems, TLAPS

\* A set of bit indices that is not empty has a least element.
LEMMA LeastBit ==
    ASSUME NEW T \in SUBSET BitIndex, T # {}
    PROVE  \E i \in T : \A j \in BitIndex : j < i => j \notin T
<1> DEFINE Below == {0 .. i : i \in T}
           R     == StrictSubsetOrdering(BitIndex)
<1>1. \A i \in BitIndex : i \in Nat /\ 0 .. i \in SUBSET BitIndex
  BY KeyBitsAssumption DEF BitIndex
<1>2. IsFiniteSet(BitIndex)
  BY KeyBitsAssumption, FS_Interval DEF BitIndex
<1>3. IsWellFoundedOn(R, SUBSET BitIndex)
  BY <1>2, FS_FiniteSubsetsOfFinite, FS_StrictSubsetOrderingWellFounded
<1>4. Below # {} /\ Below \subseteq SUBSET BitIndex
  BY <1>1
<1>5. PICK x \in Below : \A y \in Below : <<y, x>> \notin R
  <2> HIDE DEF Below, R
  <2> QED
    BY <1>3, <1>4, WFMin
<1>6. PICK i \in T : x = 0 .. i
  BY <1>5
<1>7. ASSUME NEW j \in T, j < i PROVE FALSE
  <2>1. 0 .. j \in Below /\ 0 .. j \in SUBSET BitIndex /\ x \in SUBSET BitIndex
    BY <1>1, <1>6
  <2>2. 0 .. j \subseteq x /\ 0 .. j # x
    BY <1>1, <1>6, <1>7
  <2> QED
    BY <1>5, <2>1, <2>2 DEF StrictSubsetOrdering
<1> QED
  BY <1>1, <1>7

\* Two different identifiers differ first at exactly one bit.
LEMMA FirstDifference ==
    ASSUME NEW a \in NodeID, NEW b \in NodeID, a # b
    PROVE  \E i \in BitIndex : DifferFirstAt(a, b, i)
<1> DEFINE T == {i \in BitIndex : a[i] # b[i]}
<1>1. T # {}
  BY DEF NodeID
<1>2. PICK i \in T : \A j \in BitIndex : j < i => j \notin T
  <2> HIDE DEF T
  <2>1. T \in SUBSET BitIndex
    BY DEF T
  <2> QED
    BY <1>1, <2>1, LeastBit
<1> QED
  BY <1>2 DEF DifferFirstAt

\* No other bit is the first difference.
LEMMA FirstDifferenceUnique ==
    ASSUME NEW a, NEW b, NEW i \in BitIndex, NEW j \in BitIndex,
           DifferFirstAt(a, b, i), DifferFirstAt(a, b, j)
    PROVE  i = j
BY KeyBitsAssumption DEF DifferFirstAt, BitIndex

\* The prefix two different identifiers share ends where they first differ.
LEMMA PrefixOfDifferent ==
    ASSUME NEW a \in NodeID, NEW b \in NodeID, a # b
    PROVE  /\ SharedPrefixLength(a, b) \in BitIndex
           /\ DifferFirstAt(a, b, SharedPrefixLength(a, b))
           /\ KBucketIndex(a, b) = SharedPrefixLength(a, b)
<1>1. \E i \in BitIndex : a[i] # b[i]
  BY DEF NodeID
<1>2. \E i \in BitIndex : DifferFirstAt(a, b, i)
  BY FirstDifference
<1> QED
  BY <1>1, <1>2 DEF SharedPrefixLength, KBucketIndex

\* An identifier shares all its bits with itself, yet belongs to the last bucket.
LEMMA PrefixOfEqual ==
    ASSUME NEW a
    PROVE  SharedPrefixLength(a, a) = KeyBits /\ KBucketIndex(a, a) = KeyBits - 1
BY DEF SharedPrefixLength, KBucketIndex

\* The ranges of the two searches.
LEMMA PrefixType ==
    ASSUME NEW a \in NodeID, NEW b \in NodeID
    PROVE  SharedPrefixLength(a, b) \in 0 .. KeyBits /\ KBucketIndex(a, b) \in BitIndex
BY PrefixOfDifferent, PrefixOfEqual, KeyBitsAssumption DEF BitIndex

-----------------------------------------------------------------------------

\* A distance is an array of bits like an identifier.
LEMMA XorType ==
    ASSUME NEW a, NEW b
    PROVE  XorDistance(a, b) \in NodeID
BY DEF XorDistance, NodeID

\* Only an identifier itself is at a given distance from a target.
LEMMA XorInjective ==
    ASSUME NEW a \in NodeID, NEW b \in NodeID, NEW t \in NodeID,
           XorDistance(a, t) = XorDistance(b, t)
    PROVE  a = b
<1>1. ASSUME NEW i \in BitIndex PROVE a[i] = b[i]
  <2>1. XorDistance(a, t)[i] = XorDistance(b, t)[i]
    OBVIOUS
  <2>2. a[i] \in {0, 1} /\ b[i] \in {0, 1} /\ t[i] \in {0, 1}
    BY DEF NodeID
  <2> QED
    BY <2>1, <2>2 DEF XorDistance
<1> QED
  BY <1>1 DEF NodeID

\* No distance is less than itself.
LEMMA LessIrreflexive == ASSUME NEW a \in NodeID PROVE ~LessDistance(a, a)
BY DEF LessDistance, NodeID, DifferFirstAt

\* Of two first differences the earlier one decides.
LEMMA LessTransitive ==
    ASSUME NEW a \in NodeID, NEW b \in NodeID, NEW c \in NodeID,
           LessDistance(a, b), LessDistance(b, c)
    PROVE  LessDistance(a, c)
<1>1. PICK i \in BitIndex : a[i] < b[i] /\ DifferFirstAt(a, b, i)
  BY DEF LessDistance
<1>2. PICK j \in BitIndex : b[j] < c[j] /\ DifferFirstAt(b, c, j)
  BY DEF LessDistance
<1>3. \A k \in BitIndex : k \in Nat /\ a[k] \in {0, 1} /\ b[k] \in {0, 1} /\ c[k] \in {0, 1}
  BY KeyBitsAssumption DEF NodeID, BitIndex
<1>4. CASE i < j
  BY <1>1, <1>2, <1>3, <1>4 DEF LessDistance, DifferFirstAt
<1>5. CASE j < i
  BY <1>1, <1>2, <1>3, <1>5 DEF LessDistance, DifferFirstAt
<1>6. CASE i = j
  BY <1>1, <1>2, <1>3, <1>6 DEF LessDistance, DifferFirstAt
<1> QED
  BY <1>3, <1>4, <1>5, <1>6

\* Two different distances are ordered one way or the other.
LEMMA LessTotal ==
    ASSUME NEW a \in NodeID, NEW b \in NodeID, a # b
    PROVE  LessDistance(a, b) \/ LessDistance(b, a)
<1>1. PICK i \in BitIndex : DifferFirstAt(a, b, i)
  BY FirstDifference
<1>2. DifferFirstAt(b, a, i)
  BY <1>1 DEF DifferFirstAt
<1>3. a[i] \in {0, 1} /\ b[i] \in {0, 1} /\ a[i] # b[i]
  BY <1>1 DEF NodeID, DifferFirstAt
<1> QED
  BY <1>1, <1>2, <1>3 DEF LessDistance

\* Being closer to a target is a strict total order of the identifiers.
THEOREM CloserIsStrictOrder ==
    ASSUME NEW t \in NodeID
    PROVE  /\ \A a \in NodeID : ~CompareXorDistance(a, a, t)
           /\ \A a, b, c \in NodeID :
                 CompareXorDistance(a, b, t) /\ CompareXorDistance(b, c, t)
                 => CompareXorDistance(a, c, t)
           /\ \A a, b \in NodeID :
                 a # b => CompareXorDistance(a, b, t) \/ CompareXorDistance(b, a, t)
<1>1. \A a \in NodeID : ~CompareXorDistance(a, a, t)
  BY XorType, LessIrreflexive DEF CompareXorDistance
<1>2. ASSUME NEW a \in NodeID, NEW b \in NodeID, NEW c \in NodeID,
             CompareXorDistance(a, b, t), CompareXorDistance(b, c, t)
      PROVE  CompareXorDistance(a, c, t)
  BY <1>2, XorType, LessTransitive DEF CompareXorDistance
<1>3. ASSUME NEW a \in NodeID, NEW b \in NodeID, a # b
      PROVE  CompareXorDistance(a, b, t) \/ CompareXorDistance(b, a, t)
  BY <1>3, XorType, XorInjective, LessTotal DEF CompareXorDistance
<1> QED
  BY <1>1, <1>2, <1>3

\* Nothing is closer to a target than the target itself.
LEMMA NothingCloserThanSelf ==
    ASSUME NEW a \in NodeID, NEW t \in NodeID
    PROVE  ~CompareXorDistance(a, t, t)
<1>1. \A i \in BitIndex : XorDistance(t, t)[i] = 0 /\ XorDistance(a, t)[i] \in {0, 1}
  BY DEF XorDistance
<1> QED
  BY <1>1 DEF CompareXorDistance, LessDistance

-----------------------------------------------------------------------------

\* Contacts that are told apart by their identifiers, as in one bucket.
Distinct(S) == \A c \in S, d \in S : c.id = d.id => c = d

HaveIDs(S) == \A c \in S : c.id \in NodeID

\* Cutting a slice adds nobody.
LEMMA NearestSubset ==
    ASSUME NEW S, NEW t
    PROVE  Nearest(S, t) \subseteq S
BY DEF Nearest

\* Dropping an entry adds nobody and leaves no entry of that node.
LEMMA WithoutSubset ==
    ASSUME NEW S, NEW c
    PROVE  Without(S, c) \subseteq S /\ c.id \notin Ids(Without(S, c))
BY DEF Without, Ids

\* In a finite set of distinct contacts one is farther from a target than all others.
LEMMA FarthestExists ==
    ASSUME NEW S, IsFiniteSet(S), S # {}, HaveIDs(S), Distinct(S), NEW t \in NodeID
    PROVE  \E f \in S : \A d \in S : d # f => CompareXorDistance(d.id, f.id, t)
<1> DEFINE Beyond(c) == {d \in S : CompareXorDistance(c.id, d.id, t)}
           R         == StrictSubsetOrdering(S)
           F         == {Beyond(c) : c \in S}
<1>1. IsWellFoundedOn(R, SUBSET S)
  BY FS_FiniteSubsetsOfFinite, FS_StrictSubsetOrderingWellFounded
<1>2. F # {} /\ F \subseteq SUBSET S
  OBVIOUS
<1>3. PICK x \in F : \A y \in F : <<y, x>> \notin R
  <2> HIDE DEF F, R
  <2> QED
    BY <1>1, <1>2, WFMin
<1>4. PICK f \in S : x = Beyond(f)
  BY <1>3
<1>5. ASSUME NEW d \in S, d # f, ~CompareXorDistance(d.id, f.id, t)
      PROVE  FALSE
  <2>1. d.id # f.id /\ d.id \in NodeID /\ f.id \in NodeID
    BY <1>5 DEF Distinct, HaveIDs
  <2>2. CompareXorDistance(f.id, d.id, t)
    BY <1>5, <2>1, CloserIsStrictOrder
  <2>3. ASSUME NEW e \in Beyond(d) PROVE e \in Beyond(f)
    <3>1. e \in S /\ e.id \in NodeID /\ CompareXorDistance(d.id, e.id, t)
      BY <2>3 DEF HaveIDs
    <3> QED
      BY <2>1, <2>2, <3>1, CloserIsStrictOrder
  <2>4. d \in Beyond(f) /\ d \notin Beyond(d)
    BY <2>1, <2>2, CloserIsStrictOrder
  <2>5. Beyond(d) \in F /\ <<Beyond(d), Beyond(f)>> \in R
    BY <2>3, <2>4 DEF StrictSubsetOrdering
  <2> QED
    BY <1>3, <1>4, <2>5
<1> QED
  BY <1>5

\* Sorting and cutting a slice of at most K + 1 contacts leaves at most K.
LEMMA NearestBound ==
    ASSUME NEW S, IsFiniteSet(S), Cardinality(S) <= K + 1,
           HaveIDs(S), Distinct(S), NEW t \in NodeID
    PROVE  IsFiniteSet(Nearest(S, t)) /\ Cardinality(Nearest(S, t)) <= K
<1> DEFINE N == Nearest(S, t)
<1>1. IsFiniteSet(N) /\ Cardinality(N) <= Cardinality(S) /\ N \in SUBSET S
  BY NearestSubset, FS_Subset
<1>2. Cardinality(N) \in Nat /\ Cardinality(S) \in Nat /\ K \in Nat \ {0}
  BY <1>1, FS_CardinalityType, KAssumption
<1>3. CASE Cardinality(S) <= K
  BY <1>1, <1>2, <1>3
<1>4. CASE Cardinality(S) = K + 1
  <2>1. S # {}
    BY <1>2, <1>4, FS_EmptySet
  <2>2. PICK f \in S : \A d \in S : d # f => CompareXorDistance(d.id, f.id, t)
    BY <2>1, FarthestExists
  <2>3. f.id \in NodeID /\ ~CompareXorDistance(f.id, f.id, t)
    BY CloserIsStrictOrder DEF HaveIDs
  <2>4. Closer(S, f, t) = S \ {f}
    BY <2>2, <2>3 DEF Closer
  <2>5. IsFiniteSet(S \ {f}) /\ Cardinality(S \ {f}) = K
    <3>1. IsFiniteSet(S \ {f}) /\ Cardinality(S \ {f}) = Cardinality(S) - 1
      BY FS_RemoveElement
    <3> QED
      BY <1>2, <1>4, <3>1
  <2>6. N \in SUBSET (S \ {f})
    BY <1>2, <2>4, <2>5, NearestSubset DEF Nearest
  <2> QED
    BY <1>1, <2>5, <2>6, FS_Subset
<1> QED
  BY <1>2, <1>3, <1>4

\* The local node is never cut from its own bucket.
LEMMA NearestKeepsLocal ==
    ASSUME NEW S, HaveIDs(S), Local \in S
    PROVE  Local \in Nearest(S, LocalID)
<1>1. Closer(S, Local, LocalID) = {}
  BY NothingCloserThanSelf, LocalIDAssumption DEF Closer, HaveIDs, Local
<1>2. Cardinality({}) < K
  BY FS_EmptySet, KAssumption
<1> QED
  BY <1>1, <1>2 DEF Nearest

\* Who is not among the K nearest has K of them in front of him.
LEMMA NearestComplete ==
    ASSUME NEW S, IsFiniteSet(S), HaveIDs(S), NEW t \in NodeID,
           NEW c \in S, c \notin Nearest(S, t)
    PROVE  Cardinality(Closer(Nearest(S, t), c, t)) >= K
<1> DEFINE Front(x) == Closer(S, x, t)
           M        == {x \in S : ~(Cardinality(Front(x)) < K)}
           F        == {Front(x) : x \in M}
           R        == StrictSubsetOrdering(S)
<1>1. IsWellFoundedOn(R, SUBSET S)
  BY FS_FiniteSubsetsOfFinite, FS_StrictSubsetOrderingWellFounded
<1>2. c \in M /\ F # {} /\ F \subseteq SUBSET S
  BY DEF Nearest, Closer
<1>3. PICK y \in F : \A z \in F : <<z, y>> \notin R
  <2> HIDE DEF F, R
  <2> QED
    BY <1>1, <1>2, WFMin
<1>4. PICK m \in M : y = Front(m)
  BY <1>3
<1>5. m \in S /\ m.id \in NodeID /\ c.id \in NodeID /\ ~(Cardinality(Front(m)) < K)
  BY <1>4 DEF HaveIDs
\* Nobody in M is closer than m, for he would have fewer in front of him.
<1>6. ASSUME NEW x \in M, CompareXorDistance(x.id, m.id, t) PROVE FALSE
  <2>1. x \in S /\ x.id \in NodeID
    BY <1>6 DEF HaveIDs
  <2>2. ASSUME NEW e \in Front(x) PROVE e \in Front(m)
    <3>1. e \in S /\ e.id \in NodeID /\ CompareXorDistance(e.id, x.id, t)
      BY <2>2 DEF Closer, HaveIDs
    <3> QED
      BY <1>5, <1>6, <2>1, <3>1, CloserIsStrictOrder DEF Closer
  <2>3. x \in Front(m) /\ x \notin Front(x)
    BY <1>6, <2>1, CloserIsStrictOrder DEF Closer
  <2>4. Front(x) \in F /\ <<Front(x), Front(m)>> \in R
    BY <2>2, <2>3 DEF StrictSubsetOrdering, Closer
  <2> QED
    BY <1>3, <1>4, <2>4
<1>7. Front(m) \subseteq Nearest(S, t)
  BY <1>6 DEF Nearest, Closer
<1>8. Front(m) \subseteq Closer(Nearest(S, t), c, t)
  <2>1. ASSUME NEW e \in Front(m) PROVE CompareXorDistance(e.id, c.id, t)
    <3>1. e.id \in NodeID /\ CompareXorDistance(e.id, m.id, t)
      BY <2>1 DEF Closer, HaveIDs
    <3>2. ~CompareXorDistance(c.id, m.id, t)
      BY <1>2, <1>6
    <3>3. m.id = c.id \/ CompareXorDistance(m.id, c.id, t)
      BY <1>5, <3>2, CloserIsStrictOrder
    <3> QED
      BY <1>5, <3>1, <3>3, CloserIsStrictOrder
  <2> QED
    BY <1>7, <2>1 DEF Closer
<1> DEFINE C == Closer(Nearest(S, t), c, t)
<1>9. C \in SUBSET S
  BY DEF Closer, Nearest
<1>10. IsFiniteSet(C) /\ Cardinality(Front(m)) <= Cardinality(C)
       /\ Cardinality(C) \in Nat /\ Cardinality(Front(m)) \in Nat
  <2>1. IsFiniteSet(C)
    BY <1>9, FS_Subset
  <2>2. Front(m) \in SUBSET C
    BY <1>8
  <2> QED
    BY <2>1, <2>2, FS_Subset, FS_CardinalityType
<1> HIDE DEF Front, C
<1> QED
  BY <1>5, <1>10, KAssumption DEF C

=============================================================================
