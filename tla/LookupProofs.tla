----------------------------- MODULE LookupProofs -----------------------------
(***************************************************************************)
(* Theorems about Lookup, for any number of nodes, tables, calls and        *)
(* deadlines missed: nodes that have talked to each other keep each other   *)
(* in mind, and a join makes this node and those it found know each other.  *)
(***************************************************************************)
EXTENDS Lookup, ContactSetLemmas

-----------------------------------------------------------------------------
(* What noting a contact does to a table.                                  *)

\* Contacts are finitely many and told apart by their identifiers.
LEMMA ContactFacts ==
    /\ IsFiniteSet(Contacts) /\ Local \in Contacts
    /\ \A c \in Contacts : c.id \in NodeID
    /\ \A S \in SUBSET Contacts : IsFiniteSet(S) /\ HaveIDs(S) /\ Distinct(S)
<1>1. IsFiniteSet(Contacts)
  BY OthersAssumption, FS_AddElement DEF Contacts
<1>2. \A c \in Contacts : c.id \in NodeID
  BY OthersAssumption, LocalIDAssumption DEF Contacts, Local, IsContact
<1>3. \A c, d \in Contacts : c.id = d.id => c = d
  BY OthersAssumption
<1>4. \A S \in SUBSET Contacts : IsFiniteSet(S) /\ HaveIDs(S) /\ Distinct(S)
  BY <1>1, <1>2, <1>3, FS_Subset DEF HaveIDs, Distinct
<1> QED
  BY <1>1, <1>2, <1>4 DEF Contacts

\* A table of n that Update may have built.
Table(S, n) ==
    /\ S \in SUBSET Contacts /\ n \notin S
    /\ \A c \in Contacts : Cardinality(Class(S, n, c)) <= K

\* Knows, of a table instead of its owner.
Covers(S, n, d) == d \in S \/ Cardinality(Closer(Class(S, n, d), d, n.id)) >= K

\* Whom K of a set are in front of, K of its nearest are in front of.
LEMMA NearestInFront ==
    ASSUME NEW Y \in SUBSET Contacts, NEW d \in Contacts, NEW t \in NodeID,
           Cardinality(Closer(Y, d, t)) >= K
    PROVE  Cardinality(Closer(Nearest(Y, t), d, t)) >= K
<1> DEFINE Z == Y \cup {d}
<1>1. Z \in SUBSET Contacts /\ IsFiniteSet(Z) /\ HaveIDs(Z) /\ d \in Z
      /\ IsFiniteSet(Y) /\ d.id \in NodeID
  BY ContactFacts
<1>2. Closer(Z, d, t) = Closer(Y, d, t)
  BY <1>1, CloserIsStrictOrder DEF Closer
<1>3. d \notin Nearest(Z, t)
  <2>1. IsFiniteSet(Closer(Y, d, t))
    BY <1>1, FS_Subset DEF Closer
  <2>2. Cardinality(Closer(Y, d, t)) \in Nat
    BY <2>1, FS_CardinalityType
  <2> QED
    BY <1>2, <2>2, KAssumption DEF Nearest
<1>4. Cardinality(Closer(Nearest(Z, t), d, t)) >= K
  BY <1>1, <1>3, NearestComplete
<1>5. Closer(Nearest(Z, t), d, t) \subseteq Closer(Nearest(Y, t), d, t)
  <2>1. SUFFICES ASSUME NEW e \in Nearest(Z, t), CompareXorDistance(e.id, d.id, t)
                 PROVE  e \in Nearest(Y, t)
    BY DEF Closer
  <2>2. e # d /\ e \in Y
    BY <2>1, <1>1, CloserIsStrictOrder DEF Nearest
  <2>3. Cardinality(Closer(Z, e, t)) < K
    BY <2>1 DEF Nearest
  <2>4. Closer(Y, e, t) \in SUBSET Closer(Z, e, t) /\ IsFiniteSet(Closer(Z, e, t))
    BY <1>1, FS_Subset DEF Closer
  <2>5. /\ Cardinality(Closer(Y, e, t)) <= Cardinality(Closer(Z, e, t))
        /\ Cardinality(Closer(Y, e, t)) \in Nat /\ Cardinality(Closer(Z, e, t)) \in Nat
    BY <2>4, FS_Subset, FS_CardinalityType
  <2> QED
    BY <2>2, <2>3, <2>5, KAssumption DEF Nearest
<1> DEFINE A == Closer(Nearest(Z, t), d, t)
           B == Closer(Nearest(Y, t), d, t)
<1>6. IsFiniteSet(B)
  BY <1>1, FS_Subset DEF Closer, Nearest
<1>7. Cardinality(A) <= Cardinality(B) /\ Cardinality(A) \in Nat /\ Cardinality(B) \in Nat
  BY <1>5, <1>6, FS_Subset, FS_CardinalityType
<1> HIDE DEF A, B
<1> QED
  BY <1>4, <1>7, KAssumption DEF A, B

\* Update keeps a table a table, the contact is in it or K of its class are nearer,
\* and the same goes for everybody of whom it held before.
LEMMA NotedFacts ==
    ASSUME NEW n \in Contacts, NEW c \in Contacts, NEW S, Table(S, n)
    PROVE  /\ Table(Noted(S, n, c), n)
           /\ c # n => Covers(Noted(S, n, c), n, c)
           /\ \A d \in Contacts : Covers(S, n, d) => Covers(Noted(S, n, c), n, d)
<1> DEFINE X == Class(S, n, c)
           Y == Without(X, c) \cup {c}
           N == Nearest(Y, n.id)
           T == Noted(S, n, c)
<1>1. CASE c = n
  BY <1>1 DEF Noted
<1>2. CASE c # n
  <2>1. T = (S \ X) \cup N
    BY <1>2 DEF Noted
  <2>2. n.id \in NodeID /\ c.id \in NodeID /\ S \in SUBSET Contacts
    BY ContactFacts DEF Table
  <2>3. X \in SUBSET Contacts /\ Y = X \cup {c} /\ Y \in SUBSET Contacts
    <3>1. X \in SUBSET Contacts
      BY <2>2 DEF Class
    <3>2. \A d \in X : d.id = c.id => d = c
      BY <3>1, OthersAssumption
    <3> HIDE DEF X
    <3>3. Y = X \cup {c}
      BY <3>2 DEF Without
    <3>4. Y \in SUBSET Contacts
      BY <3>1, <3>3
    <3> HIDE DEF Y
    <3> QED
      BY <3>1, <3>3, <3>4
  <2>4. N \in SUBSET Y
    BY NearestSubset
  <2> DEFINE Same(d) == SharedPrefixLength(n.id, d.id) = SharedPrefixLength(n.id, c.id)
  <2>5. \A d \in Y : Same(d)
    BY <2>3 DEF Class
  <2>6. ASSUME NEW d \in Contacts, Same(d)
        PROVE  Class(T, n, d) = N /\ Class(S, n, d) = X
    BY <2>1, <2>4, <2>5, <2>6 DEF Class
  <2>7. ASSUME NEW d \in Contacts, ~Same(d)
        PROVE  Class(T, n, d) = Class(S, n, d) /\ (d \in T <=> d \in S)
    <3>1. \A e : ~Same(e) => (e \in T <=> e \in S)
      <4>1. \A e : ~Same(e) => e \notin N /\ e \notin X
        BY <2>4, <2>5 DEF Class
      <4> HIDE DEF T, X, N, Y, Same
      <4> QED
        BY <2>1, <4>1
    <3>2. \A e \in Class(T, n, d) \cup Class(S, n, d) : ~Same(e)
      BY <2>7 DEF Class
    <3> HIDE DEF T
    <3>3. Class(T, n, d) = Class(S, n, d)
      BY <3>1, <3>2 DEF Class
    <3> QED
      BY <2>7, <3>1, <3>3
  <2>8. Cardinality(N) <= K
    <3>1. IsFiniteSet(X) /\ Cardinality(X) <= K
      BY <2>3, ContactFacts DEF Table
    <3>2. Cardinality(Y) <= K + 1
      BY <2>3, <3>1, FS_AddElement, FS_CardinalityType, KAssumption
    <3>3. IsFiniteSet(Y) /\ HaveIDs(Y) /\ Distinct(Y)
      BY <2>3, ContactFacts
    <3> HIDE DEF X, Y
    <3> QED
      BY <2>2, <3>2, <3>3, NearestBound
  <2>9. Table(T, n)
    <3>1. T \in SUBSET Contacts
      BY <2>1, <2>2, <2>3, <2>4
    <3>2. n \notin T
      <4>1. n \notin Y
        BY <1>2, <2>3 DEF Table, Class
      <4> QED
        BY <2>1, <2>4, <4>1 DEF Table
    <3>3. ASSUME NEW d \in Contacts PROVE Cardinality(Class(T, n, d)) <= K
      <4>1. CASE Same(d)
        BY <2>6, <2>8, <4>1
      <4>2. CASE ~Same(d)
        BY <2>7, <4>2 DEF Table
      <4> QED
        BY <4>1, <4>2
    <3> QED
      BY <3>1, <3>2, <3>3 DEF Table
  <2>10. ASSUME NEW d \in Contacts, d \in Y \/ Cardinality(Closer(Y, d, n.id)) >= K, Same(d)
         PROVE  Covers(T, n, d)
    <3>1. CASE d \in N
      BY <2>1, <3>1 DEF Covers
    <3>2. CASE d \notin N
      <4>1. Cardinality(Closer(N, d, n.id)) >= K
        <5>1. CASE d \in Y
          <6>1. IsFiniteSet(Y) /\ HaveIDs(Y)
            BY <2>3, ContactFacts
          <6> HIDE DEF Y
          <6> QED
            BY <2>2, <3>2, <5>1, <6>1, NearestComplete
        <5>2. CASE Cardinality(Closer(Y, d, n.id)) >= K
          <6> HIDE DEF Y
          <6> QED
            BY <2>2, <2>3, <5>2, NearestInFront
        <5> QED
          BY <2>10, <5>1, <5>2
      <4> QED
        BY <2>6, <2>10, <4>1 DEF Covers
    <3> QED
      BY <3>1, <3>2
  <2>11. Covers(T, n, c)
    BY <2>3, <2>10
  <2>12. ASSUME NEW d \in Contacts, Covers(S, n, d)
         PROVE  Covers(T, n, d)
    <3>1. CASE ~Same(d)
      BY <2>7, <2>12, <3>1 DEF Covers
    <3>2. CASE Same(d)
      <4>1. CASE d \in S
        <5>1. d \in Y
          BY <2>3, <3>2, <4>1 DEF Class
        <5> QED
          BY <2>10, <3>2, <5>1
      <4>2. CASE d \notin S
        <5>1. Cardinality(Closer(X, d, n.id)) >= K
          BY <2>6, <2>12, <3>2, <4>2 DEF Covers
        <5>2. Closer(X, d, n.id) \in SUBSET Closer(Y, d, n.id)
          BY <2>3 DEF Closer
        <5>3. IsFiniteSet(Closer(Y, d, n.id))
          BY <2>3, ContactFacts DEF Closer
        <5> DEFINE A == Closer(X, d, n.id)
                   B == Closer(Y, d, n.id)
        <5>4. /\ Cardinality(A) <= Cardinality(B)
              /\ Cardinality(A) \in Nat /\ Cardinality(B) \in Nat
          BY <5>2, <5>3, FS_Subset, FS_CardinalityType
        <5>5. Cardinality(B) >= K
          <6> HIDE DEF A, B
          <6> QED
            BY <5>1, <5>4, KAssumption DEF A
        <5> QED
          BY <2>10, <3>2, <5>5
      <4> QED
        BY <4>1, <4>2
    <3> QED
      BY <3>1, <3>2
  <2> QED
    BY <2>9, <2>11, <2>12
<1> QED
  BY <1>1, <1>2

-----------------------------------------------------------------------------
(* Who knows whom.                                                         *)

\* Tables are tables, and a node that has served a request of this one, or
\* acknowledged a ping, is in its place.
Acquainted ==
    /\ tables \in [Contacts -> SUBSET Contacts]
    /\ \A n \in Contacts : Table(tables[n], n)
    /\ served \subseteq Alive /\ acked \subseteq Contacts /\ strays \subseteq Alive
    /\ \A c \in served \ {Local} : Covers(tables[c], c, Local)
    /\ \A c \in acked \ {Local} : Covers(tables[Local], Local, c)

\* One table is updated with a contact, whoever it is.
LEMMA AcquaintedNoting ==
    ASSUME Acquainted, NEW n \in Contacts, NEW c \in Contacts,
           tables' = [tables EXCEPT ![n] = Noted(@, n, c)],
           served' \subseteq Alive, \A d \in served' \ served : d = n /\ c = Local,
           acked' \subseteq Contacts, \A d \in acked' \ acked : d = c /\ n = Local,
           strays' \subseteq Alive
    PROVE  Acquainted'
<1> DEFINE T == Noted(tables[n], n, c)
<1>1. /\ Table(T, n)
      /\ c # n => Covers(T, n, c)
      /\ \A d \in Contacts : Covers(tables[n], n, d) => Covers(T, n, d)
  BY NotedFacts DEF Acquainted
<1>2. T \in SUBSET Contacts
  BY <1>1 DEF Table
<1>3. \A m \in Contacts : tables'[m] = IF m = n THEN T ELSE tables[m]
  BY DEF Acquainted
<1> HIDE DEF T
<1>4. tables' \in [Contacts -> SUBSET Contacts]
  <2>1. tables' = [tables EXCEPT ![n] = T]
    BY DEF T
  <2> QED
    BY <1>2, <2>1 DEF Acquainted
<1>5. \A m \in Contacts : Table(tables'[m], m)
  BY <1>1, <1>3 DEF Acquainted
<1>6. \A m, d \in Contacts : Covers(tables[m], m, d) => Covers(tables'[m], m, d)
  BY <1>1, <1>3
<1>7. Local \in Contacts /\ Alive \subseteq Contacts
  BY DEF Contacts, Alive
<1>8. ASSUME NEW d \in served' \ {Local}
      PROVE  Covers(tables'[d], d, Local)
  <2>1. CASE d \in served
    BY <1>6, <1>7, <1>8, <2>1 DEF Acquainted
  <2>2. CASE d \notin served
    <3>1. d = n /\ c = Local
      BY <2>2
    <3> QED
      BY <1>1, <1>3, <1>8, <3>1
  <2> QED
    BY <2>1, <2>2
<1>9. ASSUME NEW d \in acked' \ {Local}
      PROVE  Covers(tables'[Local], Local, d)
  <2>1. CASE d \in acked
    BY <1>6, <1>7, <1>9, <2>1 DEF Acquainted
  <2>2. CASE d \notin acked
    <3>1. d = c /\ n = Local
      BY <2>2
    <3> QED
      BY <1>1, <1>3, <1>9, <3>1
  <2> QED
    BY <2>1, <2>2
<1> QED
  BY <1>4, <1>5, <1>8, <1>9 DEF Acquainted

\* A node serves a request.
LEMMA AcquaintedServing ==
    ASSUME Acquainted, NEW c \in Alive, Serves(c), UNCHANGED acked, strays' \subseteq Alive
    PROVE  Acquainted'
<1>1. c \in Contacts /\ Local \in Contacts /\ acked \subseteq Contacts /\ served \subseteq Alive
  BY DEF Alive, Contacts, Acquainted
<1> QED
  BY <1>1, AcquaintedNoting DEF Serves

LEMMA AcquaintedQuiet ==
    ASSUME Acquainted, UNCHANGED <<tables, served, acked>>, strays' \subseteq Alive
    PROVE  Acquainted'
  BY DEF Acquainted

LEMMA AcquaintedInit == Init => Acquainted
<1> SUFFICES ASSUME Init PROVE Acquainted
  OBVIOUS
<1>1. /\ tables \in [Contacts -> SUBSET Contacts]
      /\ \A n \in Contacts : /\ n \notin tables[n]
                             /\ \A c \in Contacts : Cardinality(Class(tables[n], n, c)) <= K
  BY WorldsAssumption DEF Init
<1>2. \A n \in Contacts : Table(tables[n], n)
  BY <1>1 DEF Table
<1> QED
  BY <1>1, <1>2 DEF Init, Acquainted

LEMMA AcquaintedNext ==
    ASSUME Acquainted, [Next]_vars
    PROVE  Acquainted'
<1> USE DEF workers, pings, world
<1>1. strays \subseteq Alive
  BY DEF Acquainted
<1>2. ASSUME NEW call \in Calls, Begin(call[1], call[2])
      PROVE  Acquainted'
  BY <1>1, <1>2, AcquaintedQuiet DEF Begin
<1>3. CASE Caller
  <2>1. strays' \subseteq Alive /\ UNCHANGED <<tables, served, acked>>
    <3>1. CASE Greeted \/ Round \/ WaitDone \/ WaitTimeout \/ Done
      BY <1>1, <3>1 DEF Greeted, Round, WaitDone, WaitTimeout, Done
    <3>2. CASE Finish
      BY <1>1, <3>2 DEF Finish
    <3> QED
      BY <1>3, <3>1, <3>2 DEF Caller
  <2> QED
    BY <2>1, AcquaintedQuiet
<1>4. ASSUME NEW c \in Contacts, Worker(c)
      PROVE  Acquainted'
  <2>1. CASE Serve(c)
    BY <1>1, <2>1, AcquaintedServing DEF Serve
  <2>2. CASE Receive(c)
    BY <1>1, <2>2, AcquaintedQuiet DEF Receive
  <2>3. CASE Timeout(c)
    BY <1>1, <2>3, AcquaintedQuiet DEF Timeout
  <2> QED
    BY <1>4, <2>1, <2>2, <2>3 DEF Worker
<1>5. ASSUME NEW c \in Contacts, Races(c)
      PROVE  Acquainted'
  BY <1>1, <1>5, AcquaintedQuiet DEF Races, RoundRaced, AppendsRace
<1>6. ASSUME NEW c \in Contacts, Call(c)
      PROVE  Acquainted'
  <2>1. CASE PingServed(c)
    BY <1>1, <2>1, AcquaintedServing DEF PingServed
  <2>2. CASE Acknowledged(c)
    <3>1. Local \in Contacts /\ acked \subseteq Contacts /\ served \subseteq Alive
      BY DEF Contacts, Acquainted
    <3> QED
      BY <1>1, <2>2, <3>1, AcquaintedNoting DEF Acknowledged
  <2>3. CASE PutPanics(c)
    BY <1>1, <2>3, AcquaintedQuiet DEF PutPanics
  <2>4. CASE NoReply(c)
    BY <1>1, <2>4, AcquaintedQuiet DEF NoReply
  <2> QED
    BY <1>6, <2>1, <2>2, <2>3, <2>4 DEF Call
<1>7. ASSUME NEW c \in Contacts, Stray(c)
      PROVE  Acquainted'
  <2>1. c \in Alive /\ strays' \subseteq Alive
    BY <1>1, <1>7 DEF Stray
  <2> QED
    BY <1>7, <2>1, AcquaintedServing DEF Stray
<1>8. CASE UNCHANGED vars
  BY <1>1, <1>8, AcquaintedQuiet DEF vars
<1> QED
  BY <1>2, <1>3, <1>4, <1>5, <1>6, <1>7, <1>8 DEF Next

\* Whoever has served a request of this node knows it, and this node knows whoever
\* acknowledged a ping, as far as the tables have room for them.
THEOREM TablesKeepUpSafe == Spec => []TablesKeepUp
<1>1. Acquainted => TablesKeepUp
  BY DEF Acquainted, TablesKeepUp, Knows, Covers
<1> QED
  BY <1>1, AcquaintedInit, AcquaintedNext, PTL DEF Spec

-----------------------------------------------------------------------------
(* The shortlist.                                                          *)

Bags == [Contacts -> Nat]

LEMMA EntriesFinite ==
    ASSUME NEW b \in Bags
    PROVE  IsFiniteSet(Entries(b))
<1> DEFINE f == [c \in Contacts |-> {c} \X (1 .. b[c])]
           T == {{c} \X (1 .. b[c]) : c \in Contacts}
<1>1. f \in Surjection(Contacts, T)
  BY DEF Surjection
<1>2. IsFiniteSet(T)
  BY <1>1, ContactFacts, FS_Surjection
<1>3. ASSUME NEW c \in Contacts PROVE IsFiniteSet({c} \X (1 .. b[c]))
  <2>1. 1 \in Int /\ b[c] \in Int
    BY DEF Bags
  <2>2. IsFiniteSet(1 .. b[c])
    BY <2>1, FS_Interval
  <2>3. IsFiniteSet({c})
    BY FS_Singleton
  <2> QED
    BY <2>2, <2>3, FS_Product
<1>4. \A S \in T : IsFiniteSet(S)
  BY <1>3
<1> HIDE DEF T
<1>5. IsFiniteSet(UNION T)
  BY <1>2, <1>4, FS_UNION
<1> QED
  BY <1>5 DEF Entries, T

\* What is left of a bag is a bag.
LEMMA CountedType ==
    ASSUME NEW b \in Bags, NEW E \in SUBSET Entries(b)
    PROVE  Counted(E) \in Bags
<1>1. ASSUME NEW c \in Contacts PROVE Cardinality({e \in E : e[1] = c}) \in Nat
  <2>1. {e \in E : e[1] = c} \in SUBSET Entries(b)
    OBVIOUS
  <2> QED
    BY <2>1, EntriesFinite, FS_Subset, FS_CardinalityType
<1> QED
  BY <1>1 DEF Counted, Bags

LEMMA FirstType ==
    ASSUME NEW b \in Bags, NEW t
    PROVE  First(b, t) \in Bags
  BY CountedType DEF First

LEMMA PartsType ==
    ASSUME NEW b \in Bags, NEW e \in Parts(b)
    PROVE  e \in Bags
  BY CountedType DEF Parts

LEMMA AddingType ==
    ASSUME NEW b \in Bags, NEW S
    PROVE  Adding(b, S) \in Bags /\ (b # Nobody => Adding(b, S) # Nobody)
<1>1. Adding(b, S) \in Bags
  BY DEF Adding, Bags
<1>2. ASSUME Adding(b, S) = Nobody PROVE b = Nobody
  <2>1. ASSUME NEW c \in Contacts PROVE b[c] = 0
    <3>1. b[c] \in Nat /\ Adding(b, S)[c] = 0
      BY <1>2 DEF Bags, Nobody
    <3>2. Adding(b, S)[c] = IF c \in S THEN b[c] + 1 ELSE b[c]
      BY DEF Adding
    <3> QED
      BY <3>1, <3>2
  <2> QED
    BY <2>1 DEF Bags, Nobody
<1> QED
  BY <1>1, <1>2

LEMMA NobodyType == Nobody \in Bags
  BY DEF Nobody, Bags

\* A round asks at most Alpha nodes.
LEMMA PickedBound ==
    ASSUME NEW S \in SUBSET Contacts, NEW t \in NodeID
    PROVE  Picked(S, t) \subseteq S /\ Cardinality(Picked(S, t)) <= Alpha
<1> DEFINE P == Picked(S, t)
<1>1. P \in SUBSET Contacts /\ IsFiniteSet(P) /\ HaveIDs(P) /\ Distinct(P) /\ IsFiniteSet(S)
  <2>1. P \in SUBSET Contacts
    BY DEF Picked
  <2> QED
    BY <2>1, ContactFacts
<1>2. Cardinality(P) \in Nat
  BY <1>1, FS_CardinalityType
<1>3. SUFFICES ASSUME Cardinality(P) > Alpha PROVE FALSE
  BY <1>2, AlphaAssumption DEF Picked
<1>4. P # {}
  BY <1>1, <1>2, <1>3, FS_EmptySet, AlphaAssumption
<1>5. PICK f \in P : \A d \in P : d # f => CompareXorDistance(d.id, f.id, t)
  <2> HIDE DEF P
  <2> QED
    BY <1>1, <1>4, FarthestExists
<1>6. Cardinality(Closer(S, f, t)) < Alpha
  BY <1>5 DEF Picked
<1>7. P \ {f} \in SUBSET Closer(S, f, t)
  BY <1>5 DEF Picked, Closer
<1>8. IsFiniteSet(Closer(S, f, t))
  BY <1>1, FS_Subset DEF Closer
<1> HIDE DEF P
<1>9. /\ Cardinality(P \ {f}) <= Cardinality(Closer(S, f, t))
      /\ Cardinality(P \ {f}) = Cardinality(P) - 1
      /\ Cardinality(Closer(S, f, t)) \in Nat
  BY <1>1, <1>5, <1>7, <1>8, FS_Subset, FS_RemoveElement, FS_CardinalityType
<1> QED
  BY <1>2, <1>3, <1>6, <1>9, AlphaAssumption

-----------------------------------------------------------------------------
(* The inductive invariant.                                                *)

Ops == {"none", "join", "put", "refresh"}

Places == {"idle", "greeting", "round", "waiting", "finishing", "calling"}

\* The variables of a lookup.
Lists ==
    /\ op \in Ops /\ target \in NodeID /\ pc \in Places
    /\ shortlist \in Bags /\ all \in Bags
    /\ prevFurthest \in NodeID
    /\ waiting \subseteq Contacts /\ Cardinality(waiting) <= Alpha
    /\ raced \in BOOLEAN

\* Workers run only while somebody is listed.
Busy ==
    /\ worker \in [Contacts -> {"none", "asked", "served", "done"}]
    /\ reply \in [Contacts -> SUBSET Contacts]
    /\ \/ pc \in {"idle", "greeting", "calling"}
       \/ pc \in {"round", "waiting"} /\ shortlist = Nobody
       => \A c \in Contacts : worker[c] = "none"

\* Pings are only under way where calls are made, each to a node whose turn it is.
Pinging ==
    /\ tries \in Bags /\ ping \in [Contacts -> {"none", "served"}]
    /\ pc \notin {"greeting", "calling"} => tries = Nobody
    /\ pc = "greeting" => op = "join"
    /\ acked \subseteq served
    /\ \A c \in Contacts :
          ping[c] = "served" =>
              /\ c \in served /\ tries[c] > 0
              /\ op # "join" => \A d \in Contacts :
                                   tries[d] > 0 => ~CompareXorDistance(d.id, c.id, target)

Budgets == timeouts \in 0 .. MaxTimeouts /\ calls \in Nat /\ up \in BOOLEAN

Working == Acquainted /\ Lists /\ Busy /\ Pinging /\ Budgets

LEMMA WorkingInit == Init => Working
<1> SUFFICES ASSUME Init PROVE Working
  OBVIOUS
<1>1. Lists
  <2>1. ZeroID \in NodeID
    BY DEF ZeroID, NodeID
  <2>2. Cardinality({}) <= Alpha
    BY FS_EmptySet, AlphaAssumption
  <2> QED
    BY <2>1, <2>2, NobodyType DEF Init, Lists, Ops, Places
<1>2. Busy
  BY DEF Init, Busy
<1>3. Pinging
  BY NobodyType DEF Init, Pinging
<1>4. Budgets
  BY BoundsAssumption DEF Init, Budgets
<1> QED
  BY <1>1, <1>2, <1>3, <1>4, AcquaintedInit DEF Working

\* Deadlines can be missed as often as is left.
LEMMA BudgetsNext ==
    ASSUME Working, [Next]_vars
    PROVE  Budgets' /\ timeouts' <= timeouts
<1> USE DEF Budgets, Working
<1>0. timeouts \in Nat /\ timeouts <= MaxTimeouts
  BY BoundsAssumption
<1>1. CASE UNCHANGED <<timeouts, calls, up>>
  BY <1>0, <1>1
<1>2. ASSUME NEW S, Late(S) PROVE timeouts' \in 0 .. MaxTimeouts /\ timeouts' <= timeouts
  BY <1>0, <1>2, BoundsAssumption DEF Late
<1>3. ASSUME NEW call \in Calls, Begin(call[1], call[2])
      PROVE  Budgets' /\ timeouts' <= timeouts
  BY <1>0, <1>3 DEF Begin, world
<1>4. CASE Caller
  <2>1. CASE Greeted \/ Round \/ WaitDone \/ Finish \/ Done
    BY <1>1, <2>1 DEF Greeted, Round, WaitDone, Finish, Done, world
  <2>2. CASE WaitTimeout
    BY <1>2, <2>2 DEF WaitTimeout
  <2> QED
    BY <1>4, <2>1, <2>2 DEF Caller
<1>5. ASSUME NEW c \in Contacts, Worker(c)
      PROVE  Budgets' /\ timeouts' <= timeouts
  BY <1>1, <1>2, <1>5 DEF Worker, Serve, Receive, Timeout, world
<1>6. ASSUME NEW c \in Contacts, Races(c)
      PROVE  Budgets' /\ timeouts' <= timeouts
  BY <1>0, <1>6 DEF Races, RoundRaced, AppendsRace, world
<1>7. ASSUME NEW c \in Contacts, Call(c)
      PROVE  Budgets' /\ timeouts' <= timeouts
  <2>1. CASE PingServed(c) \/ Acknowledged(c)
    BY <1>1, <2>1 DEF PingServed, Acknowledged, world
  <2>2. CASE PutPanics(c)
    <3>1. timeouts' = timeouts /\ calls' = calls
      BY <2>2 DEF PutPanics, world
    <3>2. up' \in BOOLEAN
      BY <2>2 DEF PutPanics
    <3>3. timeouts' \in 0 .. MaxTimeouts /\ timeouts' <= timeouts /\ calls' \in Nat
      BY <1>0, <3>1
    <3> QED
      BY <3>2, <3>3
  <2>3. CASE NoReply(c)
    <3>1. Late({c}) /\ UNCHANGED <<up, calls>>
      BY <2>3 DEF NoReply
    <3> QED
      BY <1>2, <3>1
  <2> QED
    BY <1>7, <2>1, <2>2, <2>3 DEF Call
<1>8. ASSUME NEW c \in Contacts, Stray(c)
      PROVE  Budgets' /\ timeouts' <= timeouts
  BY <1>1, <1>8 DEF Stray
<1>9. CASE UNCHANGED vars
  BY <1>1, <1>9 DEF vars, world
<1> QED
  BY <1>3, <1>4, <1>5, <1>6, <1>7, <1>8, <1>9 DEF Next

\* Where Seed leaves the variables of a lookup.
LEMMA SeedType ==
    ASSUME Working, NEW t, Seed(t)
    PROVE  /\ shortlist' \in Bags /\ all' \in Bags
           /\ prevFurthest' \in NodeID /\ pc' = "round" /\ raced' \in BOOLEAN
<1>1. ZeroID \in NodeID
  BY DEF ZeroID, NodeID
<1> QED
  BY <1>1, NobodyType, AddingType DEF Seed

LEMMA ReturnType ==
    ASSUME Lists, Return
    PROVE  Lists'
<1>1. ZeroID \in NodeID
  BY DEF ZeroID, NodeID
<1> QED
  BY <1>1, NobodyType DEF Lists, Return, Ops, Places

LEMMA ListsNext ==
    ASSUME Working, [Next]_vars
    PROVE  Lists'
<1> USE DEF Working, lookup
<1>1. CASE UNCHANGED lookup
  BY <1>1 DEF Lists
<1>2. ASSUME NEW call \in Calls, Begin(call[1], call[2])
      PROVE  Lists'
  <2>1. call[1] \in Ops /\ call[2] \in NodeID
    BY CallsAssumption DEF Ops
  <2>2. op' \in Ops /\ target' \in NodeID /\ UNCHANGED waiting
    BY <1>2, <2>1 DEF Begin
  <2>3. CASE call[1] = "join" /\ pc' = "greeting" /\ UNCHANGED <<shortlist, prevFurthest, all, raced>>
    BY <2>2, <2>3 DEF Lists, Places
  <2>4. CASE Seed(call[2])
    BY <2>2, <2>4, SeedType DEF Lists, Places
  <2> QED
    BY <1>2, <2>3, <2>4 DEF Begin
<1>3. CASE Greeted
  BY <1>3, SeedType DEF Greeted, Lists, Places
<1>4. CASE Round
  <2> DEFINE listed == Listed(shortlist')
             d      == XorDistance(Farthest(listed, target).id, target)
             fresh  == {c \in listed : worker[c] = "none"}
  <2>1. shortlist' \in Bags
    BY <1>4, FirstType DEF Round, Lists
  <2>2. fresh \in SUBSET Contacts
    BY DEF Listed
  <2>3. Picked(fresh, target) \subseteq Contacts /\ Cardinality(Picked(fresh, target)) <= Alpha
    <3> HIDE DEF fresh
    <3> QED
      BY <2>2, PickedBound DEF Lists
  <2>4. d \in NodeID
    BY XorType
  <2>5. Ask(d, Picked(fresh, target)) \/ Conclude
    BY <1>4 DEF Round
  <2>6. UNCHANGED <<op, target, all, raced>>
    BY <1>4 DEF Round
  <2> HIDE DEF listed, d, fresh
  <2>7. CASE Ask(d, Picked(fresh, target))
    BY <2>1, <2>3, <2>4, <2>6, <2>7 DEF Lists, Ask, Places
  <2>8. CASE Conclude
    BY <2>1, <2>6, <2>8 DEF Lists, Conclude, Places
  <2> QED
    BY <2>5, <2>7, <2>8
<1>5. CASE WaitDone \/ WaitTimeout
  <2>1. Cardinality({}) <= Alpha
    BY FS_EmptySet, AlphaAssumption
  <2> QED
    BY <1>5, <2>1 DEF WaitDone, WaitTimeout, Lists, Places
<1>6. CASE Finish
  <2>1. shortlist' \in Bags
    BY <1>6, FirstType DEF Finish, Lists
  <2> QED
    BY <1>6, <2>1 DEF Finish, Lists, Places
<1>7. CASE Done
  BY <1>7, ReturnType DEF Done
<1>8. ASSUME NEW c \in Contacts, Worker(c)
      PROVE  Lists'
  <2>1. CASE Serve(c) \/ Timeout(c)
    BY <1>1, <2>1 DEF Serve, Timeout
  <2>2. CASE Receive(c)
    <3>1. shortlist' \in Bags /\ all' \in Bags
      BY <2>2, AddingType DEF Receive, Lists
    <3> QED
      BY <2>2, <3>1 DEF Receive, Lists
  <2> QED
    BY <1>8, <2>1, <2>2 DEF Worker
<1>9. ASSUME NEW c \in Contacts, RoundRaced(c)
      PROVE  Lists'
  <2>1. PICK b \in Parts(shortlist) \cup Parts(Adding(shortlist, reply[c])) :
            /\ shortlist' = b
            /\ \/ Conclude
               \/ /\ pc = "round"
                  /\ LET fresh == {d \in Listed(b) : worker[d] = "none"}
                     IN  \E last \in Listed(b), S \in SUBSET fresh :
                            /\ S # {}
                            /\ (Cardinality(S) = Alpha \/ (S = fresh /\ Cardinality(S) < Alpha))
                            /\ Ask(XorDistance(last.id, target), S)
    BY <1>9 DEF RoundRaced
  <2>2. shortlist' \in Bags
    BY <2>1, PartsType, AddingType DEF Lists
  <2>3. UNCHANGED <<op, target>> /\ raced' \in BOOLEAN /\ all' \in Bags
    BY <1>9, AddingType DEF RoundRaced, Lists
  <2>4. CASE Conclude
    BY <2>2, <2>3, <2>4 DEF Conclude, Lists, Places
  <2>5. CASE ~Conclude
    <3>1. PICK last \in Listed(b), S \in SUBSET Listed(b) :
              (Cardinality(S) = Alpha \/ Cardinality(S) < Alpha)
              /\ Ask(XorDistance(last.id, target), S)
      BY <2>1, <2>5
    <3>2. S \subseteq Contacts /\ Cardinality(S) <= Alpha
      <4>1. S \in SUBSET Contacts
        BY DEF Listed
      <4>2. Cardinality(S) \in Nat
        BY <4>1, ContactFacts, FS_CardinalityType
      <4> QED
        BY <3>1, <4>1, <4>2, AlphaAssumption
    <3>3. XorDistance(last.id, target) \in NodeID
      BY XorType
    <3> QED
      BY <2>2, <2>3, <3>1, <3>2, <3>3 DEF Ask, Lists, Places
  <2> QED
    BY <2>4, <2>5
<1>10. ASSUME NEW c \in Contacts, NEW d \in Contacts, AppendsRace(c, d)
       PROVE  Lists'
  <2>1. PICK left \in Leftovers(reply[c], reply[d]) :
            shortlist' = Adding(Adding(shortlist, left[1]), left[2])
    BY <1>10 DEF AppendsRace
  <2>2. shortlist' \in Bags
    BY <2>1, AddingType DEF Lists
  <2>3. all' \in Bags /\ raced' \in BOOLEAN
    BY <1>10, AddingType DEF AppendsRace, Lists
  <2> QED
    BY <1>10, <2>2, <2>3 DEF AppendsRace, Lists
<1>11. ASSUME NEW c \in Contacts, Call(c)
       PROVE  Lists'
  <2>1. CASE PingServed(c) \/ Acknowledged(c) \/ PutPanics(c)
    BY <1>1, <2>1 DEF PingServed, Acknowledged, PutPanics
  <2>2. CASE NoReply(c)
    BY <1>1, <2>2, ReturnType DEF NoReply
  <2> QED
    BY <1>11, <2>1, <2>2 DEF Call
<1>12. ASSUME NEW c \in Contacts, Stray(c)
       PROVE  Lists'
  BY <1>1, <1>12 DEF Stray
<1>13. CASE UNCHANGED vars
  BY <1>1, <1>13 DEF vars
<1> QED
  BY <1>2, <1>3, <1>4, <1>5, <1>6, <1>7, <1>8, <1>9, <1>10, <1>11, <1>12, <1>13
     DEF Next, Caller, Races

LEMMA BusyNext ==
    ASSUME Working, [Next]_vars
    PROVE  Busy'
<1> USE DEF Working
\* Only the table of a node that serves matters, and only its type.
<1>1. tables' \in [Contacts -> SUBSET Contacts]
  BY AcquaintedNext DEF Acquainted
<1>2. CASE UNCHANGED <<workers, pc, shortlist>>
  BY <1>2 DEF Busy, workers
<1>3. ASSUME NEW call \in Calls, Begin(call[1], call[2])
      PROVE  Busy'
  <2>1. \A c \in Contacts : worker'[c] = "none"
    BY <1>3 DEF Begin, Busy, workers
  <2> QED
    BY <1>3, <2>1 DEF Begin, Busy, workers
<1>4. CASE Greeted
  <2>1. \A c \in Contacts : worker'[c] = "none"
    BY <1>4 DEF Greeted, Busy, workers
  <2> QED
    BY <1>4, <2>1 DEF Greeted, Busy, workers
<1>5. CASE Round
  <2> DEFINE listed == Listed(shortlist')
             d      == XorDistance(Farthest(listed, target).id, target)
             fresh  == {c \in listed : worker[c] = "none"}
  <2>1. \/ fresh # {} /\ Ask(d, Picked(fresh, target))
        \/ Conclude
    BY <1>5 DEF Round
  <2>2. worker' \in [Contacts -> {"none", "asked", "served", "done"}] /\ UNCHANGED reply
    BY <1>5 DEF Round, Asking, Busy
  <2>3. fresh # {} => shortlist' # Nobody
    BY DEF Listed, Nobody
  <2>4. pc' \in {"waiting", "finishing"} /\ (pc' = "waiting" => shortlist' # Nobody)
    <3> HIDE DEF fresh, d
    <3> QED
      BY <2>1, <2>3 DEF Ask, Conclude
  <2> QED
    BY <2>2, <2>4 DEF Busy
<1>6. CASE WaitDone \/ WaitTimeout
  BY <1>6 DEF WaitDone, WaitTimeout, workers, Busy
<1>7. CASE Finish
  BY <1>7 DEF Finish, Busy
<1>8. CASE Done
  <2>1. \A c \in Contacts : worker'[c] = "none"
    BY <1>8 DEF Done, Busy, workers
  <2> QED
    BY <1>8, <2>1 DEF Done, Return, Busy, workers
<1>9. ASSUME NEW c \in Contacts, worker[c] # "none"
      PROVE  /\ pc \notin {"idle", "greeting", "calling"}
             /\ pc \in {"round", "waiting"} => shortlist # Nobody
  BY <1>9 DEF Busy
<1>10. ASSUME NEW c \in Contacts, Worker(c)
       PROVE  Busy'
  <2>1. worker[c] # "none" /\ UNCHANGED pc
    BY <1>10 DEF Worker, Serve, Receive, Timeout, lookup
  <2>2. pc' \in {"round", "waiting"} => shortlist' # Nobody
    <3>1. CASE Receive(c)
      BY <1>9, <2>1, <3>1, AddingType DEF Receive, Lists
    <3>2. CASE Serve(c) \/ Timeout(c)
      BY <1>9, <2>1, <3>2 DEF Serve, Timeout, lookup
    <3> QED
      BY <1>10, <3>1, <3>2 DEF Worker
  <2>3. reply' \in [Contacts -> SUBSET Contacts]
    <3>1. CASE Serve(c)
      <4>1. Nearest(tables'[c], target) \in SUBSET Contacts
        BY <1>1, NearestSubset
      <4> QED
        BY <3>1, <4>1 DEF Serve, Busy
    <3>2. CASE Receive(c) \/ Timeout(c)
      BY <3>2 DEF Receive, Timeout, Answered, Busy
    <3> QED
      BY <1>10, <3>1, <3>2 DEF Worker
  <2>4. worker' \in [Contacts -> {"none", "asked", "served", "done"}]
    BY <1>10 DEF Worker, Serve, Receive, Timeout, Answered, Busy
  <2> QED
    BY <1>9, <2>1, <2>2, <2>3, <2>4 DEF Busy
<1>11. ASSUME NEW c \in Contacts, RoundRaced(c)
       PROVE  Busy'
  <2>1. PICK b \in Parts(shortlist) \cup Parts(Adding(shortlist, reply[c])) :
            /\ shortlist' = b
            /\ \/ Conclude
               \/ \E last \in Listed(b) : \E S : Ask(XorDistance(last.id, target), S)
    BY <1>11 DEF RoundRaced
  <2>2. pc' \in {"waiting", "finishing"} /\ (pc' = "waiting" => shortlist' # Nobody)
    <3>1. CASE Conclude
      BY <3>1 DEF Conclude
    <3>2. CASE \E last \in Listed(b) : \E S : Ask(XorDistance(last.id, target), S)
      <4>1. pc' = "waiting"
        BY <3>2 DEF Ask
      <4>2. b # Nobody
        BY <3>2 DEF Listed, Nobody
      <4> QED
        BY <2>1, <4>1, <4>2
    <3> QED
      BY <2>1, <3>1, <3>2
  <2>3. worker' \in [Contacts -> {"none", "asked", "served", "done"}]
    <3>1. Asking \in [Contacts -> {"none", "asked", "served", "done"}]
      BY DEF Asking, Busy
    <3>2. worker' = [Asking EXCEPT ![c] = "done"]
      BY <1>11 DEF RoundRaced
    <3> QED
      BY <3>1, <3>2
  <2>4. reply' \in [Contacts -> SUBSET Contacts]
    BY <1>11 DEF RoundRaced, Busy
  <2> QED
    BY <2>2, <2>3, <2>4 DEF Busy
<1>12. ASSUME NEW c \in Contacts, NEW d \in Contacts, AppendsRace(c, d)
       PROVE  Busy'
  <2>1. worker[c] # "none" /\ UNCHANGED pc
    BY <1>12 DEF AppendsRace
  <2>2. shortlist # Nobody => shortlist' # Nobody
    <3>1. PICK left \in Leftovers(reply[c], reply[d]) :
              shortlist' = Adding(Adding(shortlist, left[1]), left[2])
      BY <1>12 DEF AppendsRace
    <3>2. shortlist \in Bags
      BY DEF Lists
    <3> QED
      BY <3>1, <3>2, AddingType
  <2>3. worker' \in [Contacts -> {"none", "asked", "served", "done"}]
    BY <1>12 DEF AppendsRace, Busy
  <2>4. reply' \in [Contacts -> SUBSET Contacts]
    BY <1>12 DEF AppendsRace, Busy
  <2> QED
    BY <1>9, <2>1, <2>2, <2>3, <2>4 DEF Busy
<1>13. ASSUME NEW c \in Contacts, Call(c)
       PROVE  Busy'
  <2>1. CASE PingServed(c) \/ Acknowledged(c) \/ PutPanics(c)
    BY <1>2, <2>1 DEF PingServed, Acknowledged, PutPanics, lookup
  <2>2. CASE NoReply(c)
    <3>1. CASE UNCHANGED lookup
      BY <1>2, <2>2, <3>1 DEF NoReply, lookup
    <3>2. CASE Return
      <4>1. tries[c] > 0 /\ tries \in Bags
        BY <2>2 DEF NoReply, Turn, Pinging
      <4>2. pc \in {"greeting", "calling"}
        BY <4>1 DEF Pinging, Nobody
      <4>3. \A d \in Contacts : worker'[d] = "none"
        BY <2>2, <4>2 DEF NoReply, Busy, workers
      <4> QED
        BY <2>2, <4>3 DEF NoReply, Busy, workers
    <3> QED
      BY <2>2, <3>1, <3>2 DEF NoReply
  <2> QED
    BY <1>13, <2>1, <2>2 DEF Call
<1>14. ASSUME NEW c \in Contacts, Stray(c)
       PROVE  Busy'
  BY <1>2, <1>14 DEF Stray, lookup
<1>15. CASE UNCHANGED vars
  BY <1>2, <1>15 DEF vars, lookup
<1> QED
  BY <1>3, <1>4, <1>5, <1>6, <1>7, <1>8, <1>10, <1>11, <1>12, <1>13, <1>14, <1>15
     DEF Next, Caller, Races

LEMMA PingingNext ==
    ASSUME Working, [Next]_vars
    PROVE  Pinging'
<1> USE DEF Working
<1>1. CASE UNCHANGED <<pings, op, target, pc>> /\ served \subseteq served'
  BY <1>1 DEF Pinging, pings
\* Nobody is pinged where nobody is to be called.
<1>2. ASSUME NEW c \in Contacts, tries = Nobody
      PROVE  ping[c] # "served"
  BY <1>2 DEF Pinging, Nobody
<1>3. ASSUME UNCHANGED <<ping, acked, served>>, tries = Nobody, tries' \in Bags,
             pc' \notin {"greeting", "calling"} => tries' = Nobody,
             pc' = "greeting" => op' = "join"
      PROVE  Pinging'
  BY <1>2, <1>3 DEF Pinging
<1>4. ASSUME NEW call \in Calls, Begin(call[1], call[2])
      PROVE  Pinging'
  <2>1. tries = Nobody
    BY <1>4 DEF Begin, Pinging
  <2>2. tries' \in Bags
    <3>1. CASE tries' = [tries EXCEPT ![Bootstrap] = PingTries]
      BY <3>1, AlphaAssumption DEF Pinging, Bags
    <3> QED
      BY <1>4, <3>1 DEF Begin, Pinging
  <2>3. UNCHANGED <<ping, acked, served>> /\ op' = call[1]
    BY <1>4 DEF Begin, world
  <2>4. CASE call[1] = "join" /\ pc' = "greeting"
    BY <1>3, <2>1, <2>2, <2>3, <2>4
  <2>5. CASE Seed(call[2]) /\ UNCHANGED tries
    BY <1>3, <2>1, <2>2, <2>3, <2>5 DEF Seed
  <2> QED
    BY <1>4, <2>4, <2>5 DEF Begin
<1>5. CASE Greeted \/ Round \/ WaitDone \/ WaitTimeout
  <2>1. tries = Nobody
    BY <1>5 DEF Greeted, Round, WaitDone, WaitTimeout, Pinging
  <2>2. pc' # "greeting" /\ UNCHANGED <<tries, ping, acked, served>>
    BY <1>5 DEF Greeted, Seed, Round, Ask, Conclude, WaitDone, WaitTimeout, pings, world
  <2> QED
    BY <1>3, <2>1, <2>2, NobodyType
<1>6. CASE Finish
  <2>1. tries = Nobody
    BY <1>6 DEF Finish, Pinging
  <2>2. shortlist' \in Bags
    BY <1>6, FirstType DEF Finish, Lists
  <2>3. tries' \in Bags
    <3>1. \A c \in Contacts : shortlist'[c] \in Nat /\ PingTries * shortlist'[c] \in Nat
      BY <2>2, AlphaAssumption DEF Bags
    <3> QED
      BY <1>6, <3>1 DEF Finish, Bags
  <2> QED
    BY <1>3, <1>6, <2>1, <2>3 DEF Finish
<1>7. CASE Done
  <2>1. tries = Nobody
    BY <1>7 DEF Done, Pinging
  <2> QED
    BY <1>3, <1>7, <2>1, NobodyType DEF Done, Return, world
<1>8. ASSUME NEW c \in Contacts, Worker(c)
      PROVE  Pinging'
  BY <1>1, <1>8 DEF Worker, Serve, Serves, Receive, Timeout, world, lookup
<1>9. ASSUME NEW c \in Contacts, Races(c)
      PROVE  Pinging'
  <2>1. CASE RoundRaced(c)
    <3>1. tries = Nobody
      BY <2>1 DEF RoundRaced, Pinging
    <3>2. pc' # "greeting" /\ UNCHANGED <<tries, ping, acked, served>>
      BY <2>1 DEF RoundRaced, Ask, Conclude, pings, world
    <3> QED
      BY <1>3, <3>1, <3>2, NobodyType
  <2>2. ASSUME NEW d \in Contacts, AppendsRace(c, d)
        PROVE  Pinging'
    BY <1>1, <2>2 DEF AppendsRace, world
  <2> QED
    BY <1>9, <2>1, <2>2 DEF Races
<1>10. ASSUME NEW c \in Contacts, PingServed(c)
       PROVE  Pinging'
  <2>1. \A d \in Contacts : ping'[d] = IF d = c THEN "served" ELSE ping[d]
    BY <1>10 DEF PingServed, Pinging
  <2>2. ping' \in [Contacts -> {"none", "served"}]
    BY <1>10 DEF PingServed, Pinging
  <2>3. served' = served \cup {c} /\ UNCHANGED <<op, target, pc, tries, acked>> /\ Turn(c)
    BY <1>10 DEF PingServed, Serves, lookup
  <2>4. tries[c] > 0 /\ (op # "join" => \A d \in Contacts :
                            tries[d] > 0 => ~CompareXorDistance(d.id, c.id, target))
    BY <2>3 DEF Turn
  <2> QED
    BY <2>1, <2>2, <2>3, <2>4 DEF Pinging
<1>11. ASSUME NEW c \in Contacts, Acknowledged(c)
       PROVE  Pinging'
  <2>1. c \in served /\ tries[c] \in Nat /\ tries[c] > 0
    BY <1>11 DEF Acknowledged, Pinging, Bags
  <2>2. UNCHANGED <<op, target, pc, served>> /\ acked' = acked \cup {c} /\ ping[c] = "served"
    BY <1>11 DEF Acknowledged, lookup, world
  <2> DEFINE left == IF pc = "greeting" THEN 0 ELSE tries[c] - 1
  <2>3. left \in Nat /\ tries' = [tries EXCEPT ![c] = left] /\ ping' = [ping EXCEPT ![c] = "none"]
    BY <1>11, <2>1 DEF Acknowledged
  <2> HIDE DEF left
  <2>4. tries' \in Bags /\ ping' \in [Contacts -> {"none", "served"}]
    BY <2>3 DEF Pinging, Bags
  <2>5. \A d \in Contacts : /\ ping'[d] = "served" => d # c /\ ping[d] = "served"
                            /\ d # c => tries'[d] = tries[d]
                            /\ tries'[d] > 0 => tries[d] > 0
    BY <2>1, <2>3 DEF Pinging, Bags
  <2>6. pc \in {"greeting", "calling"}
    BY <2>1 DEF Pinging, Nobody
  <2>7. acked' \subseteq served'
    BY <2>1, <2>2 DEF Pinging
  <2>8. pc' = "greeting" => op' = "join"
    BY <2>2 DEF Pinging
  <2>9. ASSUME NEW d \in Contacts, ping'[d] = "served"
        PROVE  /\ d \in served' /\ tries'[d] > 0
               /\ op' # "join" => \A e \in Contacts :
                                     tries'[e] > 0 => ~CompareXorDistance(e.id, d.id, target')
    BY <2>2, <2>5, <2>9 DEF Pinging
  <2> QED
    BY <2>2, <2>4, <2>6, <2>7, <2>8, <2>9 DEF Pinging
<1>12. ASSUME NEW c \in Contacts, PutPanics(c)
       PROVE  Pinging'
  BY <1>1, <1>12 DEF PutPanics, lookup, world
<1>13. ASSUME NEW c \in Contacts, NoReply(c)
       PROVE  Pinging'
  <2>1. Turn(c) /\ tries[c] \in Nat /\ tries[c] > 0 /\ UNCHANGED <<served, acked>>
    BY <1>13 DEF NoReply, Turn, Pinging, Bags
  <2>2. ping' = [ping EXCEPT ![c] = "none"]
    BY <1>13 DEF NoReply
  <2>3. ping' \in [Contacts -> {"none", "served"}]
    BY <2>2 DEF Pinging
  <2>4. \A d \in Contacts : ping'[d] = "served" => d # c /\ ping[d] = "served"
    BY <2>2 DEF Pinging
  <2>5. CASE op = "put" /\ Return
    \* No other ping can be under way: its turn and this one's are the same.
    <3>1. ASSUME NEW d \in Contacts PROVE ping'[d] # "served"
      <4>1. SUFFICES ASSUME d # c, ping[d] = "served" PROVE FALSE
        BY <2>4
      <4>2. tries[d] > 0 /\ ~CompareXorDistance(c.id, d.id, target)
        BY <2>1, <2>5, <4>1 DEF Pinging
      <4>3. ~CompareXorDistance(d.id, c.id, target)
        BY <2>1, <2>5, <4>2 DEF Turn
      <4>4. c.id \in NodeID /\ d.id \in NodeID /\ target \in NodeID
        BY ContactFacts DEF Lists
      <4>5. c.id = d.id
        BY <4>2, <4>3, <4>4, CloserIsStrictOrder
      <4> QED
        BY <4>1, <4>5, OthersAssumption
    <3>2. tries' = Nobody /\ pc' = "idle"
      BY <2>5 DEF Return
    <3> QED
      BY <2>1, <2>3, <3>1, <3>2, NobodyType DEF Pinging
  <2>6. CASE op # "put" /\ tries' = [tries EXCEPT ![c] = @ - 1] /\ UNCHANGED lookup
    <3> DEFINE left == tries[c] - 1
    <3>1. left \in Nat /\ tries' = [tries EXCEPT ![c] = left]
      BY <2>1, <2>6
    <3> HIDE DEF left
    <3>2. tries' \in Bags
      BY <3>1 DEF Pinging, Bags
    <3>3. \A d \in Contacts : /\ d # c => tries'[d] = tries[d]
                              /\ tries'[d] > 0 => tries[d] > 0
      BY <2>1, <3>1 DEF Pinging, Bags
    <3>4. pc \in {"greeting", "calling"}
      BY <2>1 DEF Pinging, Nobody
    <3>5. UNCHANGED <<op, target, pc>>
      BY <2>6 DEF lookup
    <3>6. ASSUME NEW d \in Contacts, ping'[d] = "served"
          PROVE  /\ d \in served' /\ tries'[d] > 0
                 /\ op' # "join" => \A e \in Contacts :
                                       tries'[e] > 0 => ~CompareXorDistance(e.id, d.id, target')
      BY <2>1, <2>4, <3>3, <3>5, <3>6 DEF Pinging
    <3>7. (pc' = "greeting" => op' = "join") /\ acked' \subseteq served'
      BY <2>1, <3>5 DEF Pinging
    <3> QED
      BY <2>3, <3>2, <3>4, <3>5, <3>6, <3>7 DEF Pinging
  <2> QED
    BY <1>13, <2>5, <2>6 DEF NoReply
<1>14. ASSUME NEW c \in Contacts, Stray(c)
       PROVE  Pinging'
  BY <1>1, <1>14 DEF Stray, Serves, lookup
<1>15. CASE UNCHANGED vars
  BY <1>1, <1>15 DEF vars, lookup, world
<1> QED
  BY <1>4, <1>5, <1>6, <1>7, <1>8, <1>9, <1>10, <1>11, <1>12, <1>13, <1>14, <1>15
     DEF Next, Caller, Call

LEMMA WorkingNext ==
    ASSUME Working, [Next]_vars
    PROVE  Working'
<1>1. Acquainted' /\ Lists'
  BY AcquaintedNext, ListsNext DEF Working
<1>2. Busy' /\ Pinging' /\ Budgets'
  BY BusyNext, PingingNext, BudgetsNext
<1> QED
  BY <1>1, <1>2 DEF Working

\* Types, the bound on the nodes a round asks and the shape of the tables.
THEOREM LookupTypeOK == Spec => []TypeOK
<1>1. Working => TypeOK
  <2>1. SUFFICES ASSUME Working PROVE TypeOK
    OBVIOUS
  <2>2. acked \subseteq Alive /\ served \subseteq Alive /\ strays \subseteq Alive
    BY <2>1 DEF Working, Acquainted, Pinging
  <2>3. timeouts \in Nat
    BY <2>1, BoundsAssumption DEF Working, Budgets
  <2>4. /\ tables \in [Contacts -> SUBSET Contacts]
        /\ \A n \in Contacts : /\ n \notin tables[n]
                               /\ \A c \in Contacts : Cardinality(Class(tables[n], n, c)) <= K
    BY <2>1 DEF Working, Acquainted, Table
  <2> QED
    BY <2>1, <2>2, <2>3, <2>4 DEF Working, Lists, Busy, Pinging, Budgets, TypeOK, Bags, Ops, Places
<1> QED
  BY <1>1, WorkingInit, WorkingNext, PTL DEF Spec

-----------------------------------------------------------------------------
(* Join.                                                                   *)

\* The tries left for c and the deadlines missed so far make up all the tries.
Enough(c) == tries[c] + (MaxTimeouts - timeouts) >= PingTries

\* A try is only spent on a node that is alive when a deadline is: before the tries
\* are used up, the node has acknowledged one.
Joining ==
    (op = "join" /\ MaxTimeouts < PingTries) =>
        /\ Bootstrap \in Alive =>
              Bootstrap \in acked \/ (pc = "greeting" /\ Enough(Bootstrap))
        /\ pc = "calling" =>
              \A c \in (Listed(shortlist) \cap Alive) \ {Local} : c \in acked \/ Enough(c)

\* When nothing is left to try, nothing is enough any more.
LEMMA NobodyIsNotEnough ==
    ASSUME Working, MaxTimeouts < PingTries, tries = Nobody, NEW c \in Contacts
    PROVE  ~Enough(c)
<1>1. tries[c] = 0
  BY DEF Nobody
<1>2. timeouts \in Nat /\ timeouts <= MaxTimeouts
  BY BoundsAssumption DEF Working, Budgets
<1> QED
  BY <1>1, <1>2, AlphaAssumption, BoundsAssumption DEF Enough

LEMMA JoiningNext ==
    ASSUME Working, Joining, [Next]_vars
    PROVE  Joining'
<1>1. /\ timeouts \in Nat /\ timeouts' \in Nat /\ timeouts' <= timeouts /\ timeouts <= MaxTimeouts
      /\ PingTries \in Nat /\ MaxTimeouts \in Nat /\ Bootstrap \in Contacts
  BY BudgetsNext, BoundsAssumption, AlphaAssumption, OthersAssumption
     DEF Working, Budgets, Contacts
<1>2. tries \in Bags /\ tries' \in Bags /\ shortlist \in Bags /\ shortlist' \in Bags
  BY WorkingNext DEF Working, Pinging, Lists
<1>3. ASSUME NEW c \in Contacts, Enough(c), tries'[c] = tries[c]
      PROVE  Enough(c)'
  <2>1. tries[c] \in Nat
    BY <1>2 DEF Bags
  <2> QED
    BY <1>1, <1>3, <2>1 DEF Enough
<1>4. CASE UNCHANGED <<op, pc, shortlist, tries, acked>>
  <2>1. \A c \in Contacts : Enough(c) => Enough(c)'
    BY <1>3, <1>4
  <2>2. Listed(shortlist) \subseteq Contacts
    BY DEF Listed
  <2> QED
    BY <1>1, <1>4, <2>1, <2>2 DEF Joining, Listed
\* Between the greeting and the calls it is enough that the bootstrap node answered.
<1>5. ASSUME op' = op, pc' \notin {"greeting", "calling"}, pc # "greeting", acked' = acked
      PROVE  Joining'
  BY <1>5 DEF Joining
<1>6. ASSUME NEW call \in Calls, Begin(call[1], call[2])
      PROVE  Joining'
  <2>1. op' = call[1] /\ timeouts' = timeouts
    BY <1>6 DEF Begin, world
  <2>2. CASE call[1] # "join"
    BY <2>1, <2>2 DEF Joining
  <2>3. CASE call[1] = "join"
    <3>1. pc' = "greeting" /\ tries' = [tries EXCEPT ![Bootstrap] = PingTries]
      BY <1>6, <2>3 DEF Begin
    <3>2. tries'[Bootstrap] = PingTries
      BY <1>1, <1>2, <3>1 DEF Bags
    <3>3. Enough(Bootstrap)'
      BY <1>1, <2>1, <3>2 DEF Enough
    <3> QED
      BY <3>1, <3>3 DEF Joining
  <2> QED
    BY <2>2, <2>3
<1>7. CASE Greeted
  <2>1. tries = Nobody /\ pc' = "round" /\ op' = op /\ acked' = acked
    BY <1>7 DEF Greeted, Seed, pings
  <2>2. MaxTimeouts < PingTries => ~Enough(Bootstrap)
    BY <1>1, <2>1, NobodyIsNotEnough
  <2> QED
    BY <2>1, <2>2 DEF Joining
<1>8. CASE Round \/ WaitDone \/ WaitTimeout
  <2>1. op' = op /\ pc' \notin {"greeting", "calling"} /\ pc # "greeting" /\ acked' = acked
    BY <1>8 DEF Round, Ask, Conclude, WaitDone, WaitTimeout, pings
  <2> QED
    BY <1>5, <2>1
<1>9. CASE Finish
  <2>1. op' = op /\ pc = "finishing" /\ pc' = "calling" /\ acked' = acked
    BY <1>9 DEF Finish
  <2>2. SUFFICES ASSUME op = "join", MaxTimeouts < PingTries
                 PROVE  /\ Bootstrap \in Alive => Bootstrap \in acked
                        /\ \A c \in (Listed(shortlist') \cap Alive) \ {Local} :
                              c \in acked \/ Enough(c)'
    BY <2>1 DEF Joining, Listed
  <2>3. Bootstrap \in Alive => Bootstrap \in acked
    BY <2>1, <2>2 DEF Joining
  <2>4. ASSUME NEW c \in (Listed(shortlist') \cap Alive) \ {Local}, c # Bootstrap
        PROVE  Enough(c)'
    <3>1. shortlist'[c] \in Nat /\ shortlist'[c] > 0 /\ c \in Contacts
      BY <1>2, <2>4 DEF Listed, Bags
    <3>2. tries'[c] = PingTries * shortlist'[c]
      BY <1>9, <2>2, <2>4, <3>1 DEF Finish
    <3> DEFINE n == shortlist'[c]
    <3>3. PingTries * n >= PingTries /\ PingTries * n \in Nat
      <4> HIDE DEF n
      <4>1. n \in Nat /\ n >= 1
        BY <3>1 DEF n
      <4> QED
        BY <1>1, <4>1, Z3
    <3> QED
      BY <1>1, <3>2, <3>3 DEF Enough
  <2> QED
    BY <2>3, <2>4
<1>10. CASE Done
  BY <1>10 DEF Done, Return, Joining
\* Workers are only about between the greeting and the calls.
<1>11. ASSUME NEW c \in Contacts, worker[c] # "none"
       PROVE  pc \notin {"greeting", "calling"}
  BY <1>11 DEF Working, Busy
<1>12. ASSUME NEW c \in Contacts, Worker(c)
       PROVE  Joining'
  <2>1. worker[c] # "none" /\ op' = op /\ pc' = pc /\ acked' = acked
    BY <1>12 DEF Worker, Serve, Receive, Timeout, lookup, pings
  <2> QED
    BY <1>5, <1>11, <2>1
<1>13. ASSUME NEW c \in Contacts, Races(c)
       PROVE  Joining'
  <2>1. CASE RoundRaced(c)
    <3>1. op' = op /\ pc' \notin {"greeting", "calling"} /\ pc # "greeting" /\ acked' = acked
      BY <2>1 DEF RoundRaced, Ask, Conclude, pings
    <3> QED
      BY <1>5, <3>1
  <2>2. ASSUME NEW d \in Contacts, AppendsRace(c, d)
        PROVE  Joining'
    <3>1. worker[c] # "none" /\ op' = op /\ pc' = pc /\ acked' = acked
      BY <2>2 DEF AppendsRace, pings
    <3> QED
      BY <1>5, <1>11, <3>1
  <2> QED
    BY <1>13, <2>1, <2>2 DEF Races
<1>14. ASSUME NEW c \in Contacts, Acknowledged(c)
       PROVE  Joining'
  <2>1. acked' = acked \cup {c} /\ UNCHANGED <<op, pc, shortlist>>
    BY <1>14 DEF Acknowledged, lookup
  <2>2. \A d \in Contacts : d # c => tries'[d] = tries[d]
    BY <1>2, <1>14 DEF Acknowledged, Bags
  <2>3. \A d \in Contacts : d \in acked \/ Enough(d) => d \in acked' \/ Enough(d)'
    BY <1>3, <2>1, <2>2
  <2>4. Listed(shortlist) \subseteq Contacts
    BY DEF Listed
  <2>5. Bootstrap \in Alive /\ op = "join" /\ MaxTimeouts < PingTries =>
            Bootstrap \in acked' \/ (pc = "greeting" /\ Enough(Bootstrap)')
    BY <1>1, <2>1, <2>3 DEF Joining
  <2> QED
    BY <2>1, <2>3, <2>4, <2>5 DEF Joining, Listed
<1>15. ASSUME NEW c \in Contacts, NoReply(c)
       PROVE  Joining'
  <2>1. CASE Return
    BY <2>1 DEF Return, Joining
  <2>2. CASE op # "put" /\ tries' = [tries EXCEPT ![c] = @ - 1] /\ UNCHANGED lookup
    <3>1. Late({c}) /\ acked' = acked /\ tries[c] \in Nat /\ tries[c] > 0
      BY <1>2, <1>15 DEF NoReply, Turn, Bags
    <3>2. tries'[c] = tries[c] - 1 /\ \A d \in Contacts : d # c => tries'[d] = tries[d]
      BY <1>2, <2>2 DEF Bags
    <3>3. c \in Alive => timeouts' = timeouts - 1
      BY <3>1 DEF Late, Alive
    <3>4. c \in Alive /\ Enough(c) => Enough(c)'
      BY <1>1, <3>1, <3>2, <3>3 DEF Enough
    <3>5. \A d \in Alive : Enough(d) => Enough(d)'
      BY <1>3, <3>2, <3>4 DEF Alive
    <3>6. UNCHANGED <<op, pc, shortlist>>
      BY <2>2 DEF lookup
    <3> QED
      BY <3>1, <3>5, <3>6 DEF Joining, Listed
  <2> QED
    BY <1>15, <2>1, <2>2 DEF NoReply
<1>16. ASSUME NEW c \in Contacts, PingServed(c) \/ PutPanics(c) \/ Stray(c)
       PROVE  Joining'
  BY <1>4, <1>16 DEF PingServed, PutPanics, Stray, lookup, pings
<1>17. CASE UNCHANGED vars
  BY <1>4, <1>17 DEF vars, lookup, pings
<1> QED
  BY <1>6, <1>7, <1>8, <1>9, <1>10, <1>12, <1>13, <1>14, <1>15, <1>16, <1>17
     DEF Next, Caller, Call

\* Join makes this node and those it found know each other, whatever is lost, as long
\* as fewer deadlines are missed than a node is pinged.
THEOREM JoinIntegratesSafe == Spec => []JoinIntegrates
<1>1. Init => Joining
  BY DEF Init, Joining
<1>2. Working /\ Joining => JoinIntegrates
  <2>1. SUFFICES ASSUME Working, Joining, op = "join", MaxTimeouts < PingTries
                 PROVE  /\ pc # "greeting" => \A c \in {Bootstrap} \cap Alive : Mutual(c)
                        /\ pc = "calling" /\ tries = Nobody =>
                              \A c \in (Listed(shortlist) \cap Alive) \ {Local} : Mutual(c)
    BY DEF JoinIntegrates
  <2>2. ASSUME NEW c \in acked, c # Local PROVE Mutual(c)
    BY <2>1, <2>2 DEF Working, Acquainted, Pinging, Mutual, Knows, Covers
  <2>3. Bootstrap # Local
    BY OthersAssumption
  <2>4. pc # "greeting" => \A c \in {Bootstrap} \cap Alive : Mutual(c)
    BY <2>1, <2>2, <2>3 DEF Joining
  <2>5. ASSUME pc = "calling", tries = Nobody,
               NEW c \in (Listed(shortlist) \cap Alive) \ {Local}
        PROVE  Mutual(c)
    <3>1. c \in Contacts
      BY DEF Listed
    <3>2. ~Enough(c)
      BY <2>1, <2>5, <3>1, NobodyIsNotEnough
    <3> QED
      BY <2>1, <2>2, <2>5, <3>2 DEF Joining
  <2> QED
    BY <2>4, <2>5
<1> QED
  BY <1>1, <1>2, WorkingInit, WorkingNext, JoiningNext, PTL DEF Spec

-----------------------------------------------------------------------------
(* The result is the head of all that was heard: the entries of a bag are   *)
(* in a strict total order, and those that fewer than K are ahead of are at *)
(* most K, and K of any K or more that come before all others.              *)

\* What an entry of a bag is.
LEMMA EntriesAre ==
    ASSUME NEW b \in Bags
    PROVE  /\ \A e \in Entries(b) : /\ e[1] \in Contacts /\ e[2] \in Nat /\ e = <<e[1], e[2]>>
                                    /\ 1 <= e[2] /\ e[2] <= b[e[1]]
           /\ \A c \in Contacts, k \in Nat :
                 1 <= k /\ k <= b[c] => <<c, k>> \in Entries(b)
<1>1. \A c \in Contacts : b[c] \in Nat
  BY DEF Bags
<1> QED
  BY <1>1 DEF Entries

\* Sorting the entries puts one of two different ones first.
LEMMA BeforeIsStrictOrder ==
    ASSUME NEW b \in Bags, NEW t \in NodeID
    PROVE  /\ \A e \in Entries(b) : ~Before(e, e, t)
           /\ \A e, f, g \in Entries(b) : Before(e, f, t) /\ Before(f, g, t) => Before(e, g, t)
           /\ \A e, f \in Entries(b) : e # f => Before(e, f, t) \/ Before(f, e, t)
<1>1. \A e \in Entries(b) : /\ e[1] \in Contacts /\ e[1].id \in NodeID
                            /\ e[2] \in Nat /\ e = <<e[1], e[2]>>
  BY EntriesAre, ContactFacts
<1>2. \A c, d \in Contacts : c.id = d.id => c = d
  BY OthersAssumption
<1>3. ASSUME NEW e \in Entries(b) PROVE ~Before(e, e, t)
  BY <1>1 DEF Before
<1>4. ASSUME NEW e \in Entries(b), NEW f \in Entries(b), NEW g \in Entries(b),
             Before(e, f, t), Before(f, g, t)
      PROVE  Before(e, g, t)
  <2>1. CASE e[1] = f[1] \/ f[1] = g[1]
    BY <1>1, <1>4, <2>1 DEF Before
  <2>2. CASE e[1] # f[1] /\ f[1] # g[1]
    <3>1. CompareXorDistance(e[1].id, f[1].id, t) /\ CompareXorDistance(f[1].id, g[1].id, t)
      BY <1>4, <2>2 DEF Before
    <3>2. CompareXorDistance(e[1].id, g[1].id, t)
      BY <1>1, <3>1, CloserIsStrictOrder
    <3>3. e[1] # g[1]
      BY <1>1, <3>2, CloserIsStrictOrder
    <3> QED
      BY <3>2, <3>3 DEF Before
  <2> QED
    BY <2>1, <2>2
<1>5. ASSUME NEW e \in Entries(b), NEW f \in Entries(b), e # f
      PROVE  Before(e, f, t) \/ Before(f, e, t)
  <2>1. CASE e[1] = f[1]
    BY <1>1, <1>5, <2>1 DEF Before
  <2>2. CASE e[1] # f[1]
    <3>1. e[1].id # f[1].id /\ e[1].id \in NodeID /\ f[1].id \in NodeID
      BY <1>1, <1>2, <2>2
    <3> QED
      BY <2>2, <3>1, CloserIsStrictOrder DEF Before
  <2> QED
    BY <2>1, <2>2
<1> QED
  BY <1>3, <1>4, <1>5

\* The entries ahead of one, and those that First keeps.
AheadOf(b, f, t) == {e \in Entries(b) : Before(e, f, t)}

Kept(b, t) == {f \in Entries(b) : Ahead(b, f, t) < K}

\* Fewer are ahead of an entry that comes before another.
LEMMA AheadGrows ==
    ASSUME NEW b \in Bags, NEW t \in NodeID, NEW e \in Entries(b), NEW f \in Entries(b),
           Before(e, f, t)
    PROVE  /\ AheadOf(b, e, t) \subseteq AheadOf(b, f, t)
           /\ e \in AheadOf(b, f, t) /\ e \notin AheadOf(b, e, t)
           /\ Ahead(b, e, t) \in Nat /\ Ahead(b, f, t) \in Nat
           /\ Ahead(b, e, t) < Ahead(b, f, t)
<1> DEFINE A == AheadOf(b, e, t)
           B == AheadOf(b, f, t)
<1>1. A \subseteq B /\ e \in B /\ e \notin A
  BY BeforeIsStrictOrder DEF AheadOf
<1>2. IsFiniteSet(B) /\ IsFiniteSet(A)
  BY EntriesFinite, FS_Subset DEF AheadOf
<1>3. Ahead(b, e, t) = Cardinality(A) /\ Ahead(b, f, t) = Cardinality(B)
  BY DEF Ahead, AheadOf
<1> HIDE DEF A, B
<1>4. A \in SUBSET (B \ {e}) /\ IsFiniteSet(B \ {e})
  BY <1>1, <1>2, FS_Subset
<1>5. /\ Cardinality(A) <= Cardinality(B \ {e})
      /\ Cardinality(B \ {e}) = Cardinality(B) - 1
      /\ Cardinality(A) \in Nat /\ Cardinality(B) \in Nat
  BY <1>1, <1>2, <1>4, FS_Subset, FS_RemoveElement, FS_CardinalityType
<1>6. Ahead(b, e, t) < Ahead(b, f, t) /\ Ahead(b, e, t) \in Nat /\ Ahead(b, f, t) \in Nat
  BY <1>3, <1>5
<1> QED
  BY <1>1, <1>6 DEF A, B

\* Cutting keeps at most K entries.
LEMMA KeptBound ==
    ASSUME NEW b \in Bags, NEW t \in NodeID
    PROVE  IsFiniteSet(Kept(b, t)) /\ Cardinality(Kept(b, t)) <= K
<1> DEFINE H == Kept(b, t)
           rank == [f \in H |-> Ahead(b, f, t)]
<1>1. H \in SUBSET Entries(b) /\ IsFiniteSet(H)
  BY EntriesFinite, FS_Subset DEF Kept
<1>2. \A f \in H : Ahead(b, f, t) \in 0 .. (K - 1)
  <2>1. \A f \in H : Ahead(b, f, t) \in Nat
    <3>1. \A f : IsFiniteSet(AheadOf(b, f, t))
      BY EntriesFinite, FS_Subset DEF AheadOf
    <3> QED
      BY <3>1, FS_CardinalityType DEF Ahead, AheadOf
  <2>2. \A f \in H : Ahead(b, f, t) < K
    BY DEF Kept
  <2> QED
    BY <2>1, <2>2, KAssumption
<1>3. \A e, f \in H : e # f => Ahead(b, e, t) # Ahead(b, f, t)
  <2>1. ASSUME NEW e \in H, NEW f \in H, e # f PROVE Ahead(b, e, t) # Ahead(b, f, t)
    <3>1. e \in Entries(b) /\ f \in Entries(b)
      BY <1>1
    <3>2. CASE Before(e, f, t)
      BY <3>1, <3>2, AheadGrows
    <3>3. CASE Before(f, e, t)
      BY <3>1, <3>3, AheadGrows
    <3> QED
      BY <2>1, <3>1, <3>2, <3>3, BeforeIsStrictOrder
  <2> QED
    BY <2>1
<1> HIDE DEF H
<1>4. rank \in Injection(H, 0 .. (K - 1))
  BY <1>2, <1>3 DEF Injection, IsInjective
<1>5. IsFiniteSet(0 .. (K - 1)) /\ Cardinality(0 .. (K - 1)) = K
  BY KAssumption, FS_Interval
<1> HIDE DEF rank
<1>6. Cardinality(H) <= K
  BY <1>4, <1>5, FS_Injection
<1> QED
  BY <1>1, <1>6 DEF H

\* Cutting keeps K of any K or more entries that come before all others.
LEMMA KeptFirst ==
    ASSUME NEW b \in Bags, NEW t \in NodeID, NEW N \in SUBSET Entries(b),
           \A e \in Entries(b), f \in N : Before(e, f, t) => e \in N,
           Cardinality(N) >= K
    PROVE  Cardinality(N \cap Kept(b, t)) >= K
<1> DEFINE H == Kept(b, t)
<1>1. IsFiniteSet(Entries(b)) /\ IsFiniteSet(N \cap H)
  BY EntriesFinite, FS_Subset
<1>2. CASE N \subseteq H
  <2>1. N \cap H = N
    BY <1>2
  <2> QED
    BY <2>1
<1>3. CASE ~(N \subseteq H)
  <2> DEFINE R == StrictSubsetOrdering(Entries(b))
             F == {AheadOf(b, f, t) : f \in N \ H}
  <2>1. IsWellFoundedOn(R, SUBSET Entries(b))
    BY <1>1, FS_FiniteSubsetsOfFinite, FS_StrictSubsetOrderingWellFounded
  <2>2. F # {} /\ F \subseteq SUBSET Entries(b)
    BY <1>3 DEF AheadOf
  <2>3. PICK x \in F : \A y \in F : <<y, x>> \notin R
    <3> HIDE DEF F, R
    <3> QED
      BY <2>1, <2>2, WFMin
  <2>4. PICK f \in N \ H : x = AheadOf(b, f, t)
    BY <2>3
  <2>5. ASSUME NEW e \in AheadOf(b, f, t) PROVE e \in N \cap H
    <3>1. e \in Entries(b) /\ f \in Entries(b) /\ Before(e, f, t)
      BY <2>5 DEF AheadOf
    <3>2. e \in N
      BY <3>1
    <3>3. SUFFICES ASSUME e \notin H PROVE FALSE
      BY <3>2
    <3>4. AheadOf(b, e, t) \in F
      BY <3>2, <3>3
    <3>5. AheadOf(b, e, t) \subseteq x /\ AheadOf(b, e, t) # x
      BY <2>4, <3>1, AheadGrows
    <3>6. AheadOf(b, e, t) \subseteq Entries(b) /\ x \subseteq Entries(b)
      BY <2>4 DEF AheadOf
    <3> HIDE DEF F
    <3> QED
      BY <2>3, <3>4, <3>5, <3>6 DEF StrictSubsetOrdering
  <2>6. AheadOf(b, f, t) \in SUBSET (N \cap H)
    BY <2>5
  <2>7. /\ Cardinality(AheadOf(b, f, t)) <= Cardinality(N \cap H)
        /\ Cardinality(AheadOf(b, f, t)) \in Nat /\ Cardinality(N \cap H) \in Nat
    <3> HIDE DEF H
    <3>1. IsFiniteSet(AheadOf(b, f, t))
      BY <1>1, <2>6, FS_Subset
    <3> QED
      BY <1>1, <2>6, <3>1, FS_Subset, FS_CardinalityType
  <2>8. ~(Cardinality(AheadOf(b, f, t)) < K)
    BY DEF Kept, Ahead, AheadOf
  <2> QED
    BY <2>7, <2>8, KAssumption
<1> QED
  BY <1>2, <1>3

\* As many of a contact are counted as there are pairs of it, and the first copies of
\* a contact are kept before the others: counting what is kept and listing the entries
\* of that bag gives the same entries.
LEMMA EntriesOfFirst ==
    ASSUME NEW b \in Bags, NEW t \in NodeID
    PROVE  Entries(First(b, t)) = Kept(b, t)
<1> DEFINE H == Kept(b, t)
           Of(c) == {e \in H : e[1] = c}
           m == First(b, t)
<1>1. H \in SUBSET Entries(b)
  BY DEF Kept
<1>2. ASSUME NEW c \in Contacts PROVE m[c] = Cardinality(Of(c)) /\ m[c] \in Nat
  <2>1. m[c] = Cardinality(Of(c))
    BY DEF First, Counted, Kept
  <2>2. m[c] \in Nat
    BY FirstType DEF Bags
  <2> QED
    BY <2>1, <2>2
<1>3. ASSUME NEW c \in Contacts, NEW k \in Nat, <<c, k>> \in H, NEW j \in 1 .. k
      PROVE  <<c, j>> \in H
  <2>1. 1 <= k /\ k <= b[c] /\ b[c] \in Nat
    BY <1>1, <1>3, EntriesAre DEF Bags
  <2>2. <<c, j>> \in Entries(b) /\ <<c, k>> \in Entries(b)
    BY <1>1, <1>3, <2>1, EntriesAre
  <2>3. CASE j = k
    BY <1>3, <2>3
  <2>4. CASE j # k
    <3>1. Before(<<c, j>>, <<c, k>>, t)
      BY <2>4 DEF Before
    <3>2. /\ Ahead(b, <<c, j>>, t) < Ahead(b, <<c, k>>, t)
          /\ Ahead(b, <<c, j>>, t) \in Nat /\ Ahead(b, <<c, k>>, t) \in Nat
      BY <2>2, <3>1, AheadGrows
    <3>3. Ahead(b, <<c, k>>, t) < K
      BY <1>3 DEF Kept
    <3>4. Ahead(b, <<c, j>>, t) < K
      BY <3>2, <3>3, KAssumption
    <3> QED
      BY <2>2, <3>4 DEF Kept
  <2> QED
    BY <2>3, <2>4
<1> HIDE DEF H, m
<1>4. ASSUME NEW c \in Contacts, NEW k \in Nat, k >= 1
      PROVE  <<c, k>> \in H <=> k <= m[c]
  <2>1. IsFiniteSet(Of(c))
    BY <1>1, EntriesFinite, FS_Subset
  <2>2. ASSUME NEW n \in Nat
        PROVE  IsFiniteSet({c} \X (1 .. n)) /\ Cardinality({c} \X (1 .. n)) = n
    <3>1. IsFiniteSet(1 .. n) /\ Cardinality(1 .. n) = n
      BY FS_Interval
    <3>2. IsFiniteSet({c}) /\ Cardinality({c}) = 1
      BY FS_Singleton
    <3> QED
      BY <3>1, <3>2, FS_Product
  <2>3. CASE <<c, k>> \in H
    <3>1. {c} \X (1 .. k) \in SUBSET Of(c)
      BY <1>3, <2>3
    <3>2. Cardinality({c} \X (1 .. k)) = k
      BY <2>2
    <3> HIDE DEF Of
    <3>3. Cardinality({c} \X (1 .. k)) <= Cardinality(Of(c))
      BY <2>1, <3>1, FS_Subset
    <3>4. k <= m[c]
      BY <1>2, <3>2, <3>3
    <3> QED
      BY <2>3, <3>4
  <2>4. CASE <<c, k>> \notin H
    <3>1. k - 1 \in Nat
      BY <1>4
    <3>2. Of(c) \in SUBSET ({c} \X (1 .. (k - 1)))
      <4>1. SUFFICES ASSUME NEW e \in Of(c) PROVE e \in {c} \X (1 .. (k - 1))
        OBVIOUS
      <4>2. e = <<c, e[2]>> /\ e[2] \in Nat /\ e[2] >= 1
        BY <1>1, EntriesAre
      <4>3. ~(k <= e[2])
        <5>1. SUFFICES ASSUME k <= e[2] PROVE FALSE
          OBVIOUS
        <5>2. k \in 1 .. e[2] /\ <<c, e[2]>> \in H
          BY <1>4, <4>2, <5>1
        <5> QED
          BY <1>3, <2>4, <4>2, <5>2
      <4> QED
        BY <4>2, <4>3
    <3>3. /\ Cardinality({c} \X (1 .. (k - 1))) = k - 1
          /\ IsFiniteSet({c} \X (1 .. (k - 1)))
      BY <2>2, <3>1
    <3> HIDE DEF Of
    <3>4. Cardinality(Of(c)) <= Cardinality({c} \X (1 .. (k - 1)))
      BY <3>2, <3>3, FS_Subset
    <3>5. ~(k <= m[c])
      BY <1>2, <3>3, <3>4
    <3> QED
      BY <2>4, <3>5
  <2> QED
    BY <2>3, <2>4
<1>5. m \in Bags
  BY FirstType DEF m
<1>6. ASSUME NEW e \in H PROVE e \in Entries(m)
  <2>1. e[1] \in Contacts /\ e[2] \in Nat /\ e[2] >= 1 /\ e = <<e[1], e[2]>>
    BY <1>1, EntriesAre
  <2>2. e[2] <= m[e[1]]
    BY <1>4, <2>1
  <2> QED
    BY <1>5, <2>1, <2>2, EntriesAre
<1>7. ASSUME NEW e \in Entries(m) PROVE e \in H
  <2>1. e[1] \in Contacts /\ e[2] \in Nat /\ e[2] >= 1 /\ e = <<e[1], e[2]>> /\ e[2] <= m[e[1]]
    BY <1>5, EntriesAre
  <2> QED
    BY <1>4, <2>1
<1> QED
  BY <1>6, <1>7 DEF H, m

\* The entries of a bag that are not farther than c.
NotFarther(b, c, t) == {e \in Entries(b) : ~CompareXorDistance(c.id, e[1].id, t)}

\* Up to order, s is what is left of a by cutting any number of times to K or more:
\* whatever is missing has K in front of it, or in its place.
Heads(s, a, t) ==
    \A c \in Contacts :
        /\ s[c] <= a[c]
        /\ s[c] < a[c] => Cardinality(NotFarther(s, c, t)) >= K

\* A bag with as many or more of everything has as many or more entries.
LEMMA EntriesGrow ==
    ASSUME NEW s \in Bags, NEW a \in Bags, \A c \in Contacts : s[c] <= a[c], NEW t
    PROVE  /\ Entries(s) \subseteq Entries(a)
           /\ \A c : NotFarther(s, c, t) \subseteq NotFarther(a, c, t)
<1>1. ASSUME NEW e \in Entries(s) PROVE e \in Entries(a)
  <2>1. e[1] \in Contacts /\ e[2] \in Nat /\ e = <<e[1], e[2]>> /\ 1 <= e[2] /\ e[2] <= s[e[1]]
    BY EntriesAre
  <2>2. e[2] <= a[e[1]]
    BY <2>1 DEF Bags
  <2> QED
    BY <2>1, <2>2, EntriesAre
<1> QED
  BY <1>1 DEF NotFarther

\* They are among the entries, so there are no more of them than the size.
LEMMA EntriesCount ==
    ASSUME NEW s \in Bags, NEW t, NEW c
    PROVE  /\ IsFiniteSet(NotFarther(s, c, t)) /\ Cardinality(NotFarther(s, c, t)) \in Nat
           /\ Size(s) \in Nat /\ Cardinality(NotFarther(s, c, t)) <= Size(s)
<1>1. IsFiniteSet(Entries(s)) /\ NotFarther(s, c, t) \in SUBSET Entries(s)
  BY EntriesFinite DEF NotFarther
<1> QED
  BY <1>1, FS_Subset, FS_CardinalityType DEF Size

\* The same reply is appended to both.
LEMMA HeadsAdding ==
    ASSUME NEW s \in Bags, NEW a \in Bags, NEW t, NEW S, Heads(s, a, t)
    PROVE  Heads(Adding(s, S), Adding(a, S), t)
<1>1. Adding(s, S) \in Bags
  BY AddingType
<1>2. \A c \in Contacts : /\ s[c] \in Nat /\ a[c] \in Nat
                          /\ Adding(s, S)[c] = IF c \in S THEN s[c] + 1 ELSE s[c]
                          /\ Adding(a, S)[c] = IF c \in S THEN a[c] + 1 ELSE a[c]
  BY DEF Bags, Adding
<1> SUFFICES ASSUME NEW c \in Contacts
             PROVE  /\ Adding(s, S)[c] <= Adding(a, S)[c]
                    /\ Adding(s, S)[c] < Adding(a, S)[c] =>
                          Cardinality(NotFarther(Adding(s, S), c, t)) >= K
  BY DEF Heads
<1>3. Adding(s, S)[c] <= Adding(a, S)[c]
  BY <1>2 DEF Heads
<1>4. ASSUME Adding(s, S)[c] < Adding(a, S)[c]
      PROVE  Cardinality(NotFarther(Adding(s, S), c, t)) >= K
  <2>1. s[c] < a[c]
    BY <1>2, <1>4
  <2>2. Cardinality(NotFarther(s, c, t)) >= K
    BY <2>1 DEF Heads
  <2>3. \A d \in Contacts : s[d] <= Adding(s, S)[d]
    BY <1>2
  <2>4. NotFarther(s, c, t) \in SUBSET NotFarther(Adding(s, S), c, t)
    BY <1>1, <2>3, EntriesGrow
  <2>5. /\ IsFiniteSet(NotFarther(Adding(s, S), c, t))
        /\ Cardinality(NotFarther(Adding(s, S), c, t)) \in Nat
        /\ Cardinality(NotFarther(s, c, t)) \in Nat
    BY <1>1, EntriesCount
  <2>6. Cardinality(NotFarther(s, c, t)) <= Cardinality(NotFarther(Adding(s, S), c, t))
    BY <2>4, <2>5, FS_Subset
  <2> QED
    BY <2>2, <2>5, <2>6, KAssumption
<1> QED
  BY <1>3, <1>4

\* The shortlist is cut.
LEMMA HeadsFirst ==
    ASSUME NEW s \in Bags, NEW a \in Bags, NEW t \in NodeID, Heads(s, a, t)
    PROVE  Heads(First(s, t), a, t) /\ Size(First(s, t)) <= K
<1> DEFINE f == First(s, t)
<1>1. f \in Bags /\ Entries(f) = Kept(s, t) /\ Size(f) <= K
  BY FirstType, EntriesOfFirst, KeptBound DEF Size
<1>2. ASSUME NEW c \in Contacts
      PROVE  /\ f[c] <= s[c] /\ f[c] \in Nat /\ s[c] \in Nat /\ a[c] \in Nat
             /\ f[c] < s[c] => <<c, s[c]>> \in Entries(s) /\ <<c, s[c]>> \notin Kept(s, t)
  <2>1. f[c] \in Nat /\ s[c] \in Nat /\ a[c] \in Nat
    BY <1>1 DEF Bags
  <2>2. f[c] <= s[c]
    <3>1. SUFFICES ASSUME f[c] > s[c] PROVE FALSE
      BY <2>1
    <3>2. <<c, f[c]>> \in Entries(f)
      BY <1>1, <2>1, <3>1, EntriesAre
    <3>3. <<c, f[c]>> \in Entries(s)
      BY <1>1, <3>2 DEF Kept
    <3>4. f[c] <= s[c]
      BY <3>3, EntriesAre
    <3> QED
      BY <2>1, <3>1, <3>4
  <2>3. ASSUME f[c] < s[c]
        PROVE  <<c, s[c]>> \in Entries(s) /\ <<c, s[c]>> \notin Kept(s, t)
    <3>1. <<c, s[c]>> \in Entries(s)
      BY <2>1, <2>3, EntriesAre
    <3>2. ASSUME <<c, s[c]>> \in Entries(f) PROVE FALSE
      <4>1. s[c] <= f[c]
        BY <1>1, <3>2, EntriesAre
      <4> QED
        BY <2>1, <2>3, <4>1
    <3> QED
      BY <1>1, <3>1, <3>2
  <2> QED
    BY <2>1, <2>2, <2>3
<1> HIDE DEF f
<1>3. ASSUME NEW c \in Contacts, f[c] < a[c]
      PROVE  Cardinality(NotFarther(f, c, t)) >= K
  <2> DEFINE N == NotFarther(s, c, t)
  <2>1. N \in SUBSET Entries(s)
    BY DEF NotFarther
  <2>2. Cardinality(N) \in Nat /\ IsFiniteSet(N)
    BY EntriesCount
  <2>3. Cardinality(N) >= K
    <3>1. CASE s[c] < a[c]
      BY <3>1 DEF Heads
    <3>2. CASE ~(s[c] < a[c])
      <4> DEFINE g == <<c, s[c]>>
      <4>1. g \in Entries(s) /\ g \notin Kept(s, t)
        BY <1>2, <1>3, <3>2
      <4>2. ~(Cardinality(AheadOf(s, g, t)) < K)
        BY <4>1 DEF Kept, Ahead, AheadOf
      <4>3. ASSUME NEW e \in AheadOf(s, g, t) PROVE e \in N
        <5>1. e \in Entries(s) /\ e[1].id \in NodeID /\ c.id \in NodeID
          BY EntriesAre, ContactFacts DEF AheadOf
        <5>2. e[1] = c \/ CompareXorDistance(e[1].id, c.id, t)
          BY <4>3 DEF AheadOf, Before
        <5>3. ~CompareXorDistance(c.id, e[1].id, t)
          BY <5>1, <5>2, CloserIsStrictOrder
        <5> QED
          BY <5>1, <5>3 DEF NotFarther
      <4>4. AheadOf(s, g, t) \in SUBSET N
        BY <4>3
      <4> HIDE DEF N
      <4>5. IsFiniteSet(AheadOf(s, g, t)) /\ Cardinality(AheadOf(s, g, t)) <= Cardinality(N)
        BY <2>2, <4>4, FS_Subset
      <4>6. Cardinality(AheadOf(s, g, t)) \in Nat
        BY <4>5, FS_CardinalityType
      <4> QED
        BY <2>2, <4>2, <4>5, <4>6, KAssumption
    <3> QED
      BY <3>1, <3>2
  <2>4. ASSUME NEW e \in Entries(s), NEW g \in N, Before(e, g, t) PROVE e \in N
    <3>1. /\ g \in Entries(s) /\ ~CompareXorDistance(c.id, g[1].id, t)
          /\ e[1].id \in NodeID /\ g[1].id \in NodeID /\ c.id \in NodeID
      BY EntriesAre, ContactFacts DEF NotFarther
    <3>2. e[1] = g[1] \/ CompareXorDistance(e[1].id, g[1].id, t)
      BY <2>4 DEF Before
    <3>3. ~CompareXorDistance(c.id, e[1].id, t)
      BY <3>1, <3>2, CloserIsStrictOrder
    <3> QED
      BY <3>3 DEF NotFarther
  <2>5. N \cap Kept(s, t) = NotFarther(f, c, t)
    <3>1. Kept(s, t) \subseteq Entries(s)
      BY DEF Kept
    <3> QED
      BY <1>1, <3>1 DEF NotFarther
  <2> HIDE DEF N
  <2>6. Cardinality(N \cap Kept(s, t)) >= K
    BY <2>1, <2>3, <2>4, KeptFirst
  <2> QED
    BY <2>5, <2>6
<1>4. ASSUME NEW c \in Contacts PROVE f[c] <= a[c]
  <2>1. s[c] <= a[c]
    BY DEF Heads
  <2>2. f[c] <= s[c] /\ f[c] \in Nat /\ s[c] \in Nat /\ a[c] \in Nat
    BY <1>2
  <2> QED
    BY <2>1, <2>2
<1>5. Heads(f, a, t)
  BY <1>3, <1>4 DEF Heads
<1> QED
  BY <1>1, <1>5 DEF f

\* Until a late reply races the sorting or another reply, the shortlist heads the seeds
\* and replies; it is cut when the lookup is over.
Headed ==
    ~raced =>
        /\ pc \in {"round", "waiting", "finishing", "calling"} => Heads(shortlist, all, target)
        /\ pc = "calling" => Size(shortlist) <= K

\* Everything but the lists stays.
LEMMA HeadedQuiet ==
    ASSUME Headed, UNCHANGED lookup
    PROVE  Headed'
BY DEF Headed, lookup

\* A lookup begins with nothing missing.
LEMMA HeadedSeed ==
    ASSUME NEW t, Seed(t)
    PROVE  Headed'
<1>1. all' = shortlist' /\ all' \in Bags /\ pc' = "round"
  BY NobodyType, AddingType DEF Seed
<1>2. \A c \in Contacts : all'[c] \in Nat
  BY <1>1 DEF Bags
<1>3. Heads(shortlist', all', target')
  BY <1>1, <1>2 DEF Heads
<1> QED
  BY <1>1, <1>3 DEF Headed

\* It returns.
LEMMA HeadedReturn == ASSUME Return PROVE Headed'
BY DEF Return, Headed

\* A reply that arrives while the shortlist is not being sorted is appended.
LEMMA HeadedAppend ==
    ASSUME Working, Headed, NEW S,
           shortlist' = Adding(shortlist, S), all' = Adding(all, S),
           UNCHANGED <<pc, target, raced>>, pc # "calling"
    PROVE  Headed'
<1>1. shortlist \in Bags /\ all \in Bags
  BY DEF Working, Lists
<1>2. SUFFICES ASSUME Heads(shortlist, all, target)
               PROVE  Heads(shortlist', all', target')
  BY DEF Headed
<1> QED
  BY <1>1, <1>2, HeadsAdding

\* Every step keeps the shortlist ahead of all that was heard.
LEMMA HeadedNext ==
    ASSUME Working, Headed, [Next]_vars
    PROVE  Headed'
<1>1. shortlist \in Bags /\ all \in Bags /\ target \in NodeID
  BY DEF Working, Lists
<1>2. \A c \in Contacts : worker[c] # "none" => pc # "calling"
  BY DEF Working, Busy
<1>3. ASSUME NEW call \in Calls, Begin(call[1], call[2])
      PROVE  Headed'
  <2>1. CASE Seed(call[2])
    BY <2>1, HeadedSeed
  <2>2. CASE pc' = "greeting"
    BY <2>2 DEF Headed
  <2> QED
    BY <1>3, <2>1, <2>2 DEF Begin
<1>4. CASE Greeted
  BY <1>4, HeadedSeed DEF Greeted
<1>5. CASE Round
  <2>1. /\ shortlist' = First(shortlist, target) /\ UNCHANGED <<all, target, raced>>
        /\ pc = "round" /\ pc' # "calling"
    BY <1>5 DEF Round, Ask, Conclude
  <2>2. Heads(shortlist, all, target) => Heads(shortlist', all, target)
    BY <1>1, <2>1, HeadsFirst
  <2> QED
    BY <2>1, <2>2 DEF Headed
<1>6. CASE WaitDone \/ WaitTimeout
  <2>1. UNCHANGED <<shortlist, all, target, raced>> /\ pc = "waiting" /\ pc' = "round"
    BY <1>6 DEF WaitDone, WaitTimeout
  <2> QED
    BY <2>1 DEF Headed
<1>7. CASE Finish
  <2>1. /\ shortlist' = First(shortlist, target) /\ UNCHANGED <<all, target, raced>>
        /\ pc = "finishing" /\ pc' = "calling"
    BY <1>7 DEF Finish
  <2>2. Heads(shortlist, all, target) => Heads(shortlist', all, target) /\ Size(shortlist') <= K
    BY <1>1, <2>1, HeadsFirst
  <2> QED
    BY <2>1, <2>2 DEF Headed
<1>8. CASE Done
  BY <1>8, HeadedReturn DEF Done
<1>9. ASSUME NEW c \in Contacts, Worker(c)
      PROVE  Headed'
  <2>1. CASE Serve(c) \/ Timeout(c)
    BY <2>1, HeadedQuiet DEF Serve, Timeout
  <2>2. CASE Receive(c)
    <3>1. /\ shortlist' = Adding(shortlist, reply[c]) /\ all' = Adding(all, reply[c])
          /\ UNCHANGED <<pc, target, raced>> /\ pc # "calling"
      BY <1>2, <2>2 DEF Receive
    <3> QED
      BY <3>1, HeadedAppend
  <2> QED
    BY <1>9, <2>1, <2>2 DEF Worker
<1>10. ASSUME NEW c \in Contacts, RoundRaced(c)
       PROVE  Headed'
  BY <1>10 DEF RoundRaced, Headed
<1>11. ASSUME NEW c \in Contacts, NEW d \in Contacts, AppendsRace(c, d)
       PROVE  Headed'
  BY <1>11 DEF AppendsRace, Headed
<1>12. ASSUME NEW c \in Contacts, Call(c)
       PROVE  Headed'
  <2>1. CASE PingServed(c) \/ Acknowledged(c) \/ PutPanics(c)
    BY <2>1, HeadedQuiet DEF PingServed, Acknowledged, PutPanics
  <2>2. CASE NoReply(c)
    BY <2>2, HeadedQuiet, HeadedReturn DEF NoReply
  <2> QED
    BY <1>12, <2>1, <2>2 DEF Call
<1>13. ASSUME NEW c \in Contacts, Stray(c)
       PROVE  Headed'
  BY <1>13, HeadedQuiet DEF Stray
<1>14. CASE UNCHANGED vars
  BY <1>14, HeadedQuiet DEF vars
<1> QED
  BY <1>3, <1>4, <1>5, <1>6, <1>7, <1>8, <1>9, <1>10, <1>11, <1>12, <1>13, <1>14
     DEF Next, Caller, Races

\* A list of at most K that heads what was heard is its K nearest entries.
LEMMA HeadIsResult ==
    ASSUME NEW s \in Bags, NEW a \in Bags, NEW t \in NodeID, Heads(s, a, t), Size(s) <= K
    PROVE  /\ Size(s) = IF Size(a) < K THEN Size(a) ELSE K
           /\ \A c \in Contacts : s[c] < a[c] =>
                 \A d \in Listed(s) : ~CompareXorDistance(c.id, d.id, t)
<1>1. \A c \in Contacts : s[c] \in Nat /\ a[c] \in Nat /\ s[c] <= a[c]
  BY DEF Bags, Heads
<1>2. Size(s) \in Nat /\ Size(a) \in Nat /\ IsFiniteSet(Entries(s)) /\ IsFiniteSet(Entries(a))
  BY EntriesFinite, FS_CardinalityType DEF Size
<1>3. Size(s) <= Size(a)
  <2>1. Entries(s) \in SUBSET Entries(a)
    BY <1>1, EntriesGrow
  <2> QED
    BY <1>2, <2>1, FS_Subset DEF Size
<1>4. ASSUME NEW c \in Contacts, s[c] < a[c]
      PROVE  Size(s) = K /\ \A d \in Listed(s) : ~CompareXorDistance(c.id, d.id, t)
  <2> DEFINE N == NotFarther(s, c, t)
  <2>1. Cardinality(N) >= K /\ Cardinality(N) \in Nat /\ Cardinality(N) <= Size(s)
    BY <1>4, EntriesCount DEF Heads
  <2>2. N \in SUBSET Entries(s)
    BY DEF NotFarther
  <2> HIDE DEF N
  <2>3. Size(s) = K /\ Cardinality(N) = Cardinality(Entries(s))
    BY <1>2, <2>1, KAssumption DEF Size
  <2>4. N = Entries(s)
    BY <1>2, <2>2, <2>3, FS_Subset
  <2>5. ASSUME NEW d \in Listed(s) PROVE ~CompareXorDistance(c.id, d.id, t)
    <3>1. d \in Contacts /\ s[d] > 0
      BY DEF Listed
    <3>2. <<d, 1>> \in Entries(s)
      BY <1>1, <3>1, EntriesAre
    <3> QED
      BY <2>4, <3>2 DEF N, NotFarther
  <2> QED
    BY <2>3, <2>5
<1>5. Size(s) = IF Size(a) < K THEN Size(a) ELSE K
  <2>1. CASE \E c \in Contacts : s[c] < a[c]
    BY <1>2, <1>3, <1>4, <2>1, KAssumption
  <2>2. CASE ~\E c \in Contacts : s[c] < a[c]
    <3>1. \A c \in Contacts : s[c] = a[c]
      BY <1>1, <2>2
    <3>2. s = a
      BY <3>1 DEF Bags
    <3> QED
      BY <1>2, <3>2, KAssumption
  <2> QED
    BY <2>1, <2>2
<1> QED
  BY <1>4, <1>5

-----------------------------------------------------------------------------
(* Late replies.                                                           *)

\* A worker that has not ended.
Running == {"asked", "served"}

\* A worker that lives on after its round asked a node that is alive and missed a
\* deadline, and nothing else can race.
Overdue ==
    /\ pc # "waiting" => waiting = {}
    /\ \A c \in Contacts : worker[c] = "served" => c \in Alive
    /\ \A c \in Alive :
          worker[c] \in Running /\ c \notin waiting => timeouts < MaxTimeouts
    /\ raced => timeouts < MaxTimeouts

LEMMA OverdueInit == Init => Overdue
<1> SUFFICES ASSUME Init PROVE Overdue
  OBVIOUS
<1>1. \A c \in Contacts : worker[c] = "none"
  BY DEF Init
<1>2. \A c \in Alive : worker[c] = "none"
  BY <1>1 DEF Alive
<1> QED
  BY <1>1, <1>2 DEF Init, Overdue, Running

\* The workers that go on are late already.
LEMMA OverdueWorkers ==
    ASSUME Working, Overdue, timeouts' <= timeouts, timeouts' \in Nat,
           waiting' = waiting, pc' = pc, raced' => raced \/ timeouts < MaxTimeouts,
           \A c \in Contacts : worker'[c] \in Running => worker[c] \in Running,
           \A c \in Contacts : worker'[c] = "served" => c \in Alive
    PROVE  Overdue'
<1>1. timeouts \in Nat /\ MaxTimeouts \in Nat
  BY BoundsAssumption DEF Working, Budgets
<1>2. timeouts < MaxTimeouts => timeouts' < MaxTimeouts
  BY <1>1
<1>3. ASSUME NEW c \in Alive, worker'[c] \in Running, c \notin waiting'
      PROVE  timeouts' < MaxTimeouts
  <2>1. c \in Contacts
    BY DEF Alive
  <2>2. worker[c] \in Running /\ c \notin waiting
    BY <1>3, <2>1
  <2> QED
    BY <1>2, <2>2 DEF Overdue
<1>4. raced' => timeouts' < MaxTimeouts
  BY <1>2 DEF Overdue
<1>5. pc' # "waiting" => waiting' = {}
  BY DEF Overdue
<1> QED
  BY <1>3, <1>4, <1>5 DEF Overdue

\* Where nobody waits and no worker runs, nothing is late.
LEMMA OverdueNobody ==
    ASSUME Working, Overdue, timeouts' <= timeouts, timeouts' \in Nat,
           waiting' = {}, raced' => raced,
           \A c \in Contacts : worker'[c] \notin Running
    PROVE  Overdue'
<1>1. timeouts \in Nat /\ MaxTimeouts \in Nat
  BY BoundsAssumption DEF Working, Budgets
<1>2. timeouts < MaxTimeouts => timeouts' < MaxTimeouts
  BY <1>1
<1>3. \A c \in Alive : worker'[c] \notin Running
  BY DEF Alive
<1>4. raced' => timeouts' < MaxTimeouts
  BY <1>2 DEF Overdue
<1>5. \A c \in Contacts : worker'[c] # "served"
  BY DEF Running
<1> QED
  BY <1>3, <1>4, <1>5 DEF Overdue

\* A round may ask others; the workers there were are late already.
LEMMA OverdueRound ==
    ASSUME Working, Overdue, pc \in {"round", "finishing"}, timeouts' = timeouts,
           raced' => raced \/ timeouts < MaxTimeouts,
           pc' # "waiting" => waiting' = {},
           \A c \in Contacts : worker'[c] \in {worker[c], "done"} \/ (c \in waiting' /\ worker'[c] = "asked")
    PROVE  Overdue'
<1>1. waiting = {}
  BY DEF Overdue
<1>2. ASSUME NEW c \in Contacts, worker'[c] = "served" PROVE c \in Alive
  BY <1>2 DEF Overdue
<1>3. ASSUME NEW c \in Alive, worker'[c] \in Running, c \notin waiting'
      PROVE  timeouts' < MaxTimeouts
  <2>1. c \in Contacts
    BY DEF Alive
  <2>2. worker'[c] = worker[c]
    BY <1>3, <2>1 DEF Running
  <2>3. worker[c] \in Running /\ c \notin waiting
    BY <1>1, <1>3, <2>2
  <2>4. timeouts < MaxTimeouts
    BY <2>3 DEF Overdue
  <2> QED
    BY <2>4
<1> QED
  BY <1>2, <1>3 DEF Overdue

LEMMA OverdueNext ==
    ASSUME Working, Overdue, [Next]_vars
    PROVE  Overdue'
<1>1. timeouts' \in Nat /\ timeouts' <= timeouts /\ timeouts \in Nat /\ timeouts <= MaxTimeouts
  BY BudgetsNext, BoundsAssumption DEF Working, Budgets
<1>2. CASE UNCHANGED <<lookup, workers>>
  <2>1. UNCHANGED <<waiting, pc, raced, worker>>
    BY <1>2 DEF lookup, workers
  <2>2. \A c \in Contacts : worker'[c] = "served" => c \in Alive
    BY <2>1 DEF Overdue
  <2> QED
    BY <1>1, <2>1, <2>2, OverdueWorkers
<1>3. ASSUME pc \in {"idle", "greeting", "calling"} \/ (pc = "round" /\ shortlist = Nobody)
      PROVE  waiting = {} /\ \A c \in Contacts : worker[c] = "none"
  BY <1>3 DEF Working, Busy, Overdue
<1>4. ASSUME NEW call \in Calls, Begin(call[1], call[2])
      PROVE  Overdue'
  <2>1. UNCHANGED <<waiting, worker>> /\ (raced' => raced)
    BY <1>4 DEF Begin, Seed, workers
  <2>2. pc = "idle"
    BY <1>4 DEF Begin
  <2>3. \A c \in Contacts : worker'[c] \notin Running
    BY <1>3, <2>1, <2>2 DEF Running
  <2> QED
    BY <1>1, <1>3, <2>1, <2>2, <2>3, OverdueNobody
<1>5. CASE Greeted \/ Done
  <2>1. UNCHANGED <<waiting, worker>> /\ (raced' => raced)
    BY <1>5 DEF Greeted, Seed, Done, Return, workers
  <2>2. pc \in {"greeting", "calling"} \/ (pc = "round" /\ shortlist = Nobody)
    BY <1>5 DEF Greeted, Done
  <2>3. \A c \in Contacts : worker'[c] \notin Running
    BY <1>3, <2>1, <2>2 DEF Running
  <2> QED
    BY <1>1, <1>3, <2>1, <2>2, <2>3, OverdueNobody
<1>6. CASE Round
  <2>1. UNCHANGED <<raced, timeouts>> /\ worker' = Asking /\ pc = "round"
    BY <1>6 DEF Round, world
  <2>2. pc' # "waiting" => waiting' = {}
    BY <1>6, <2>1 DEF Round, Ask, Conclude, Overdue
  <2>3. \A c \in Contacts :
            worker'[c] \in {worker[c], "done"} \/ (c \in waiting' /\ worker'[c] = "asked")
    BY <2>1 DEF Asking
  <2> QED
    BY <2>1, <2>2, <2>3, OverdueRound
<1>7. CASE WaitDone
  <2>1. UNCHANGED <<worker, raced, timeouts>> /\ waiting' = {}
    BY <1>7 DEF WaitDone, workers, world
  <2>2. \A c \in waiting : worker[c] \notin Running
    BY <1>7 DEF WaitDone, Pending, Running
  <2>3. \A c \in Contacts : worker'[c] = "served" => c \in Alive
    BY <2>1 DEF Overdue
  <2>4. ASSUME NEW c \in Alive, worker'[c] \in Running PROVE timeouts' < MaxTimeouts
    BY <2>1, <2>2, <2>4 DEF Overdue
  <2>5. raced' => timeouts' < MaxTimeouts
    BY <2>1 DEF Overdue
  <2> QED
    BY <2>1, <2>3, <2>4, <2>5 DEF Overdue
<1>8. CASE WaitTimeout
  <2>1. UNCHANGED <<worker, raced>> /\ waiting' = {} /\ Late(Pending)
    BY <1>8 DEF WaitTimeout, workers
  <2>2. CASE Pending \subseteq Dead
    <3>1. timeouts' = timeouts
      BY <2>1, <2>2 DEF Late
    <3>2. \A c \in waiting \cap Alive : worker[c] \notin Running
      BY <2>2 DEF Pending, Alive, Running
    <3>3. \A c \in Contacts : worker'[c] = "served" => c \in Alive
      BY <2>1 DEF Overdue
    <3>4. ASSUME NEW c \in Alive, worker'[c] \in Running PROVE timeouts' < MaxTimeouts
      BY <2>1, <3>1, <3>2, <3>4 DEF Overdue
    <3>5. raced' => timeouts' < MaxTimeouts
      BY <2>1, <3>1 DEF Overdue
    <3> QED
      BY <2>1, <3>3, <3>4, <3>5 DEF Overdue
  <2>3. CASE ~(Pending \subseteq Dead)
    <3>1. timeouts' < MaxTimeouts
      BY <1>1, <2>1, <2>3, BoundsAssumption DEF Late
    <3>2. \A c \in Contacts : worker'[c] = "served" => c \in Alive
      BY <2>1 DEF Overdue
    <3> QED
      BY <2>1, <3>1, <3>2 DEF Overdue
  <2> QED
    BY <2>2, <2>3
<1>9. CASE Finish
  <2>1. UNCHANGED <<waiting, raced>> /\ pc = "finishing" /\ \A c \in Contacts : worker'[c] = "none"
    BY <1>9 DEF Finish
  <2>2. waiting = {}
    BY <2>1 DEF Overdue
  <2>3. \A c \in Contacts : worker'[c] \notin Running
    BY <2>1 DEF Running
  <2> QED
    BY <1>1, <2>1, <2>2, <2>3, OverdueNobody
<1>10. ASSUME NEW c \in Contacts, Worker(c)
       PROVE  Overdue'
  <2>1. worker \in [Contacts -> {"none", "asked", "served", "done"}]
    BY DEF Working, Busy
  <2>2. UNCHANGED <<waiting, pc, raced>>
    BY <1>10 DEF Worker, Serve, Receive, Timeout, lookup
  <2>3. CASE Serve(c)
    <3>1. worker' = [worker EXCEPT ![c] = "served"] /\ worker[c] = "asked" /\ c \in Alive
      BY <2>3 DEF Serve
    <3>2. \A d \in Contacts : worker'[d] \in Running => worker[d] \in Running
      BY <2>1, <3>1 DEF Running
    <3>3. \A d \in Contacts : worker'[d] = "served" => d \in Alive
      BY <2>1, <3>1 DEF Overdue
    <3> QED
      BY <1>1, <2>2, <3>2, <3>3, OverdueWorkers
  <2>4. CASE Receive(c) \/ Timeout(c)
    <3>1. worker' = [worker EXCEPT ![c] = "done"]
      BY <2>4 DEF Receive, Timeout, Answered
    <3>2. \A d \in Contacts : worker'[d] \in Running => worker[d] \in Running
      BY <2>1, <3>1 DEF Running
    <3>3. \A d \in Contacts : worker'[d] = "served" => d \in Alive
      BY <2>1, <3>1 DEF Overdue
    <3> QED
      BY <1>1, <2>2, <3>2, <3>3, OverdueWorkers
  <2> QED
    BY <1>10, <2>3, <2>4 DEF Worker
<1>11. ASSUME NEW c \in Contacts, RoundRaced(c)
       PROVE  Overdue'
  <2>1. /\ pc \in {"round", "finishing"} /\ worker[c] = "served" /\ timeouts' = timeouts
        /\ worker' = [Asking EXCEPT ![c] = "done"]
    BY <1>11 DEF RoundRaced, world
  <2>2. timeouts < MaxTimeouts
    <3>1. c \in Alive /\ waiting = {}
      BY <2>1 DEF Overdue
    <3>2. worker[c] \in Running /\ c \notin waiting
      BY <2>1, <3>1 DEF Running
    <3> QED
      BY <3>1, <3>2 DEF Overdue
  <2>3. pc' # "waiting" => waiting' = {}
    BY <1>11, <2>1 DEF RoundRaced, Ask, Conclude, Overdue
  <2>4. \A d \in Contacts :
            worker'[d] \in {worker[d], "done"} \/ (d \in waiting' /\ worker'[d] = "asked")
    BY <2>1 DEF Asking
  <2> QED
    BY <2>1, <2>2, <2>3, <2>4, OverdueRound
<1>12. ASSUME NEW c \in Contacts, NEW d \in Contacts, AppendsRace(c, d)
       PROVE  Overdue'
  <2>1. /\ worker[c] = "served" /\ c \notin waiting /\ UNCHANGED <<waiting, pc, timeouts>>
        /\ worker' = [worker EXCEPT ![c] = "done", ![d] = "done"]
    BY <1>12 DEF AppendsRace, world
  <2>2. timeouts < MaxTimeouts
    <3>1. c \in Alive
      BY <2>1 DEF Overdue
    <3>2. worker[c] \in Running
      BY <2>1 DEF Running
    <3> QED
      BY <2>1, <3>1, <3>2 DEF Overdue
  <2>3. worker \in [Contacts -> {"none", "asked", "served", "done"}]
    BY DEF Working, Busy
  <2>4. \A e \in Contacts : worker'[e] \in Running => worker[e] \in Running
    BY <2>1, <2>3 DEF Running
  <2>5. \A e \in Contacts : worker'[e] = "served" => e \in Alive
    BY <2>1, <2>3 DEF Overdue
  <2> QED
    BY <1>1, <2>1, <2>2, <2>4, <2>5, OverdueWorkers
<1>13. ASSUME NEW c \in Contacts, Call(c)
       PROVE  Overdue'
  <2>1. CASE PingServed(c) \/ Acknowledged(c) \/ PutPanics(c)
    BY <1>2, <2>1 DEF PingServed, Acknowledged, PutPanics
  <2>2. CASE NoReply(c)
    <3>1. CASE UNCHANGED lookup
      BY <1>2, <2>2, <3>1 DEF NoReply
    <3>2. CASE Return
      <4>1. tries[c] > 0 /\ tries \in Bags
        BY <2>2 DEF NoReply, Turn, Working, Pinging
      <4>2. pc \in {"greeting", "calling"}
        BY <4>1 DEF Working, Pinging, Nobody
      <4>3. UNCHANGED <<waiting, worker>> /\ (raced' => raced)
        BY <2>2, <3>2 DEF NoReply, Return, workers
      <4>4. \A d \in Contacts : worker'[d] \notin Running
        BY <1>3, <4>2, <4>3 DEF Running
      <4> QED
        BY <1>1, <1>3, <4>2, <4>3, <4>4, OverdueNobody
    <3> QED
      BY <2>2, <3>1, <3>2 DEF NoReply
  <2> QED
    BY <1>13, <2>1, <2>2 DEF Call
<1>14. ASSUME NEW c \in Contacts, Stray(c)
       PROVE  Overdue'
  BY <1>2, <1>14 DEF Stray
<1>15. CASE UNCHANGED vars
  BY <1>2, <1>15 DEF vars
<1> QED
  BY <1>4, <1>5, <1>6, <1>7, <1>8, <1>9, <1>10, <1>11, <1>12, <1>13, <1>14, <1>15
     DEF Next, Caller, Races

\* However many rounds forget what is beyond the first K, in whatever order replies
\* arrive and whichever do not, the result is the K nearest entries of the seeds and of
\* every reply that came in, unless a late reply raced the sorting or another reply; and
\* that a node which is alive missed a deadline is the only way for it to be late.
THEOREM ResultIsHeadSafe == Spec => []ResultIsHead
<1>1. Init => Headed /\ Overdue
  BY OverdueInit DEF Init, Headed
<1>2. Working /\ Headed /\ Overdue => ResultIsHead
  <2>1. SUFFICES ASSUME Working, Headed, Overdue
                 PROVE  ResultIsHead
    OBVIOUS
  <2>2. raced => timeouts < MaxTimeouts
    BY <2>1 DEF Overdue
  <2>3. ASSUME pc = "calling", ~raced
        PROVE  /\ Size(shortlist) = IF Size(all) < K THEN Size(all) ELSE K
               /\ \A c \in Contacts :
                     /\ shortlist[c] <= all[c]
                     /\ shortlist[c] < all[c] =>
                           \A d \in Listed(shortlist) : ~CompareXorDistance(c.id, d.id, target)
    <3>1. shortlist \in Bags /\ all \in Bags /\ target \in NodeID
      BY <2>1 DEF Working, Lists
    <3>2. Heads(shortlist, all, target) /\ Size(shortlist) <= K
      BY <2>1, <2>3 DEF Headed
    <3>3. \A c \in Contacts : shortlist[c] <= all[c]
      BY <3>2 DEF Heads
    <3> QED
      BY <3>1, <3>2, <3>3, HeadIsResult
  <2> QED
    BY <2>2, <2>3 DEF ResultIsHead
<1> QED
  BY <1>1, <1>2, WorkingInit, WorkingNext, HeadedNext, OverdueNext, PTL DEF Spec

\* No contact is in the result twice.
Unrepeated == \A c \in Contacts : shortlist[c] <= 1

\* The entries of a list without repetitions are as many as its contacts.
LEMMA UnrepeatedSize ==
    ASSUME NEW s \in Bags, \A c \in Contacts : s[c] <= 1
    PROVE  IsFiniteSet(Listed(s)) /\ Cardinality(Listed(s)) = Size(s)
<1>1. \A c \in Listed(s) : c \in Contacts /\ s[c] = 1
  BY DEF Listed, Bags
<1>2. Entries(s) = {<<c, 1>> : c \in Listed(s)}
  <2>1. ASSUME NEW e \in Entries(s) PROVE \E c \in Listed(s) : e = <<c, 1>>
    <3>1. e[1] \in Contacts /\ e[2] \in Nat /\ e = <<e[1], e[2]>> /\ 1 <= e[2] /\ e[2] <= s[e[1]]
      BY EntriesAre
    <3>2. s[e[1]] \in Nat /\ s[e[1]] <= 1
      BY <3>1 DEF Bags
    <3>3. e[2] = 1 /\ e[1] \in Listed(s)
      BY <3>1, <3>2 DEF Listed
    <3> QED
      BY <3>1, <3>3
  <2>2. ASSUME NEW c \in Listed(s) PROVE <<c, 1>> \in Entries(s)
    BY <1>1, EntriesAre
  <2> QED
    BY <2>1, <2>2
<1> DEFINE f == [c \in Listed(s) |-> <<c, 1>>]
<1>3. f \in Bijection(Listed(s), Entries(s))
  BY <1>2 DEF Bijection, Injection, Surjection, IsInjective
<1>4. IsFiniteSet(Listed(s))
  BY ContactFacts, FS_Subset DEF Listed
<1> QED
  BY <1>3, <1>4, FS_Bijection DEF Size, ExistsBijection

\* The first entries of all, if no two are of the same contact, are the nearest of all.
LEMMA HeadIsNearest ==
    ASSUME NEW s \in Bags, NEW a \in Bags, NEW t \in NodeID,
           Heads(s, a, t), Size(s) <= K, \A c \in Contacts : s[c] <= 1
    PROVE  Listed(s) = Nearest(Listed(a), t)
<1> DEFINE L == Listed(s)
           A == Listed(a)
<1>1. IsFiniteSet(L) /\ Cardinality(L) = Size(s) /\ Cardinality(L) \in Nat
  BY UnrepeatedSize, FS_CardinalityType
<1>2. \A c \in Contacts : s[c] \in Nat /\ a[c] \in Nat /\ s[c] <= a[c]
  BY DEF Bags, Heads
<1>3. L \in SUBSET A /\ A \in SUBSET Contacts
  BY <1>2 DEF Listed
<1>4. \A S \in SUBSET Contacts : IsFiniteSet(S)
  BY ContactFacts
<1>5. ASSUME NEW c \in A \ L
      PROVE  Size(s) = K /\ \A d \in L : ~CompareXorDistance(c.id, d.id, t)
  <2>1. c \in Contacts /\ s[c] < a[c]
    BY <1>2, <1>5 DEF Listed
  <2>2. \A d \in L : ~CompareXorDistance(c.id, d.id, t)
    BY <2>1, HeadIsResult
  <2>3. Cardinality(NotFarther(s, c, t)) >= K
    BY <2>1 DEF Heads
  <2>4. /\ Cardinality(NotFarther(s, c, t)) \in Nat /\ Size(s) \in Nat
        /\ Cardinality(NotFarther(s, c, t)) <= Size(s)
    BY EntriesCount
  <2> QED
    BY <2>2, <2>3, <2>4, KAssumption
<1> HIDE DEF L, A
<1>6. ASSUME NEW c \in L PROVE c \in A /\ Cardinality(Closer(A, c, t)) < K
  <2>1. c \in Contacts /\ c.id \in NodeID
    BY <1>3, ContactFacts
  <2>2. Closer(A, c, t) \in SUBSET (L \ {c})
    BY <1>5, <2>1, CloserIsStrictOrder DEF Closer
  <2>3. IsFiniteSet(L \ {c}) /\ Cardinality(L \ {c}) = Cardinality(L) - 1
    BY <1>1, <1>6, FS_RemoveElement
  <2>4. /\ IsFiniteSet(Closer(A, c, t)) /\ Cardinality(Closer(A, c, t)) \in Nat
        /\ Cardinality(Closer(A, c, t)) <= Cardinality(L \ {c})
    BY <2>2, <2>3, FS_Subset, FS_CardinalityType
  <2> QED
    BY <1>1, <1>3, <2>3, <2>4, KAssumption
<1>7. ASSUME NEW c \in A \ L PROVE ~(Cardinality(Closer(A, c, t)) < K)
  <2>1. c \in Contacts /\ c.id \in NodeID
    BY <1>3, ContactFacts
  <2>2. ASSUME NEW d \in L PROVE CompareXorDistance(d.id, c.id, t)
    <3>1. d \in Contacts /\ d.id \in NodeID /\ d # c
      BY <1>3, <1>7, ContactFacts
    <3>2. d.id # c.id
      BY <2>1, <3>1, OthersAssumption
    <3> QED
      BY <1>5, <1>7, <2>1, <3>1, <3>2, CloserIsStrictOrder
  <2>3. L \in SUBSET Closer(A, c, t)
    BY <1>3, <2>2 DEF Closer
  <2>4. IsFiniteSet(Closer(A, c, t))
    BY <1>3, <1>4, FS_Subset DEF Closer
  <2>5. Cardinality(L) <= Cardinality(Closer(A, c, t)) /\ Cardinality(Closer(A, c, t)) \in Nat
    BY <2>3, <2>4, FS_Subset, FS_CardinalityType
  <2> QED
    BY <1>1, <1>5, <1>7, <2>5, KAssumption
<1>8. L = Nearest(A, t)
  BY <1>3, <1>6, <1>7 DEF Nearest
<1> QED
  BY <1>8 DEF L, A

\* The result of Lookup is the K nearest contacts of all it was told of, unless it names
\* one of them twice or a late reply raced the sorting or another reply.  ClosestReturned
\* excepts the races itself, so repetitions are all that keeps it from holding.
THEOREM ClosestUnlessRepeated == Spec => [](Unrepeated => ClosestReturned)
<1>1. Init => Headed
  BY DEF Init, Headed
<1>2. Working /\ Headed => (Unrepeated => ClosestReturned)
  <2>1. SUFFICES ASSUME Working, Headed, Unrepeated, pc = "calling", ~raced
                 PROVE  Listed(shortlist) = Nearest(Listed(all), target)
    BY DEF ClosestReturned
  <2>2. shortlist \in Bags /\ all \in Bags /\ target \in NodeID
    BY <2>1 DEF Working, Lists
  <2>3. Heads(shortlist, all, target) /\ Size(shortlist) <= K
    BY <2>1 DEF Headed
  <2> QED
    BY <2>1, <2>2, <2>3, HeadIsNearest DEF Unrepeated
<1> QED
  BY <1>1, <1>2, WorkingInit, WorkingNext, HeadedNext, PTL DEF Spec

=============================================================================
