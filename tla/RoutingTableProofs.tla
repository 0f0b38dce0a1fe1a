------------------------- MODULE RoutingTableProofs -------------------------
(***************************************************************************)
(* Proofs about RoutingTable for every length of identifiers, capacity, set *)
(* of contacts and number of goroutines.                                    *)
(*                                                                         *)
(* The invariants are proved in layers, each using the ones below it:       *)
(*   Shape      the types, the order of the buckets, who holds which lock   *)
(*              and which call a goroutine at a given place is making;      *)
(*   Contents   which contacts are in which bucket;                         *)
(*   Walks      what ClosestK has collected from the buckets it has read.   *)
(* Then, that a table with one caller implements PeerClasses.               *)
(***************************************************************************)
EXTENDS RoutingTable, ContactSetLemmas, SequenceTheorems

Writing   == {"update", "split", "insert", "inserting"}
Answering == {"closest", "walking"}
Removing  == {"remove", "removing"}

\* The call a goroutine is making is the one its place in the code belongs to.
CallsInPlace ==
    \A g \in Goroutines :
        /\ pc[g] \in Writing => call[g].op \in {"Update", "FindNode"}
        /\ pc[g] \in Answering => call[g].op = "FindNode"
        /\ pc[g] \in Removing => call[g].op = "Remove"

\* The bucket Update is about to split is still the deepest, and may be split.
SplitReady ==
    \A g \in Goroutines : pc[g] = "split" =>
        /\ ref[g] = buckets[Len(buckets)]
        /\ Depth(ref[g]) < KeyBits - 1

Shape == TypeOK /\ BucketOrder /\ LocksHeld /\ CallsInPlace /\ SplitReady

-----------------------------------------------------------------------------
(* The vocabulary of the proofs.                                           *)

\* The names of the buckets and their depths.
LEMMA BucketType ==
    /\ \A d \in BitIndex : Settled(d) \in Bucket /\ Deepest(d) \in Bucket
    /\ \A b \in Bucket : Depth(b) \in BitIndex
    /\ \A d \in BitIndex : Depth(Settled(d)) = d /\ Depth(Deepest(d)) = d
    /\ Deepest(0) \in Bucket
BY KeyBitsAssumption DEF Settled, Deepest, Bucket, Depth, BitIndex

\* A call that writes is about a contact of the node's.
LEMMA CallType ==
    ASSUME TypeOK, CallsInPlace, NEW g \in Goroutines
    PROVE  /\ pc[g] \in Writing => call[g].from \in Contacts
           /\ pc[g] \in Removing => call[g].from \in Removable
           /\ pc[g] \in Answering => call[g].target \in Targets
BY DEF TypeOK, CallsInPlace, Calls, NoCall

\* Full is a Boolean whatever it is applied to.
LEMMA FullType == \A S : Full(S) \in BOOLEAN
BY DEF Full

\* The slice of buckets after a split.
LEMMA SplitSequence ==
    ASSUME NEW S, NEW s \in Seq(S), Len(s) >= 1, NEW l \in S, NEW r \in S,
           NEW u, u = Append([s EXCEPT ![Len(s)] = l], r)
    PROVE  /\ u \in Seq(S)
           /\ Len(u) = Len(s) + 1
           /\ \A i \in 1 .. Len(s) - 1 : u[i] = s[i]
           /\ u[Len(s)] = l
           /\ u[Len(s) + 1] = r
OBVIOUS

\* Where a goroutine is after Update returned to its handler.
LEMMA AfterUpdateEffect ==
    ASSUME TypeOK, NEW g \in Goroutines, AfterUpdate(g)
    PROVE  /\ pc' \in [Goroutines -> PC]
           /\ call' \in [Goroutines -> Calls]
           /\ ref' \in [Goroutines -> Bucket]
           /\ pc'[g] \in {"idle", "closest"}
           /\ pc'[g] = "closest" => call'[g].op = "FindNode"
           /\ \A h \in Goroutines \ {g} :
                 pc'[h] = pc[h] /\ call'[h] = call[h] /\ ref'[h] = ref[h]
<1>1. CASE call[g].op = "FindNode"
  BY <1>1, BucketType DEF AfterUpdate, Goto, TypeOK, PC
<1>2. CASE call[g].op # "FindNode"
  BY <1>2, BucketType DEF AfterUpdate, Return, Goto, TypeOK, PC, Calls, NoCall
<1> QED
  BY <1>1, <1>2

\* Every contact, and nil, has an identifier.
LEMMA ContactIDs ==
    /\ \A c \in Contacts \cup Removable \cup {Local} : c.id \in NodeID
    /\ Local.id = LocalID /\ Nil.id = ZeroID
BY ContactsAssumption, LocalIDAssumption DEF IsContact, Local, Nil

\* The index of the bucket Update and Remove look for.
LEMMA PrefixOfContact ==
    ASSUME NEW c \in Contacts \cup Removable \cup {Local}
    PROVE  /\ Prefix(c) \in 0 .. KeyBits
           /\ KBucketIndex(LocalID, c.id) \in BitIndex
           /\ c.id # LocalID =>
                 Prefix(c) \in BitIndex /\ KBucketIndex(LocalID, c.id) = Prefix(c)
           /\ c.id = LocalID => Prefix(c) = KeyBits
BY ContactIDs, LocalIDAssumption, PrefixType, PrefixOfDifferent, PrefixOfEqual DEF Prefix

\* The bucket an index selects is attached.
LEMMA BucketAtType ==
    ASSUME TypeOK, BucketOrder, NEW index \in Nat
    PROVE  /\ BucketAt(index) \in Bucket
           /\ BucketAt(index) \in Attached
           /\ \E i \in 1 .. Len(buckets) :
                 /\ BucketAt(index) = buckets[i]
                 /\ i = index + 1 \/ (i = Len(buckets) /\ i <= index)
<1>1. Len(buckets) \in Nat /\ Len(buckets) >= 1
  BY DEF BucketOrder
<1>2. CASE index >= Len(buckets)
  BY <1>1, <1>2 DEF BucketAt, Attached, TypeOK
<1>3. CASE index < Len(buckets)
  <2>1. index + 1 \in 1 .. Len(buckets) /\ BucketAt(index) = buckets[index + 1]
    BY <1>1, <1>3 DEF BucketAt
  <2> QED
    BY <2>1 DEF Attached, TypeOK
<1> QED
  BY <1>1, <1>2, <1>3

\* Whatever ClosestK sees of a bucket is a contact, the local node or nil.
LEMMA ObservableType ==
    ASSUME TypeOK, LocksHeld, CallsInPlace, NEW b \in Bucket, NEW seen \in Observable(b)
    PROVE  seen \subseteq Contacts \cup {Local, Nil}
<1>1. peers[b] \subseteq Contacts \cup {Local}
  BY DEF TypeOK
<1>2. CASE bLock[b] = NoOne
  BY <1>1, <1>2 DEF Observable
<1>3. CASE bLock[b] # NoOne
  <2>1. bLock[b] \in Goroutines /\ pc[bLock[b]] = "inserting"
    BY <1>3 DEF TypeOK, LocksHeld
  <2>2. call[bLock[b]].from \in Contacts
    BY <2>1, CallType DEF Writing
  <2>3. ASSUME NEW new \in Contacts, NEW s \in Torn(b, new)
        PROVE  s \subseteq peers[b] \cup {new, Nil}
    BY <2>3 DEF Torn, Without
  <2> QED
    BY <1>1, <1>3, <2>2, <2>3 DEF Observable
<1> QED
  BY <1>2, <1>3

-----------------------------------------------------------------------------
(* Shape.                                                                  *)

\* The table NewRoutingTable makes has the shape.
LEMMA InitShape == Init => Shape
<1> SUFFICES ASSUME Init PROVE Shape
  OBVIOUS
<1>1. TypeOK
  BY BucketType DEF Init, TypeOK, PC, Calls, NoCall
<1>2. BucketOrder
  BY KeyBitsAssumption DEF Init, BucketOrder
<1>3. LocksHeld
  BY NoOneAssumption DEF Init, LocksHeld
<1>4. CallsInPlace /\ SplitReady
  BY DEF Init, CallsInPlace, SplitReady, Writing, Answering, Removing
<1> QED
  BY <1>1, <1>2, <1>3, <1>4 DEF Shape


(* step *)

\* A call that begins changes nothing but where its goroutine is.
LEMMA CallShape ==
    ASSUME Shape, NEW g \in Goroutines, Begin(g)
    PROVE  Shape'
<1> USE DEF Shape
<1>1. PICK op \in {"Update", "FindNode", "Remove"}, c \in Contacts \cup Removable,
           t \in Targets \cup {LocalID}, label \in {"update", "remove"} :
        /\ Call(g, op, c, t, label)
        /\ [op |-> op, from |-> c, target |-> t] \in Calls
        /\ label = "remove" <=> op = "Remove"
  BY DEF Begin, Ping, FindNode, Drop, Calls
<1>2. TypeOK'
  BY <1>1 DEF TypeOK, PC, Call, Goto, table, locks, reader
<1>3. BucketOrder'
  BY <1>1 DEF BucketOrder, Call, table
<1>4. LocksHeld'
  BY <1>1 DEF TypeOK, LocksHeld, Call, Goto, locks
<1>5. CallsInPlace'
  BY <1>1 DEF TypeOK, CallsInPlace, Writing, Answering, Removing, Call, Goto
<1>6. SplitReady'
  BY <1>1 DEF TypeOK, SplitReady, Call, Goto, table
<1> QED
  BY <1>2, <1>3, <1>4, <1>5, <1>6

\* Update of the local node itself keeps the shape.
LEMMA UpdateSelfShape ==
    ASSUME Shape, NEW g \in Goroutines, UpdateSelf(g)
    PROVE  Shape'
<1> USE DEF Shape
<1>1. TypeOK'
  BY AfterUpdateEffect DEF TypeOK, UpdateSelf, table, locks, reader
<1>2. BucketOrder'
  BY DEF BucketOrder, table, UpdateSelf, table, locks, reader
<1>3. LocksHeld'
  BY AfterUpdateEffect DEF LocksHeld, UpdateSelf, locks
<1>4. CallsInPlace'
  BY AfterUpdateEffect DEF CallsInPlace, Writing, Answering, Removing, UpdateSelf
<1>5. SplitReady'
  BY AfterUpdateEffect DEF SplitReady, UpdateSelf, table
<1> QED
  BY <1>1, <1>2, <1>3, <1>4, <1>5

\* Update finds the deepest bucket full.
LEMMA UpdateFindsFullShape ==
    ASSUME Shape, NEW g \in Goroutines, UpdateFindsFull(g)
    PROVE  Shape'
<1> USE DEF Shape
<1>0. BucketAt(Prefix(call[g].from)) \in Bucket
  BY CallType, PrefixOfContact, BucketAtType DEF UpdateFindsFull, Writing
<1>1. TypeOK'
  BY <1>0 DEF TypeOK, UpdateFindsFull, Goto, PC, table, reader
<1>2. BucketOrder'
  BY DEF BucketOrder, table, UpdateFindsFull, MustSplit, Goto, PC, table, reader
<1>3. LocksHeld'
  BY NoOneAssumption DEF TypeOK, LocksHeld, UpdateFindsFull, MustSplit, Goto, PC, table, reader
<1>4. CallsInPlace'
  BY DEF TypeOK, CallsInPlace, Writing, Answering, Removing, UpdateFindsFull, MustSplit, Goto, PC, table, reader
<1>5. SplitReady'
  BY DEF TypeOK, SplitReady, LocksHeld, table, UpdateFindsFull, MustSplit, Goto, PC, table, reader
<1> QED
  BY <1>1, <1>2, <1>3, <1>4, <1>5

\* Update finds a bucket to insert into.
LEMMA UpdateFindsRoomShape ==
    ASSUME Shape, NEW g \in Goroutines, UpdateFindsRoom(g)
    PROVE  Shape'
<1> USE DEF Shape
<1>0. BucketAt(Prefix(call[g].from)) \in Bucket
  BY CallType, PrefixOfContact, BucketAtType DEF UpdateFindsRoom, Writing
<1>1. TypeOK'
  BY <1>0 DEF TypeOK, UpdateFindsRoom, Goto, PC, table, locks, reader
<1>2. BucketOrder'
  BY DEF BucketOrder, table, UpdateFindsRoom, Goto, PC, table, locks, reader
<1>3. LocksHeld'
  BY NoOneAssumption DEF TypeOK, LocksHeld, UpdateFindsRoom, Goto, PC, table, locks, reader
<1>4. CallsInPlace'
  BY DEF TypeOK, CallsInPlace, Writing, Answering, Removing, UpdateFindsRoom, Goto, PC, table, locks, reader
<1>5. SplitReady'
  BY DEF TypeOK, SplitReady, LocksHeld, table, UpdateFindsRoom, Goto, PC, table, locks, reader
<1> QED
  BY <1>1, <1>2, <1>3, <1>4, <1>5

\* A refused split releases rt.lock.
LEMMA SplitRefusedShape ==
    ASSUME Shape, NEW g \in Goroutines, SplitRefused(g)
    PROVE  Shape'
<1> USE DEF Shape
<1>1. TypeOK'
  BY AfterUpdateEffect DEF TypeOK, SplitRefused, table, reader
<1>2. BucketOrder'
  BY DEF BucketOrder, table, SplitRefused, table, reader
<1>3. LocksHeld'
  BY AfterUpdateEffect, NoOneAssumption DEF LocksHeld, SplitRefused
<1>4. CallsInPlace'
  BY AfterUpdateEffect DEF CallsInPlace, Writing, Answering, Removing, SplitRefused
<1>5. SplitReady'
  BY AfterUpdateEffect DEF SplitReady, SplitRefused, table
<1> QED
  BY <1>1, <1>2, <1>3, <1>4, <1>5

\* A split replaces the deepest bucket by a settled one and a deeper one.
LEMMA SplitShape ==
    ASSUME Shape, NEW g \in Goroutines, Split(g)
    PROVE  Shape'
<1> USE DEF Shape
<1> DEFINE n == Len(buckets)
           l == Settled(Depth(ref[g]))
           r == Deepest(Depth(ref[g]) + 1)
<1>a. /\ n \in 1 .. KeyBits - 1 /\ ref[g] = buckets[n] /\ ref[g] \in Bucket
      /\ Depth(ref[g]) = n - 1 /\ n - 1 \in BitIndex /\ n \in BitIndex
  <2>1. ref[g] = buckets[n] /\ Depth(ref[g]) < KeyBits - 1 /\ ref[g] \in Bucket
    BY DEF Split, LeftPeers, RightPeers, SplitReady, TypeOK
  <2>2. n \in 1 .. KeyBits /\ buckets[n] = Deepest(n - 1)
    BY DEF BucketOrder
  <2>3. n - 1 \in BitIndex
    BY <2>2, KeyBitsAssumption DEF BitIndex
  <2>4. Depth(ref[g]) = n - 1
    BY <2>1, <2>2, <2>3, BucketType
  <2> QED
    BY <2>1, <2>2, <2>3, <2>4, KeyBitsAssumption DEF BitIndex
<1>b. l = Settled(n - 1) /\ l \in Bucket /\ r = Deepest(n) /\ r \in Bucket
  BY <1>a, BucketType
<1>c. /\ buckets' \in Seq(Bucket)
      /\ Len(buckets') = n + 1
      /\ \A i \in 1 .. n - 1 : buckets'[i] = buckets[i]
      /\ buckets'[n] = l
      /\ buckets'[n + 1] = r
  <2>1. buckets' = Append([buckets EXCEPT ![Len(buckets)] = l], r)
    BY DEF Split, LeftPeers, RightPeers
  <2> HIDE DEF l, r
  <2> QED
    BY <2>1, <1>a, <1>b, SplitSequence DEF TypeOK
<1>1. TypeOK'
  <2>1. peers' \in [Bucket -> SUBSET (Contacts \cup {Local})]
    BY <1>a DEF TypeOK, Split, LeftPeers, RightPeers
  <2>2. isFull' \in [Bucket -> BOOLEAN]
    BY FullType DEF TypeOK, Split, LeftPeers, RightPeers
  <2> QED
    BY <2>1, <2>2, <1>c, BucketType DEF TypeOK, Split, LeftPeers, RightPeers, Goto, PC, reader
<1>2. BucketOrder'
  <2>1. ASSUME NEW i \in 1 .. n + 1
        PROVE  buckets'[i] = IF i < n + 1 THEN Settled(i - 1) ELSE Deepest(i - 1)
    <3>1. CASE i < n
      <4>1. buckets'[i] = buckets[i] /\ buckets[i] = Settled(i - 1)
        BY <1>a, <1>c, <3>1 DEF BucketOrder
      <4> QED
        BY <4>1, <3>1, <1>a
    <3>2. CASE i = n
      BY <1>a, <1>b, <1>c, <3>2
    <3>3. CASE i = n + 1
      BY <1>a, <1>b, <1>c, <3>3
    <3> QED
      BY <1>a, <2>1, <3>1, <3>2, <3>3
  <2> HIDE DEF n, l, r
  <2> QED
    BY <2>1, <1>a, <1>c, KeyBitsAssumption DEF BucketOrder
<1>3. LocksHeld'
  BY NoOneAssumption DEF TypeOK, LocksHeld, Split, LeftPeers, RightPeers, Goto, PC, reader
<1>4. CallsInPlace'
  BY DEF TypeOK, CallsInPlace, Writing, Answering, Removing, Split, LeftPeers, RightPeers, Goto, PC, reader
<1>5. SplitReady'
  BY DEF TypeOK, SplitReady, LocksHeld, table, Split, LeftPeers, RightPeers, Goto, PC, reader
<1> QED
  BY <1>1, <1>2, <1>3, <1>4, <1>5

\* An insert takes the lock of the bucket it chose.
LEMMA InsertLockShape ==
    ASSUME Shape, NEW g \in Goroutines, InsertLock(g)
    PROVE  Shape'
<1> USE DEF Shape
<1>1. TypeOK'
  BY CallType, BucketType DEF TypeOK, InsertLock, Goto, PC, table
<1>2. BucketOrder'
  BY DEF BucketOrder, table, InsertLock, Goto, PC, table
<1>3. LocksHeld'
  BY NoOneAssumption DEF TypeOK, LocksHeld, InsertLock, Goto, PC, table
<1>4. CallsInPlace'
  BY DEF TypeOK, CallsInPlace, Writing, Answering, Removing, InsertLock, Goto, PC, table
<1>5. SplitReady'
  BY DEF TypeOK, SplitReady, LocksHeld, table, InsertLock, Goto, PC, table
<1> QED
  BY <1>1, <1>2, <1>3, <1>4, <1>5

\* An insert releases it.
LEMMA InsertShape ==
    ASSUME Shape, NEW g \in Goroutines, Insert(g)
    PROVE  Shape'
<1> USE DEF Shape
<1>1. TypeOK'
  <2>1. peers' \in [Bucket -> SUBSET (Contacts \cup {Local})]
    <3> DEFINE put == Without(peers[ref[g]], call[g].from) \cup {call[g].from}
    <3>1. call[g].from \in Contacts /\ peers[ref[g]] \subseteq Contacts \cup {Local}
      BY CallType DEF TypeOK, Writing, Insert
    <3>2. put \subseteq Contacts \cup {Local}
      BY <3>1 DEF Without
    <3>3. Nearest(put, LocalID) \subseteq Contacts \cup {Local}
      BY <3>2, NearestSubset
    <3>4. peers' = [peers EXCEPT ![ref[g]] = Nearest(put, LocalID)]
      BY DEF Insert
    <3> QED
      BY <3>3, <3>4 DEF TypeOK
  <2>2. isFull' \in [Bucket -> BOOLEAN]
    BY FullType DEF TypeOK, Insert
  <2> QED
    BY <2>1, <2>2, AfterUpdateEffect, NoOneAssumption DEF TypeOK, Insert, reader
<1>2. BucketOrder'
  BY DEF BucketOrder, table, Insert, reader
<1>3. LocksHeld'
  <2>1. /\ bLock' = [bLock EXCEPT ![ref[g]] = NoOne] /\ rtLock' = rtLock
        /\ pc[g] = "inserting" /\ bLock[ref[g]] = g /\ ref[g] \in Bucket
    BY DEF TypeOK, LocksHeld, Insert
  <2>2. AfterUpdate(g)
    BY DEF Insert
  <2>3. \A h \in Goroutines : pc'[h] \in {"split", "removing", "walking"} <=> rtLock' = h
    BY <2>1, <2>2, AfterUpdateEffect DEF LocksHeld
  <2>4. ASSUME NEW b \in Bucket, NEW h \in Goroutines
        PROVE  bLock'[b] = h <=> pc'[h] = "inserting" /\ ref'[h] = b
    <3>1. CASE h = g
      <4>1. bLock'[b] # g
        BY <2>1, NoOneAssumption DEF LocksHeld, TypeOK
      <4>2. pc'[g] # "inserting"
        BY <2>2, AfterUpdateEffect
      <4> QED
        BY <3>1, <4>1, <4>2
    <3>2. CASE h # g
      BY <2>1, <2>2, <3>2, AfterUpdateEffect, NoOneAssumption DEF LocksHeld, TypeOK
    <3> QED
      BY <3>1, <3>2
  <2> QED
    BY <2>3, <2>4 DEF LocksHeld
<1>4. CallsInPlace'
  BY AfterUpdateEffect DEF CallsInPlace, Writing, Answering, Removing, Insert
<1>5. SplitReady'
  BY AfterUpdateEffect DEF SplitReady, Insert
<1> QED
  BY <1>1, <1>2, <1>3, <1>4, <1>5

\* Remove takes rt.lock and selects an attached bucket.
LEMMA RemoveFindsShape ==
    ASSUME Shape, NEW g \in Goroutines, RemoveFinds(g)
    PROVE  Shape'
<1> USE DEF Shape
<1>0. BucketAt(KBucketIndex(LocalID, call[g].from.id)) \in Bucket
  BY CallType, PrefixOfContact, BucketAtType, KeyBitsAssumption DEF RemoveFinds, Removing, BitIndex
<1>1. TypeOK'
  BY <1>0 DEF TypeOK, RemoveFinds, Goto, PC, table, reader
<1>2. BucketOrder'
  BY DEF BucketOrder, table, RemoveFinds, Goto, PC, table, reader
<1>3. LocksHeld'
  BY NoOneAssumption DEF TypeOK, LocksHeld, RemoveFinds, Goto, PC, table, reader
<1>4. CallsInPlace'
  BY DEF TypeOK, CallsInPlace, Writing, Answering, Removing, RemoveFinds, Goto, PC, table, reader
<1>5. SplitReady'
  BY DEF TypeOK, SplitReady, LocksHeld, table, RemoveFinds, Goto, PC, table, reader
<1> QED
  BY <1>1, <1>2, <1>3, <1>4, <1>5

\* Remove releases rt.lock.
LEMMA RemoveShape ==
    ASSUME Shape, NEW g \in Goroutines, Remove(g)
    PROVE  Shape'
<1> USE DEF Shape
<1>1. TypeOK'
  <2>1. peers' \in [Bucket -> SUBSET (Contacts \cup {Local})]
    BY DEF TypeOK, Remove, Without
  <2>2. isFull' \in [Bucket -> BOOLEAN]
    BY FullType DEF TypeOK, Remove
  <2>3. pc' \in [Goroutines -> PC] /\ call' \in [Goroutines -> Calls] /\ ref' \in [Goroutines -> Bucket]
    BY BucketType DEF TypeOK, Remove, Return, Goto, PC, Calls, NoCall
  <2> QED
    BY <2>1, <2>2, <2>3 DEF TypeOK, Remove, reader
<1>2. BucketOrder'
  BY DEF BucketOrder, table, Remove, Return, Goto, NoCall, Calls, PC, reader
<1>3. LocksHeld'
  BY NoOneAssumption DEF TypeOK, LocksHeld, Remove, Return, Goto, NoCall, Calls, PC, reader
<1>4. CallsInPlace'
  BY DEF TypeOK, CallsInPlace, Writing, Answering, Removing, Remove, Return, Goto, NoCall, Calls, PC, reader
<1>5. SplitReady'
  BY DEF TypeOK, SplitReady, LocksHeld, table, Remove, Return, Goto, NoCall, Calls, PC, reader
<1> QED
  BY <1>1, <1>2, <1>3, <1>4, <1>5

\* ClosestK takes rt.lock.
LEMMA ClosestLockShape ==
    ASSUME Shape, NEW g \in Goroutines, ClosestLock(g)
    PROVE  Shape'
<1> USE DEF Shape
<1>1. TypeOK'
  <2>1. InTable \subseteq Contacts \cup {Local}
    BY DEF TypeOK, InTable, Attached
  <2> QED
    BY <2>1 DEF TypeOK, ClosestLock, Goto, PC, table
<1>2. BucketOrder'
  BY DEF BucketOrder, table, ClosestLock, Goto, PC, table
<1>3. LocksHeld'
  BY NoOneAssumption DEF TypeOK, LocksHeld, ClosestLock, Goto, PC, table
<1>4. CallsInPlace'
  BY DEF TypeOK, CallsInPlace, Writing, Answering, Removing, ClosestLock, Goto, PC, table
<1>5. SplitReady'
  BY DEF TypeOK, SplitReady, LocksHeld, table, ClosestLock, Goto, PC, table
<1> QED
  BY <1>1, <1>2, <1>3, <1>4, <1>5

\* ClosestK reads a bucket: all it collects is a contact or nil.
LEMMA ClosestReadShape ==
    ASSUME Shape, NEW g \in Goroutines, ClosestRead(g)
    PROVE  Shape'
<1> USE DEF Shape
<1>1. TypeOK'
  <2>1. all' \in [Goroutines -> SUBSET (Contacts \cup {Nil})]
    <3>1. PICK seen \in Observable(buckets[walk[g] + 1]) :
             all' = [all EXCEPT ![g] = @ \cup Unseen(seen, @)]
      BY DEF ClosestRead
    <3>2. walk[g] + 1 \in 1 .. Len(buckets) /\ buckets[walk[g] + 1] \in Bucket
      BY DEF TypeOK, BucketOrder, ClosestRead
    <3>3. seen \subseteq Contacts \cup {Local, Nil}
      BY <3>2, ObservableType
    <3>4. Unseen(seen, all[g]) \subseteq Contacts \cup {Nil}
      BY <3>3 DEF Unseen, Local
    <3> QED
      BY <3>1, <3>4 DEF TypeOK
  <2>2. walk' \in [Goroutines -> Nat]
    BY DEF TypeOK, ClosestRead
  <2> QED
    BY <2>1, <2>2 DEF TypeOK, ClosestRead, locks, table
<1>2. BucketOrder'
  BY DEF BucketOrder, table, ClosestRead, locks, table
<1>3. LocksHeld'
  BY NoOneAssumption DEF TypeOK, LocksHeld, ClosestRead, locks, table
<1>4. CallsInPlace'
  BY DEF TypeOK, CallsInPlace, Writing, Answering, Removing, ClosestRead, locks, table
<1>5. SplitReady'
  BY DEF TypeOK, SplitReady, LocksHeld, table, ClosestRead, locks, table
<1> QED
  BY <1>1, <1>2, <1>3, <1>4, <1>5

\* ClosestK releases rt.lock.
LEMMA ClosestReturnShape ==
    ASSUME Shape, NEW g \in Goroutines, ClosestReturn(g)
    PROVE  Shape'
<1> USE DEF Shape
<1>1. TypeOK'
  BY CallType, BucketType DEF TypeOK, ClosestReturn, Return, Goto, NoCall, Calls, PC, table
<1>2. BucketOrder'
  BY DEF BucketOrder, table, ClosestReturn, Return, Goto, NoCall, Calls, PC, table
<1>3. LocksHeld'
  BY NoOneAssumption DEF TypeOK, LocksHeld, ClosestReturn, Return, Goto, NoCall, Calls, PC, table
<1>4. CallsInPlace'
  BY DEF TypeOK, CallsInPlace, Writing, Answering, Removing, ClosestReturn, Return, Goto, NoCall, Calls, PC, table
<1>5. SplitReady'
  BY DEF TypeOK, SplitReady, LocksHeld, table, ClosestReturn, Return, Goto, NoCall, Calls, PC, table
<1> QED
  BY <1>1, <1>2, <1>3, <1>4, <1>5

\* Every step keeps the shape.
LEMMA StepShape == Shape /\ [Next]_vars => Shape'
<1> SUFFICES ASSUME Shape, [Next]_vars PROVE Shape'
  OBVIOUS
<1>1. ASSUME NEW g \in Goroutines, Begin(g) PROVE Shape'
  BY <1>1, CallShape
<1>2. ASSUME NEW g \in Goroutines, Step(g) PROVE Shape'
  BY <1>2, UpdateSelfShape, UpdateFindsFullShape, UpdateFindsRoomShape,
     SplitRefusedShape, SplitShape, InsertLockShape, InsertShape, RemoveFindsShape,
     RemoveShape, ClosestLockShape, ClosestReadShape, ClosestReturnShape DEF Step
<1>3. CASE UNCHANGED vars
  BY <1>3 DEF Shape, TypeOK, BucketOrder, LocksHeld, CallsInPlace, SplitReady,
              Writing, Answering, Removing, vars, table, locks, reader
<1> QED
  BY <1>1, <1>2, <1>3 DEF Next

\* Every variable has its type, the attached buckets are in order and at most
\* KeyBits many, and a lock is held exactly by the goroutine in its critical
\* section, in every reachable state of any number of goroutines.
THEOREM ShapeInvariant == Spec => []Shape
BY InitShape, StepShape, PTL DEF Spec

\* Every variable of the table, its locks and its callers keeps its type.
THEOREM TypeCorrect == Spec => []TypeOK
BY ShapeInvariant, PTL DEF Shape

\* Update finds a contact's bucket by the length of its prefix, and there are
\* never more than KeyBits buckets.
THEOREM BucketsInOrder == Spec => []BucketOrder
BY ShapeInvariant, PTL DEF Shape

\* rt.lock and b.lock are held by exactly the goroutine in the critical section,
\* on every path through Update, Split, Remove and ClosestK.
THEOREM LocksAreHeld == Spec => []LocksHeld
BY ShapeInvariant, PTL DEF Shape

-----------------------------------------------------------------------------
(* Contents.                                                               *)

BucketIds == \A b \in Bucket : Distinct(peers[b])

\* Update returns at once when the sender is the local node.
SendersAreOthers ==
    \A g \in Goroutines : pc[g] \in {"split", "insert", "inserting"} => call[g].from.id # LocalID

Contents ==
    /\ Placement
    /\ BucketIds
    /\ SettledInsertsLand
    /\ SendersAreOthers
    /\ LocalStays
    /\ Capacity

\* A bucket's peers are a finite set of contacts with identifiers.
LEMMA PeersFinite ==
    ASSUME TypeOK, NEW b \in Bucket
    PROVE  IsFiniteSet(peers[b]) /\ HaveIDs(peers[b]) /\ peers[b] \subseteq Contacts \cup {Local}
<1>1. IsFiniteSet(Contacts \cup {Local})
  BY ContactsAssumption, FS_AddElement
<1>2. peers[b] \in SUBSET (Contacts \cup {Local})
  BY DEF TypeOK
<1>3. IsFiniteSet(peers[b])
  BY <1>1, <1>2, FS_Subset
<1> QED
  BY <1>2, <1>3, ContactIDs DEF HaveIDs

\* An attached bucket is a settled one, or it is the last.
LEMMA BucketKind ==
    ASSUME NEW d
    PROVE  /\ Settled(d)[1] = "settled" /\ Settled(d)[1] # "deepest"
           /\ Deepest(d)[1] = "deepest" /\ Deepest(d)[1] # "settled"
BY DEF Settled, Deepest

\* The bucket Update selects is one the sender belongs to.
LEMMA SelectedBelongs ==
    ASSUME Shape, NEW c \in Contacts
    PROVE  LET b == BucketAt(Prefix(c)) IN b \in Bucket /\ b \in Attached /\ Belongs(c, b)
<1> USE DEF Shape
<1>1. Prefix(c) \in Nat
  BY PrefixOfContact
<1>2. PICK i \in 1 .. Len(buckets) :
        /\ BucketAt(Prefix(c)) = buckets[i]
        /\ i = Prefix(c) + 1 \/ (i = Len(buckets) /\ i <= Prefix(c))
  BY <1>1, BucketAtType
<1>3. Len(buckets) \in 1 .. KeyBits /\ i - 1 \in BitIndex
  BY KeyBitsAssumption DEF BucketOrder, BitIndex
<1>4. ASSUME i < Len(buckets) PROVE Belongs(c, BucketAt(Prefix(c)))
  <2>1. BucketAt(Prefix(c)) = Settled(i - 1) /\ Prefix(c) = i - 1
    BY <1>1, <1>2, <1>3, <1>4 DEF BucketOrder
  <2> QED
    BY <1>1, <1>3, <2>1, BucketType, BucketKind DEF Belongs
<1>5. ASSUME i = Len(buckets) PROVE Belongs(c, BucketAt(Prefix(c)))
  <2>1. BucketAt(Prefix(c)) = Deepest(i - 1) /\ Prefix(c) >= i - 1
    BY <1>1, <1>2, <1>3, <1>5 DEF BucketOrder
  <2> QED
    BY <1>1, <1>3, <2>1, BucketType, BucketKind DEF Belongs
<1>6. BucketAt(Prefix(c)) \in Bucket /\ BucketAt(Prefix(c)) \in Attached
  BY <1>1, BucketAtType
<1> QED
  BY <1>2, <1>3, <1>4, <1>5, <1>6

\* What a split does to the table, in the terms of BucketOrder.
LEMMA SplitEffect ==
    ASSUME Shape, NEW g \in Goroutines, Split(g)
    PROVE  LET n == Len(buckets)
               l == Settled(n - 1)
               r == Deepest(n)
           IN  /\ n \in 1 .. KeyBits - 1 /\ n - 1 \in BitIndex /\ n \in BitIndex
               /\ ref[g] = Deepest(n - 1) /\ buckets[n] = Deepest(n - 1)
               /\ ref[g] \in Bucket /\ l \in Bucket /\ r \in Bucket /\ l # r
               /\ Attached' = (Attached \ {Deepest(n - 1)}) \cup {l, r}
               /\ Deepest(n - 1) \in Attached
               /\ \A b \in Attached \ {Deepest(n - 1)} : b # l /\ b # r
               /\ \A b \in Bucket \ {l, r} : peers'[b] = peers[b] /\ isFull'[b] = isFull[b]
               /\ peers'[l] = {c \in peers[ref[g]] : Prefix(c) = n - 1}
               /\ peers'[r] = {c \in peers[ref[g]] : Prefix(c) # n - 1}
               /\ isFull'[l] = Full(peers'[l])
               /\ isFull'[r] = Full(peers'[r])
               /\ buckets'[Len(buckets')] = r
<1> USE DEF Shape
<1> DEFINE n == Len(buckets)
           l == Settled(n - 1)
           r == Deepest(n)
<1>1. n \in 1 .. KeyBits /\ buckets[n] = Deepest(n - 1) /\ n - 1 \in BitIndex
  BY KeyBitsAssumption DEF BucketOrder, BitIndex
<1>2. ref[g] = Deepest(n - 1) /\ Depth(ref[g]) = n - 1 /\ Depth(ref[g]) < KeyBits - 1
  BY <1>1, BucketType DEF Split, LeftPeers, RightPeers, SplitReady
<1>3. n \in 1 .. KeyBits - 1 /\ n \in BitIndex
  BY <1>1, <1>2, KeyBitsAssumption DEF BitIndex
<1>4. ref[g] \in Bucket /\ l \in Bucket /\ r \in Bucket /\ l # r
  BY <1>1, <1>3, <1>2, BucketType DEF Settled, Deepest
<1>5. /\ Len(buckets') = n + 1
      /\ \A i \in 1 .. n - 1 : buckets'[i] = buckets[i]
      /\ buckets'[n] = l
      /\ buckets'[n + 1] = r
  <2>1. buckets' = Append([buckets EXCEPT ![n] = l], r) /\ buckets \in Seq(Bucket) /\ n >= 1
    BY <1>1, <1>2 DEF Split, LeftPeers, RightPeers, TypeOK
  <2> HIDE DEF l, r
  <2> QED
    BY <2>1, <1>4, SplitSequence
<1>6. \A i \in 1 .. n - 1 : buckets[i] = Settled(i - 1) /\ i - 1 \in BitIndex /\ i - 1 # n - 1
  BY <1>1, KeyBitsAssumption DEF BucketOrder, BitIndex
<1>7. \A b \in Attached \ {Deepest(n - 1)} : b # l /\ b # r
  BY <1>1, <1>6 DEF Attached, Settled, Deepest
<1>8. Attached' = (Attached \ {Deepest(n - 1)}) \cup {l, r}
  <2>1. Attached = {buckets[i] : i \in 1 .. n - 1} \cup {Deepest(n - 1)}
    BY <1>1 DEF Attached
  <2>2. Attached' = {buckets'[i] : i \in 1 .. n - 1} \cup {l, r}
    <3> HIDE DEF l, r
    <3>1. Attached' = {buckets'[i] : i \in 1 .. n + 1}
      BY <1>5 DEF Attached
    <3>2. \A i \in 1 .. n + 1 : i \in 1 .. n - 1 \/ i = n \/ i = n + 1
      BY <1>1
    <3>3. \A i \in 1 .. n - 1 : i \in 1 .. n + 1
      BY <1>1
    <3>4. n \in 1 .. n + 1 /\ n + 1 \in 1 .. n + 1
      BY <1>1
    <3> HIDE DEF n
    <3> QED
      BY <1>5, <3>1, <3>2, <3>3, <3>4
  <2>3. {buckets'[i] : i \in 1 .. n - 1} = {buckets[i] : i \in 1 .. n - 1}
    BY <1>5
  <2>4. Deepest(n - 1) \notin {buckets[i] : i \in 1 .. n - 1}
    BY <1>6 DEF Settled, Deepest
  <2> QED
    BY <2>1, <2>2, <2>3, <2>4
<1>9. Deepest(n - 1) \in Attached
  BY <1>1 DEF Attached
<1>10. /\ peers' = [peers EXCEPT ![l] = {c \in peers[ref[g]] : Prefix(c) = n - 1},
                                 ![r] = {c \in peers[ref[g]] : Prefix(c) # n - 1}]
       /\ isFull' = [isFull EXCEPT ![l] = Full({c \in peers[ref[g]] : Prefix(c) = n - 1}),
                                   ![r] = Full({c \in peers[ref[g]] : Prefix(c) # n - 1})]
  <2>1. n - 1 + 1 = n
    BY <1>1
  <2> QED
    BY <1>2, <2>1 DEF Split, LeftPeers, RightPeers
<1>11. /\ \A b \in Bucket \ {l, r} : peers'[b] = peers[b] /\ isFull'[b] = isFull[b]
       /\ peers'[l] = {c \in peers[ref[g]] : Prefix(c) = n - 1}
       /\ peers'[r] = {c \in peers[ref[g]] : Prefix(c) # n - 1}
       /\ isFull'[l] = Full(peers'[l])
       /\ isFull'[r] = Full(peers'[r])
  <2> HIDE DEF l, r, n
  <2> QED
    BY <1>4, <1>10 DEF TypeOK
<1> HIDE DEF l, r
<1>12. buckets'[Len(buckets')] = r
  BY <1>5
<1> QED
  BY <1>1, <1>2, <1>3, <1>4, <1>7, <1>8, <1>9, <1>11, <1>12 DEF l, r

\* The first bucket holds the local node and has the contents it should.
LEMMA InitContents == Init => Contents
<1> SUFFICES ASSUME Init PROVE Contents
  OBVIOUS
<1> USE DEF Init
<1>1. \A b \in Bucket : peers[b] = {} \/ (b = Deepest(0) /\ peers[b] = {Local})
  OBVIOUS
<1>2. Belongs(Local, Deepest(0))
  BY PrefixOfContact, ContactIDs, BucketType, BucketKind, KeyBitsAssumption DEF Belongs, BitIndex
<1>3. Placement /\ BucketIds
  BY <1>1, <1>2 DEF Placement, BucketIds, Distinct
<1>4. SettledInsertsLand /\ SendersAreOthers
  BY DEF SettledInsertsLand, SendersAreOthers
<1>5. LocalStays
  BY BucketType DEF LocalStays
<1>6. Capacity
  <2>1. ASSUME NEW b \in Bucket PROVE Cardinality(peers[b]) <= K /\ isFull[b] = Full(peers[b])
    <3>1. CASE b = Deepest(0)
      <4>1. peers[b] = {Local} /\ Cardinality({Local}) = 1
        BY <3>1, FS_Singleton
      <4>2. isFull[b] = Full({Local})
        BY <3>1, FullType
      <4> QED
        BY <4>1, <4>2, KAssumption
    <3>2. CASE b # Deepest(0)
      BY <3>2, FS_EmptySet, KAssumption DEF Full
    <3> QED
      BY <3>1, <3>2
  <2> QED
    BY <2>1 DEF Capacity
<1> QED
  BY <1>3, <1>4, <1>5, <1>6 DEF Contents

\* The steps that leave the table alone: what is to be shown is that a bucket
\* chosen now is one the sender belongs to.
LEMMA ContentsUnchanged ==
    ASSUME Shape, Shape', Contents, UNCHANGED table,
           \A g \in Goroutines : pc'[g] \in {"split", "insert", "inserting"} =>
              \/ /\ pc[g] \in {"split", "insert", "inserting"}
                 /\ pc[g] = "split" <=> pc'[g] = "split"
                 /\ call'[g] = call[g] /\ ref'[g] = ref[g]
              \/ /\ call'[g].from \in Contacts /\ call'[g].from.id # LocalID
                 /\ ref'[g] = BucketAt(Prefix(call'[g].from))
    PROVE  Contents'
<1> USE DEF table
<1>1. Placement' /\ BucketIds' /\ Capacity'
  BY DEF Contents, Placement, BucketIds, Capacity
<1>2. SettledInsertsLand'
  BY SelectedBelongs DEF Contents, SettledInsertsLand, Attached
<1>3. SendersAreOthers'
  BY DEF Contents, SendersAreOthers
<1>4. LocalStays'
  BY DEF Contents, LocalStays, Shape, SplitReady
<1> QED
  BY <1>1, <1>2, <1>3, <1>4 DEF Contents

\* The steps that write to no bucket keep the contents.
LEMMA OtherStepsContents ==
    ASSUME Shape, Shape', Contents, NEW g \in Goroutines,
           \/ Begin(g) \/ UpdateSelf(g) \/ UpdateFindsFull(g) \/ UpdateFindsRoom(g)
           \/ SplitRefused(g) \/ InsertLock(g) \/ RemoveFinds(g)
           \/ ClosestLock(g) \/ ClosestRead(g) \/ ClosestReturn(g)
    PROVE  Contents'
<1> USE DEF Shape
<1>1. CASE Begin(g)
  BY <1>1, ContentsUnchanged DEF Begin, Ping, FindNode, Drop, Call, Goto, TypeOK
<1>2. CASE UpdateSelf(g)
  BY <1>2, AfterUpdateEffect, ContentsUnchanged DEF UpdateSelf
<1>3. CASE UpdateFindsFull(g)
  BY <1>3, CallType, ContentsUnchanged DEF UpdateFindsFull, Goto, TypeOK, Writing
<1>4. CASE UpdateFindsRoom(g)
  BY <1>4, CallType, ContentsUnchanged DEF UpdateFindsRoom, Goto, TypeOK, Writing
<1>5. CASE SplitRefused(g)
  BY <1>5, AfterUpdateEffect, ContentsUnchanged DEF SplitRefused, table
<1>6. CASE InsertLock(g)
  BY <1>6, ContentsUnchanged DEF InsertLock, Goto, TypeOK
<1>7. CASE RemoveFinds(g)
  BY <1>7, ContentsUnchanged DEF RemoveFinds, Goto, TypeOK
<1>8. CASE ClosestLock(g)
  BY <1>8, ContentsUnchanged DEF ClosestLock, Goto, TypeOK
<1>9. CASE ClosestRead(g)
  BY <1>9, ContentsUnchanged DEF ClosestRead
<1>10. CASE ClosestReturn(g)
  BY <1>10, ContentsUnchanged DEF ClosestReturn, Return, Goto, TypeOK
<1> QED
  BY <1>1, <1>2, <1>3, <1>4, <1>5, <1>6, <1>7, <1>8, <1>9, <1>10

\* A split puts every peer where its prefix belongs.
LEMMA SplitContents ==
    ASSUME Shape, Shape', Contents, NEW g \in Goroutines, Split(g)
    PROVE  Contents'
<1> USE DEF Shape, Contents
<1> DEFINE n == Len(buckets)
           l == Settled(n - 1)
           r == Deepest(n)
<1>1. /\ n \in 1 .. KeyBits - 1 /\ n - 1 \in BitIndex /\ n \in BitIndex
      /\ ref[g] = Deepest(n - 1) /\ buckets[n] = Deepest(n - 1)
      /\ ref[g] \in Bucket /\ l \in Bucket /\ r \in Bucket /\ l # r
      /\ Attached' = (Attached \ {Deepest(n - 1)}) \cup {l, r}
      /\ \A b \in Bucket \ {l, r} : peers'[b] = peers[b] /\ isFull'[b] = isFull[b]
      /\ peers'[l] = {c \in peers[ref[g]] : Prefix(c) = n - 1}
      /\ peers'[r] = {c \in peers[ref[g]] : Prefix(c) # n - 1}
      /\ isFull'[l] = Full(peers'[l])
      /\ isFull'[r] = Full(peers'[r])
      /\ buckets'[Len(buckets')] = r
  BY SplitEffect
<1>2. \A h \in Goroutines : pc'[h] \in {"split", "insert", "inserting"} =>
         h # g /\ pc'[h] = pc[h] /\ call'[h] = call[h] /\ ref'[h] = ref[h]
  BY DEF Split, LeftPeers, RightPeers, Goto, TypeOK
<1>3. \A c \in peers[ref[g]] : Prefix(c) \in Nat /\ Prefix(c) >= n - 1
  <2>1. \A c \in peers[ref[g]] : Prefix(c) \in Nat /\ Belongs(c, Deepest(n - 1))
    BY <1>1, PeersFinite, PrefixOfContact DEF Placement
  <2> QED
    BY <1>1, <2>1, BucketKind, BucketType DEF Belongs
<1>4. Placement'
  <2>1. ASSUME NEW c \in peers'[l] PROVE Belongs(c, l)
    <3>1. Prefix(c) = n - 1
      BY <1>1, <2>1
    <3> QED
      BY <1>1, <3>1, BucketKind, BucketType DEF Belongs
  <2>2. ASSUME NEW c \in peers'[r] PROVE Belongs(c, r)
    <3>1. Prefix(c) # n - 1 /\ Prefix(c) \in Nat /\ Prefix(c) >= n - 1
      BY <1>1, <1>3, <2>2
    <3>2. Prefix(c) >= n
      BY <1>1, <3>1
    <3> QED
      BY <1>1, <3>2, BucketKind, BucketType DEF Belongs
  <2> HIDE DEF l, r
  <2> QED
    BY <1>1, <2>1, <2>2 DEF Placement
<1>5. BucketIds'
  <2> HIDE DEF l, r
  <2> QED
    BY <1>1 DEF BucketIds, Distinct
<1>6. SettledInsertsLand'
  <2>1. \A h \in Goroutines : ref[h][1] = "settled" => ref[h] # Deepest(n - 1)
    BY BucketKind
  <2> HIDE DEF l, r
  <2> QED
    BY <1>1, <1>2, <2>1 DEF SettledInsertsLand
<1>7. SendersAreOthers'
  BY <1>2 DEF SendersAreOthers
<1>8. LocalStays'
  <2>1. SUFFICES ASSUME LocalID \notin Ids(Removable) PROVE Local \in peers'[r]
    BY <1>1 DEF LocalStays, SplitReady
  <2>2. Local \in peers[ref[g]]
    BY <1>1, <2>1 DEF LocalStays
  <2>3. Prefix(Local) # n - 1
    BY <1>1, PrefixOfContact, ContactIDs, KeyBitsAssumption
  <2> QED
    BY <1>1, <2>2, <2>3
<1>9. Capacity'
  <2>1. IsFiniteSet(peers[ref[g]]) /\ Cardinality(peers[ref[g]]) <= K
    BY <1>1, PeersFinite DEF Capacity
  <2>2. peers'[l] \in SUBSET peers[ref[g]] /\ peers'[r] \in SUBSET peers[ref[g]]
    BY <1>1
  <2>3. /\ Cardinality(peers'[l]) <= Cardinality(peers[ref[g]])
        /\ Cardinality(peers'[r]) <= Cardinality(peers[ref[g]])
        /\ Cardinality(peers'[l]) \in Nat /\ Cardinality(peers'[r]) \in Nat
        /\ Cardinality(peers[ref[g]]) \in Nat
    BY <2>1, <2>2, FS_Subset, FS_CardinalityType
  <2>4. Cardinality(peers'[l]) <= K /\ Cardinality(peers'[r]) <= K
    BY <2>1, <2>3, KAssumption
  <2> HIDE DEF l, r
  <2> QED
    BY <1>1, <2>4 DEF Capacity
<1> QED
  BY <1>4, <1>5, <1>6, <1>7, <1>8, <1>9

\* An insert keeps to the capacity, to one address a node and to the local node.
LEMMA InsertContents ==
    ASSUME Shape, Shape', Contents, NEW g \in Goroutines, Insert(g)
    PROVE  Contents'
<1> USE DEF Shape, Contents
<1> DEFINE b == ref[g]
           c == call[g].from
           put == Without(peers[b], c) \cup {c}
           kept == Nearest(put, LocalID)
<1>1. /\ b \in Bucket /\ c \in Contacts /\ c.id \in NodeID /\ c.id # LocalID /\ Belongs(c, b)
      /\ peers' = [peers EXCEPT ![b] = kept]
      /\ isFull' = [isFull EXCEPT ![b] = Full(kept)]
      /\ UNCHANGED buckets
  BY CallType, ContactIDs DEF TypeOK, Writing, Insert, SettledInsertsLand, SendersAreOthers
<1>2. \A h \in Goroutines : pc'[h] \in {"split", "insert", "inserting"} =>
         h # g /\ pc'[h] = pc[h] /\ call'[h] = call[h] /\ ref'[h] = ref[h]
  BY AfterUpdateEffect DEF Insert
<1>3. kept \subseteq put /\ put \subseteq peers[b] \cup {c}
  BY NearestSubset, WithoutSubset
<1>4. HaveIDs(put) /\ Distinct(put)
  <2>1. HaveIDs(peers[b]) /\ Distinct(peers[b])
    BY <1>1, PeersFinite DEF BucketIds
  <2> QED
    BY <1>1, <2>1 DEF HaveIDs, Distinct, Without
<1>5. IsFiniteSet(put) /\ Cardinality(put) <= K + 1
  <2>1. IsFiniteSet(peers[b]) /\ Cardinality(peers[b]) <= K /\ Cardinality(peers[b]) \in Nat
    BY <1>1, PeersFinite, FS_CardinalityType DEF Capacity
  <2>2. Without(peers[b], c) \in SUBSET peers[b]
    BY WithoutSubset
  <2>3. /\ IsFiniteSet(Without(peers[b], c))
        /\ Cardinality(Without(peers[b], c)) <= Cardinality(peers[b])
        /\ Cardinality(Without(peers[b], c)) \in Nat
    BY <2>1, <2>2, FS_Subset, FS_CardinalityType
  <2>4. c \notin Without(peers[b], c)
    BY DEF Without
  <2>5. IsFiniteSet(put) /\ Cardinality(put) = Cardinality(Without(peers[b], c)) + 1
    BY <2>3, <2>4, FS_AddElement
  <2> QED
    BY <2>1, <2>3, <2>5, KAssumption
<1>6. Cardinality(kept) <= K
  BY <1>4, <1>5, NearestBound, LocalIDAssumption
<1>7. Local \in peers[b] => Local \in kept
  <2>1. SUFFICES ASSUME Local \in peers[b] PROVE Local \in put
    BY <1>4, NearestKeepsLocal
  <2> QED
    BY <1>1, <2>1, ContactIDs DEF Without
<1> HIDE DEF b, c, put, kept
<1>8. /\ peers'[b] = kept /\ isFull'[b] = Full(kept)
      /\ \A d \in Bucket \ {b} : peers'[d] = peers[d] /\ isFull'[d] = isFull[d]
  BY <1>1 DEF TypeOK
<1>9. Placement'
  BY <1>1, <1>3, <1>8 DEF Placement
<1>10. BucketIds'
  BY <1>1, <1>3, <1>4, <1>8 DEF BucketIds, Distinct
<1>11. SettledInsertsLand' /\ SendersAreOthers'
  BY <1>1, <1>2 DEF SettledInsertsLand, SendersAreOthers, Attached
<1>12. LocalStays'
  <2>1. \A d \in Bucket : Local \in peers[d] => Local \in peers'[d]
    BY <1>7, <1>8
  <2>2. buckets[Len(buckets)] \in Bucket
    BY DEF TypeOK, BucketOrder
  <2> QED
    BY <1>1, <2>1, <2>2 DEF LocalStays, SplitReady
<1>13. Capacity'
  BY <1>6, <1>8 DEF Capacity
<1> QED
  BY <1>9, <1>10, <1>11, <1>12, <1>13

\* A removal empties nothing but the place of the contact removed.
LEMMA RemoveContents ==
    ASSUME Shape, Shape', Contents, NEW g \in Goroutines, Remove(g)
    PROVE  Contents'
<1> USE DEF Shape, Contents
<1> DEFINE b == ref[g]
           left == Without(peers[b], call[g].from)
<1>1. /\ b \in Bucket /\ call[g].from \in Removable /\ left \subseteq peers[b]
      /\ peers' = [peers EXCEPT ![b] = left]
      /\ isFull' = [isFull EXCEPT ![b] = IF left = peers[b] THEN @ ELSE Full(left)]
      /\ UNCHANGED buckets
  BY CallType, WithoutSubset DEF TypeOK, Removing, Remove
<1>2. \A h \in Goroutines : pc'[h] \in {"split", "insert", "inserting"} =>
         h # g /\ pc'[h] = pc[h] /\ call'[h] = call[h] /\ ref'[h] = ref[h]
  BY DEF TypeOK, Remove, Return, Goto
<1>3. LocalID \notin Ids(Removable) /\ Local \in peers[b] => Local \in left
  BY <1>1, ContactIDs DEF Without, Ids
<1>4. Cardinality(left) <= K
  <2>1. IsFiniteSet(peers[b]) /\ Cardinality(peers[b]) <= K /\ Cardinality(peers[b]) \in Nat
    BY <1>1, PeersFinite, FS_CardinalityType DEF Capacity
  <2>2. Cardinality(left) <= Cardinality(peers[b]) /\ Cardinality(left) \in Nat
    BY <1>1, <2>1, FS_Subset, FS_CardinalityType
  <2> QED
    BY <2>1, <2>2, KAssumption
<1>5. isFull[b] = Full(peers[b])
  BY <1>1 DEF Capacity
<1> HIDE DEF b, left
<1>6. /\ peers'[b] = left /\ isFull'[b] = Full(left)
      /\ \A d \in Bucket \ {b} : peers'[d] = peers[d] /\ isFull'[d] = isFull[d]
  BY <1>1, <1>5 DEF TypeOK
<1>7. Placement' /\ BucketIds'
  BY <1>1, <1>6 DEF Placement, BucketIds, Distinct
<1>8. SettledInsertsLand' /\ SendersAreOthers'
  BY <1>1, <1>2 DEF SettledInsertsLand, SendersAreOthers, Attached
<1>9. LocalStays'
  <2>1. buckets[Len(buckets)] \in Bucket
    BY DEF TypeOK, BucketOrder
  <2> QED
    BY <1>1, <1>3, <1>6, <2>1 DEF LocalStays, SplitReady
<1>10. Capacity'
  BY <1>4, <1>6 DEF Capacity
<1> QED
  BY <1>7, <1>8, <1>9, <1>10

\* Every step keeps the contents.
LEMMA StepContents == Shape /\ Shape' /\ Contents /\ [Next]_vars => Contents'
<1> SUFFICES ASSUME Shape, Shape', Contents, [Next]_vars PROVE Contents'
  OBVIOUS
<1>1. ASSUME NEW g \in Goroutines, Begin(g) \/ Step(g) PROVE Contents'
  BY <1>1, OtherStepsContents, SplitContents, InsertContents, RemoveContents DEF Step
<1>2. CASE UNCHANGED vars
  BY <1>2, ContentsUnchanged DEF vars, table
<1> QED
  BY <1>1, <1>2 DEF Next

\* What is in which bucket: the strengthening that the next theorems follow from.
THEOREM ContentsInvariant == Spec => []Contents
BY InitShape, StepShape, InitContents, StepContents, PTL DEF Spec

-----------------------------------------------------------------------------
(* What follows from the two layers.                                       *)

\* A contact is in the bucket its prefix selects in every reachable state.
THEOREM PlacementHolds == Spec => []Placement
BY ContentsInvariant, PTL DEF Contents

\* An insert that chose a settled bucket always writes to an attached bucket.
THEOREM SettledInsertsAlwaysLand == Spec => []SettledInsertsLand
BY ContentsInvariant, PTL DEF Contents

\* The local node stays in the deepest bucket, so that Split never refuses.
THEOREM LocalAlwaysStays == Spec => []LocalStays
BY ContentsInvariant, PTL DEF Contents

\* No bucket ever holds more than K peers and isFull is never out of date.
THEOREM CapacityHolds == Spec => []Capacity
BY ContentsInvariant, PTL DEF Contents

\* The attached buckets cover disjoint sets of prefixes.
LEMMA BelongsToOne ==
    ASSUME Shape, NEW i \in 1 .. Len(buckets), NEW j \in 1 .. Len(buckets), i < j,
           NEW c, NEW d, c.id = d.id, Prefix(c) \in Nat, Belongs(c, buckets[i])
    PROVE  ~Belongs(d, buckets[j])
<1> USE DEF Shape
<1>1. Prefix(d) = Prefix(c) /\ Prefix(c) \in Nat
  BY DEF Prefix
<1>2. Len(buckets) \in 1 .. KeyBits /\ i - 1 \in BitIndex /\ j - 1 \in BitIndex
  BY KeyBitsAssumption DEF BucketOrder, BitIndex
<1>3. buckets[i] = Settled(i - 1)
  BY <1>2 DEF BucketOrder
<1>4. Prefix(c) = i - 1
  BY <1>2, <1>3, BucketKind, BucketType DEF Belongs
<1>5. CASE j < Len(buckets)
  <2>1. buckets[j] = Settled(j - 1)
    BY <1>2, <1>5 DEF BucketOrder
  <2> QED
    BY <1>1, <1>2, <1>4, <2>1, BucketKind, BucketType DEF Belongs
<1>6. CASE j = Len(buckets)
  <2>1. buckets[j] = Deepest(j - 1)
    BY <1>2, <1>6 DEF BucketOrder
  <2> QED
    BY <1>1, <1>2, <1>4, <2>1, BucketKind, BucketType DEF Belongs
<1> QED
  BY <1>2, <1>5, <1>6

\* Two entries of one node would be in the same bucket, which has only one.
LEMMA UniqueInTable == Shape /\ Contents => UniqueIds
<1> SUFFICES ASSUME Shape, Contents, NEW c \in InTable, NEW d \in InTable, c.id = d.id
             PROVE  c = d
  BY DEF UniqueIds
<1> USE DEF Shape, Contents
<1>1. PICK i \in 1 .. Len(buckets) : c \in peers[buckets[i]]
  BY DEF InTable, Attached
<1>2. PICK j \in 1 .. Len(buckets) : d \in peers[buckets[j]]
  BY DEF InTable, Attached
<1>3. buckets[i] \in Bucket /\ buckets[j] \in Bucket
  BY DEF TypeOK
<1>4. Belongs(c, buckets[i]) /\ Belongs(d, buckets[j])
  BY <1>1, <1>2, <1>3 DEF Placement
<1>5. Prefix(c) \in Nat /\ Prefix(d) \in Nat
  BY <1>1, <1>2, <1>3, PeersFinite, PrefixOfContact
<1>6. i = j
  <2>1. ~(i < j)
    BY <1>4, <1>5, BelongsToOne
  <2>2. ~(j < i)
    BY <1>4, <1>5, BelongsToOne
  <2> QED
    BY <2>1, <2>2 DEF BucketOrder
<1> QED
  BY <1>1, <1>2, <1>3, <1>6 DEF BucketIds, Distinct

\* A node is known by one address at a time, over the whole table.
THEOREM IdsAreUnique == Spec => []UniqueIds
BY ShapeInvariant, ContentsInvariant, UniqueInTable, PTL

\* A split moves contacts from bucket to bucket and changes nothing else.
LEMMA SplitKeepsTable ==
    ASSUME Shape, NEW g \in Goroutines, Split(g)
    PROVE  InTable' = InTable
<1> DEFINE n == Len(buckets)
           l == Settled(n - 1)
           r == Deepest(n)
           old == Attached \ {Deepest(n - 1)}
<1>1. /\ ref[g] = Deepest(n - 1) /\ Deepest(n - 1) \in Attached
      /\ l \in Bucket /\ r \in Bucket
      /\ Attached' = old \cup {l, r}
      /\ \A b \in old : b # l /\ b # r
      /\ \A b \in Bucket \ {l, r} : peers'[b] = peers[b]
      /\ peers'[l] = {c \in peers[ref[g]] : Prefix(c) = n - 1}
      /\ peers'[r] = {c \in peers[ref[g]] : Prefix(c) # n - 1}
  BY SplitEffect
<1>2. old \subseteq Bucket
  BY DEF Shape, TypeOK, Attached
<1>3. \A c : c \in InTable <=> (\E b \in old : c \in peers[b]) \/ c \in peers[ref[g]]
  <2>1. \A c : c \in InTable <=> \E b \in Attached : c \in peers[b]
    BY DEF InTable
  <2> HIDE DEF n, l, r
  <2> QED
    BY <1>1, <2>1
<1>4. \A c : c \in InTable' <=>
               (\E b \in old : c \in peers'[b]) \/ c \in peers'[l] \/ c \in peers'[r]
  <2>1. \A c : c \in InTable' <=> \E b \in Attached' : c \in peers'[b]
    BY DEF InTable
  <2> HIDE DEF n, l, r, old
  <2> QED
    BY <1>1, <2>1
<1>5. \A b \in old : peers'[b] = peers[b]
  BY <1>1, <1>2
<1>6. \A c : c \in peers'[l] \/ c \in peers'[r] <=> c \in peers[ref[g]]
  BY <1>1
<1> HIDE DEF n, l, r, old
<1>7. \A c : c \in InTable <=> c \in InTable'
  BY <1>3, <1>4, <1>5, <1>6
<1> QED
  BY <1>7

\* An insert that finds its contact among kept, or K closer ones of its class, takes effect.
LEMMA EffectOfInsert ==
    ASSUME Shape, NEW g \in Goroutines, NEW S, IsFiniteSet(S), HaveIDs(S), call[g].from \in S,
           \A d \in Nearest(S, LocalID) :
              d \in InTable' /\ Prefix(d) = Prefix(call[g].from),
           IsFiniteSet(InTable')
    PROVE  TakesEffect(g)
<1> DEFINE c      == call[g].from
           kept   == Nearest(S, LocalID)
           rivals == {d \in InTable' : Prefix(d) = Prefix(c)}
<1>1. CASE c \in kept
  BY <1>1 DEF TakesEffect
<1>2. CASE c \notin kept
  <2>1. Cardinality(Closer(kept, c, LocalID)) >= K
    BY <1>2, NearestComplete, LocalIDAssumption
  <2>2. Closer(kept, c, LocalID) \in SUBSET Closer(rivals, c, LocalID)
    <3>1. kept \in SUBSET rivals
      OBVIOUS
    <3> HIDE DEF kept, rivals
    <3> QED
      BY <3>1 DEF Closer
  <2>3. IsFiniteSet(Closer(rivals, c, LocalID))
    BY FS_Subset DEF Closer
  <2>4. /\ Cardinality(Closer(kept, c, LocalID)) <= Cardinality(Closer(rivals, c, LocalID))
        /\ Cardinality(Closer(kept, c, LocalID)) \in Nat
        /\ Cardinality(Closer(rivals, c, LocalID)) \in Nat
    BY <2>2, <2>3, FS_Subset, FS_CardinalityType
  <2>5. Cardinality(Closer(rivals, c, LocalID)) >= K
    BY <2>1, <2>4, KAssumption
  <2> QED
    BY <2>5 DEF TakesEffect
<1> QED
  BY <1>1, <1>2

\* Only Insert ends an insert.
LEMMA InsertsOnly ==
    ASSUME Shape, Next, NEW g \in Goroutines, Inserts(g)
    PROVE  Insert(g)
<1> USE DEF Shape
<1>1. PICK h \in Goroutines : Begin(h) \/ Step(h)
  BY DEF Next
<1>2. pc[g] = "inserting" /\ pc'[g] # "inserting"
  BY DEF Inserts
<1>3. CASE Begin(h)
  BY <1>2, <1>3 DEF Begin, Ping, FindNode, Drop, Call, Goto, TypeOK
<1>4. CASE UpdateSelf(h) \/ SplitRefused(h) \/ Insert(h)
  BY <1>2, <1>4, AfterUpdateEffect DEF UpdateSelf, SplitRefused, Insert
<1>5. CASE UpdateFindsFull(h) \/ Split(h) \/ Remove(h) \/ ClosestReturn(h)
  BY <1>2, <1>5 DEF UpdateFindsFull, Split, Remove, ClosestReturn, Return, Goto, TypeOK
<1>6. CASE UpdateFindsRoom(h) \/ InsertLock(h) \/ RemoveFinds(h) \/ ClosestLock(h) \/ ClosestRead(h)
  BY <1>2, <1>6 DEF UpdateFindsRoom, InsertLock, RemoveFinds, ClosestLock, ClosestRead, Goto, TypeOK
<1> QED
  BY <1>1, <1>3, <1>4, <1>5, <1>6 DEF Step

\* The contacts in the table are finitely many.
LEMMA TableFinite ==
    ASSUME TypeOK
    PROVE  IsFiniteSet(InTable)
<1>1. \A b \in Attached : b \in Bucket
  BY DEF TypeOK, Attached
<1>2. InTable \in SUBSET (Contacts \cup {Local})
  BY <1>1, PeersFinite DEF InTable
<1>3. IsFiniteSet(Contacts \cup {Local})
  BY ContactsAssumption, FS_AddElement
<1> QED
  BY <1>2, <1>3, FS_Subset

\* The same after a step.
LEMMA TableFiniteAfter ==
    ASSUME TypeOK'
    PROVE  IsFiniteSet(InTable')
<1>1. \A b \in Attached' : b \in Bucket
  BY DEF TypeOK, Attached
<1>2. \A b \in Bucket : peers'[b] \in SUBSET (Contacts \cup {Local})
  BY DEF TypeOK
<1>3. InTable' \in SUBSET (Contacts \cup {Local})
  BY <1>1, <1>2 DEF InTable
<1>4. IsFiniteSet(Contacts \cup {Local})
  BY ContactsAssumption, FS_AddElement
<1> QED
  BY <1>3, <1>4, FS_Subset

\* Whatever other goroutines do, an insert into a settled bucket takes effect: the bucket
\* is in the table for good and holds nobody but the contact's class.
THEOREM SettledUpdatesTakeEffect == Spec => SettledUpdateTakesEffect
<1>1. ASSUME Shape, Shape', Contents, Next,
             NEW g \in Goroutines, Inserts(g), ref[g][1] = "settled"
      PROVE  TakesEffect(g)
  <2> USE DEF Shape
  <2> DEFINE c   == call[g].from
             b   == ref[g]
             put == Without(peers[b], c) \cup {c}
  <2>1. Insert(g) /\ pc[g] = "inserting"
    BY <1>1, InsertsOnly DEF Inserts
  <2>2. c \in Contacts /\ c.id \in NodeID /\ b \in Bucket
    BY <1>1, <2>1, CallType, ContactIDs DEF Writing, TypeOK
  <2>3. Belongs(c, b) /\ b \in Attached
    BY <1>1, <2>1 DEF Contents, SettledInsertsLand
  <2>4. IsFiniteSet(peers[b]) /\ HaveIDs(peers[b])
    BY <1>1, <2>2, PeersFinite
  <2>5. IsFiniteSet(put) /\ HaveIDs(put) /\ c \in put
    <3>1. IsFiniteSet(Without(peers[b], c))
      BY <2>4, WithoutSubset, FS_Subset
    <3>2. IsFiniteSet(put)
      BY <3>1, FS_AddElement
    <3> QED
      BY <2>2, <2>4, <3>2 DEF HaveIDs, Without
  <2>6. \A d \in put : Prefix(d) = Prefix(c)
    BY <1>1, <2>2, <2>3 DEF Contents, Placement, Belongs, Without
  <2>7. \A d \in Nearest(put, LocalID) : d \in InTable'
    <3>1. peers' = [peers EXCEPT ![b] = Nearest(put, LocalID)] /\ Attached' = Attached
      BY <2>1 DEF Insert, Attached
    <3>2. peers'[b] = Nearest(put, LocalID)
      BY <1>1, <2>2, <3>1 DEF TypeOK
    <3> HIDE DEF put, b
    <3> QED
      BY <2>3, <3>1, <3>2 DEF InTable
  <2>8. \A d \in Nearest(put, LocalID) : d \in put
    BY NearestSubset
  <2>9. IsFiniteSet(InTable')
    BY <1>1, TableFiniteAfter
  <2> HIDE DEF put
  <2> QED
    BY <1>1, <2>5, <2>6, <2>7, <2>8, <2>9, EffectOfInsert
<1>2. Shape /\ Shape' /\ Contents /\ [Next]_vars
      => [\A g \in Goroutines : Inserts(g) /\ ref[g][1] = "settled" => TakesEffect(g)]_vars
  BY <1>1
<1> QED
  BY <1>2, ShapeInvariant, ContentsInvariant, PTL DEF Spec, SettledUpdateTakesEffect

\* No split loses or invents a contact, whatever inserts are going on.
THEOREM SplitsKeepContacts == Spec => SplitKeepsContacts
<1>1. Shape /\ [Next]_vars => [buckets' # buckets => InTable' = InTable]_vars
  <2> SUFFICES ASSUME Shape, Next, buckets' # buckets
               PROVE  InTable' = InTable
    BY DEF vars, table
  <2>1. PICK g \in Goroutines : Split(g)
    BY DEF Next, Begin, Ping, FindNode, Drop, Call, Step, UpdateSelf, UpdateFindsFull,
           UpdateFindsRoom, SplitRefused, InsertLock, Insert, RemoveFinds, Remove,
           ClosestLock, ClosestRead, ClosestReturn, table
  <2> QED
    BY <2>1, SplitKeepsTable
<1> QED
  BY <1>1, ShapeInvariant, PTL DEF Spec, SplitKeepsContacts

-----------------------------------------------------------------------------
(* Walks: what ClosestK has read so far.                                   *)

Walks ==
    \A g \in Goroutines :
        /\ pc[g] # "walking" => walk[g] = 0 /\ all[g] = {}
        /\ walk[g] <= Len(buckets)
        /\ pc[g] = "walking" => \A b \in Bucket : bLock[b] # NoOne => b \in touched[g]
        /\ \A c \in all[g] : c = Nil \/ \E j \in 1 .. walk[g] : Belongs(c, buckets[j])
        /\ \A i \in 1 .. walk[g] : buckets[i] \notin touched[g] =>
              \A c \in peers[buckets[i]] : c.id \notin {LocalID, ZeroID} => c \in all[g]

\* Nobody walks the buckets at the start.
LEMMA InitWalks == Init => Walks
BY DEF Init, Walks

\* While a goroutine walks the buckets nobody else holds rt.lock.
LEMMA WalkerExcludes ==
    ASSUME Shape, NEW g \in Goroutines, pc[g] \in {"split", "removing", "walking"},
           NEW h \in Goroutines, pc[h] = "walking"
    PROVE  h = g
BY DEF Shape, LocksHeld

\* A split and a removal hold rt.lock, so that nobody is walking.
LEMMA ExclusiveWalks ==
    ASSUME Shape, Shape', Walks, NEW g \in Goroutines, Split(g) \/ Remove(g)
    PROVE  Walks'
<1>1. pc[g] \in {"split", "removing"} /\ UNCHANGED reader
  BY DEF Split, LeftPeers, RightPeers, Remove
<1>2. \A h \in Goroutines : pc[h] # "walking"
  BY <1>1, WalkerExcludes
<1>3. \A h \in Goroutines : pc'[h] # "walking"
  BY <1>2 DEF Split, LeftPeers, RightPeers, Remove, Return, Goto, Shape, TypeOK
<1>4. \A h \in Goroutines : walk'[h] = 0 /\ all'[h] = {}
  BY <1>1, <1>2 DEF Walks, reader
<1>5. Len(buckets') >= 0
  BY DEF Shape, BucketOrder
<1> QED
  BY <1>3, <1>4, <1>5 DEF Walks

\* What leaves the table, b.lock and the readers alone disturbs no walk.
LEMMA UnchangedWalks ==
    ASSUME Shape, Walks, UNCHANGED <<table, bLock, reader>>,
           \A h \in Goroutines : pc'[h] = "walking" <=> pc[h] = "walking"
    PROVE  Walks'
BY DEF Walks, table, reader

\* The steps that neither write to a bucket nor read one.
LEMMA OtherStepsWalks ==
    ASSUME Shape, Walks, NEW g \in Goroutines,
           \/ Begin(g) \/ UpdateSelf(g) \/ UpdateFindsFull(g) \/ UpdateFindsRoom(g)
           \/ SplitRefused(g) \/ RemoveFinds(g)
    PROVE  Walks'
<1> USE DEF Shape
<1>1. CASE Begin(g)
  BY <1>1, UnchangedWalks DEF Begin, Ping, FindNode, Drop, Call, Goto, TypeOK, locks
<1>2. CASE UpdateSelf(g)
  BY <1>2, AfterUpdateEffect, UnchangedWalks DEF UpdateSelf, locks
<1>3. CASE UpdateFindsFull(g)
  BY <1>3, UnchangedWalks DEF UpdateFindsFull, Goto, TypeOK
<1>4. CASE UpdateFindsRoom(g)
  BY <1>4, UnchangedWalks DEF UpdateFindsRoom, Goto, TypeOK, locks
<1>5. CASE SplitRefused(g)
  BY <1>5, AfterUpdateEffect, UnchangedWalks DEF SplitRefused
<1>6. CASE RemoveFinds(g)
  BY <1>6, UnchangedWalks DEF RemoveFinds, Goto, TypeOK
<1> QED
  BY <1>1, <1>2, <1>3, <1>4, <1>5, <1>6

\* An insert that begins makes its bucket one that was touched.
LEMMA InsertLockWalks ==
    ASSUME Shape, Walks, NEW g \in Goroutines, InsertLock(g)
    PROVE  Walks'
<1>1. \A h \in Goroutines :
        /\ pc'[h] = "walking" <=> pc[h] = "walking"
        /\ touched'[h] = IF pc[h] = "walking" THEN touched[h] \cup {ref[g]} ELSE touched[h]
  BY DEF InsertLock, Goto, Shape, TypeOK
<1>2. \A b \in Bucket : bLock'[b] # NoOne => bLock[b] # NoOne \/ b = ref[g]
  BY DEF InsertLock, Shape, TypeOK
<1>3. UNCHANGED <<buckets, peers, walk, all>>
  BY DEF InsertLock, table
<1>4. \A h \in Goroutines : touched[h] \subseteq touched'[h]
  BY <1>1
<1> SUFFICES ASSUME NEW h \in Goroutines
             PROVE  /\ pc[h] # "walking" => walk[h] = 0 /\ all[h] = {}
                    /\ walk[h] <= Len(buckets)
                    /\ pc[h] = "walking" =>
                          \A b \in Bucket : bLock'[b] # NoOne => b \in touched'[h]
                    /\ \A c \in all[h] : c = Nil \/ \E j \in 1 .. walk[h] : Belongs(c, buckets[j])
                    /\ \A i \in 1 .. walk[h] : buckets[i] \notin touched'[h] =>
                          \A c \in peers[buckets[i]] :
                              c.id \notin {LocalID, ZeroID} => c \in all[h]
  BY <1>1, <1>3 DEF Walks
<1>5. pc[h] = "walking" => \A b \in Bucket : bLock'[b] # NoOne => b \in touched'[h]
  <2>1. pc[h] = "walking" => \A b \in Bucket : bLock[b] # NoOne => b \in touched[h]
    BY DEF Walks
  <2> QED
    BY <1>1, <1>2, <2>1
<1>6. \A i \in 1 .. walk[h] : buckets[i] \notin touched'[h] =>
        \A c \in peers[buckets[i]] : c.id \notin {LocalID, ZeroID} => c \in all[h]
  BY <1>4 DEF Walks
<1> QED
  BY <1>5, <1>6 DEF Walks

\* An insert writes only to a bucket that was touched.
LEMMA InsertWalks ==
    ASSUME Shape, Walks, NEW g \in Goroutines, Insert(g)
    PROVE  Walks'
<1> USE DEF Shape
<1>1. /\ ref[g] \in Bucket /\ bLock[ref[g]] # NoOne
      /\ \A b \in Bucket \ {ref[g]} : peers'[b] = peers[b]
      /\ \A b \in Bucket : bLock'[b] # NoOne => bLock[b] # NoOne
      /\ UNCHANGED <<buckets, walk, all, touched>>
  BY NoOneAssumption DEF Insert, LocksHeld, TypeOK, reader
<1>2. \A h \in Goroutines : pc'[h] = "walking" <=> pc[h] = "walking"
  BY AfterUpdateEffect DEF Insert
<1>3. ASSUME NEW h \in Goroutines, NEW i \in 1 .. walk[h], buckets[i] \notin touched[h]
      PROVE  peers'[buckets[i]] = peers[buckets[i]]
  <2>1. walk[h] # 0 /\ walk[h] \in Nat
    BY <1>3 DEF TypeOK
  <2>2. pc[h] = "walking"
    BY <2>1 DEF Walks
  <2>3. buckets[i] # ref[g]
    BY <1>1, <1>3, <2>2 DEF Walks
  <2>4. buckets[i] \in Bucket
    BY <1>3, <2>1 DEF TypeOK, BucketOrder, Walks
  <2> QED
    BY <1>1, <2>3, <2>4
<1> QED
  BY <1>1, <1>2, <1>3 DEF Walks

\* A walk begins with nothing read.
LEMMA ClosestLockWalks ==
    ASSUME Shape, Walks, NEW g \in Goroutines, ClosestLock(g)
    PROVE  Walks'
<1>1. /\ pc[g] # "walking" /\ pc'[g] = "walking"
      /\ touched'[g] = {b \in Bucket : bLock[b] # NoOne}
      /\ \A h \in Goroutines \ {g} : pc'[h] = pc[h] /\ touched'[h] = touched[h]
      /\ UNCHANGED <<buckets, peers, bLock, walk, all>>
  BY DEF ClosestLock, Goto, Shape, TypeOK, table
<1>2. walk[g] = 0 /\ all[g] = {}
  BY <1>1 DEF Walks
<1> QED
  BY <1>1, <1>2 DEF Walks

\* A walk ends with nothing left over.
LEMMA ClosestReturnWalks ==
    ASSUME Shape, Walks, NEW g \in Goroutines, ClosestReturn(g)
    PROVE  Walks'
<1>1. /\ pc'[g] # "walking" /\ walk'[g] = 0 /\ all'[g] = {}
      /\ \A h \in Goroutines \ {g} : /\ pc'[h] = pc[h] /\ walk'[h] = walk[h]
                                     /\ all'[h] = all[h] /\ touched'[h] = touched[h]
      /\ UNCHANGED <<buckets, peers, bLock>>
  BY DEF ClosestReturn, Return, Goto, Shape, TypeOK, table
<1>2. Len(buckets) >= 0
  BY DEF Shape, BucketOrder
<1> QED
  BY <1>1, <1>2 DEF Walks

\* All that ClosestK sees of a bucket belongs there, the new contact included.
LEMMA ObservedBelongs ==
    ASSUME Shape, Contents, NEW b \in Bucket, NEW seen \in Observable(b), NEW c \in seen, c # Nil
    PROVE  Belongs(c, b)
<1> USE DEF Shape, Contents
<1>1. CASE bLock[b] = NoOne
  BY <1>1 DEF Observable, Placement
<1>2. CASE bLock[b] # NoOne
  <2>1. /\ bLock[b] \in Goroutines /\ pc[bLock[b]] = "inserting" /\ ref[bLock[b]] = b
    BY <1>2 DEF TypeOK, LocksHeld
  <2>2. Belongs(call[bLock[b]].from, b)
    BY <2>1 DEF SettledInsertsLand
  <2>3. seen \in Torn(b, call[bLock[b]].from)
    BY <1>2 DEF Observable
  <2>4. c \in peers[b] \cup {call[bLock[b]].from}
    BY <2>3 DEF Torn, Without
  <2> QED
    BY <2>2, <2>4 DEF Placement
<1> QED
  BY <1>1, <1>2

\* One more bucket read: its contacts are in no other, so none is taken for seen.
LEMMA ClosestReadWalks ==
    ASSUME Shape, Contents, Walks, NEW g \in Goroutines, ClosestRead(g)
    PROVE  Walks'
<1> USE DEF Shape
<1> DEFINE n == walk[g] + 1
           b == buckets[n]
<1>1. /\ pc[g] = "walking" /\ n \in 1 .. Len(buckets) /\ walk[g] \in Nat /\ b \in Bucket
      /\ Len(buckets) \in Nat
  BY DEF ClosestRead, TypeOK, BucketOrder
<1>2. PICK seen \in Observable(b) : all' = [all EXCEPT ![g] = @ \cup Unseen(seen, @)]
  BY DEF ClosestRead
<1>3. /\ walk'[g] = n /\ all'[g] = all[g] \cup Unseen(seen, all[g])
      /\ \A h \in Goroutines \ {g} : walk'[h] = walk[h] /\ all'[h] = all[h]
      /\ UNCHANGED <<buckets, peers, bLock, pc, touched>>
  BY <1>2 DEF ClosestRead, TypeOK, table, locks
<1>4. ASSUME NEW c \in all'[g], c # Nil
      PROVE  \E j \in 1 .. n : Belongs(c, buckets[j])
  <2>1. CASE c \in all[g]
    <3>1. PICK j \in 1 .. walk[g] : Belongs(c, buckets[j])
      BY <1>4, <2>1 DEF Walks
    <3>2. j \in 1 .. n
      BY <1>1
    <3> QED
      BY <3>1, <3>2
  <2>2. CASE c \in seen
    <3>1. Belongs(c, b)
      BY <1>1, <1>4, <2>2, ObservedBelongs
    <3>2. n \in 1 .. n
      BY <1>1
    <3> QED
      BY <3>1, <3>2
  <2> QED
    BY <1>3, <1>4, <2>1, <2>2 DEF Unseen
<1>5. ASSUME b \notin touched[g], NEW c \in peers[b], c.id \notin {LocalID, ZeroID}
      PROVE  c \in all'[g]
  <2>1. bLock[b] = NoOne
    BY <1>1, <1>5 DEF Walks
  <2>2. seen = peers[b]
    BY <2>1 DEF Observable
  <2>3. Prefix(c) \in Nat
    BY <1>1, <1>5, PeersFinite, PrefixOfContact
  <2>4. ASSUME NEW a \in all[g], a.id = c.id PROVE FALSE
    <3>1. a # Nil
      BY <1>5, <2>4, ContactIDs
    <3>2. PICK j \in 1 .. walk[g] : Belongs(a, buckets[j])
      BY <2>4, <3>1 DEF Walks
    <3>3. j \in 1 .. Len(buckets) /\ j < n
      BY <1>1
    <3>4. Prefix(a) \in Nat
      BY <2>3, <2>4 DEF Prefix
    <3>5. Belongs(c, b)
      BY <1>1, <1>5 DEF Contents, Placement
    <3> QED
      BY <1>1, <2>4, <3>2, <3>3, <3>4, <3>5, BelongsToOne
  <2>5. c # Nil
    BY <1>5, ContactIDs
  <2> QED
    BY <1>3, <1>5, <2>2, <2>4, <2>5 DEF Unseen, Ids
<1>6. ASSUME NEW i \in 1 .. n, buckets[i] \notin touched[g],
             NEW c \in peers[buckets[i]], c.id \notin {LocalID, ZeroID}
      PROVE  c \in all'[g]
  <2>1. CASE i = n
    BY <1>5, <1>6, <2>1
  <2>2. CASE i # n
    <3>1. i \in 1 .. walk[g]
      BY <1>1, <2>2
    <3> QED
      BY <1>3, <1>6, <3>1 DEF Walks
  <2> QED
    BY <2>1, <2>2
<1> HIDE DEF n, b
<1>7. n <= Len(buckets)
  BY <1>1
<1> QED
  BY <1>1, <1>3, <1>4, <1>6, <1>7 DEF Walks

\* Every step keeps the walks.
LEMMA StepWalks == Shape /\ Shape' /\ Contents /\ Walks /\ [Next]_vars => Walks'
<1> SUFFICES ASSUME Shape, Shape', Contents, Walks, [Next]_vars PROVE Walks'
  OBVIOUS
<1>1. ASSUME NEW g \in Goroutines, Begin(g) \/ Step(g) PROVE Walks'
  BY <1>1, OtherStepsWalks, ExclusiveWalks, InsertLockWalks, InsertWalks, ClosestLockWalks,
     ClosestReadWalks, ClosestReturnWalks DEF Step
<1>2. CASE UNCHANGED vars
  BY <1>2, UnchangedWalks DEF vars, locks
<1> QED
  BY <1>1, <1>2 DEF Next

\* When every bucket is read, the reply is the nearest of all contacts read.
LEMMA WalkComplete == Shape /\ Walks => QuietContactsReturned
<1> SUFFICES ASSUME Shape, Walks, NEW g \in Goroutines, Returning(g),
                    NEW b \in Attached \ touched[g], NEW c \in peers[b],
                    c.id \notin {LocalID, ZeroID}, c \notin Reply(g)
             PROVE  Cardinality(Closer(Reply(g), c, call[g].target)) >= K
  BY DEF QuietContactsReturned
<1> USE DEF Shape
<1>1. PICK i \in 1 .. Len(buckets) : b = buckets[i]
  BY DEF Attached
<1>2. c \in all[g]
  BY <1>1 DEF Walks, Returning
<1>3. IsFiniteSet(all[g]) /\ HaveIDs(all[g])
  <2>1. all[g] \in SUBSET (Contacts \cup {Nil})
    BY DEF TypeOK
  <2>2. IsFiniteSet(Contacts \cup {Nil})
    BY ContactsAssumption, FS_AddElement
  <2>3. Nil.id \in NodeID
    BY DEF Nil, ZeroID, NodeID
  <2> QED
    BY <2>1, <2>2, <2>3, FS_Subset, ContactIDs DEF HaveIDs
<1>4. call[g].target \in NodeID
  BY CallType, TargetsAssumption DEF Returning, Answering
<1> QED
  BY <1>2, <1>3, <1>4, NearestComplete DEF Reply

\* The third layer.
THEOREM WalksInvariant == Spec => []Walks
<1>1. Init => Shape /\ Contents /\ Walks
  BY InitShape, InitContents, InitWalks
<1>2. (Shape /\ Contents /\ Walks) /\ [Next]_vars => (Shape /\ Contents /\ Walks)'
  BY StepShape, StepContents, StepWalks
<1> QED
  BY <1>1, <1>2, PTL DEF Spec

\* ClosestK returns every contact of a bucket nobody wrote to while it ran,
\* unless K others it returns are closer to the target.
THEOREM QuietContactsAreReturned == Spec => []QuietContactsReturned
BY ShapeInvariant, WalksInvariant, WalkComplete, PTL

-----------------------------------------------------------------------------
(* Called by one goroutine at a time, RoutingTable implements PeerClasses:  *)
(* every step of the table is a step of its contacts' classes or is not     *)
(* seen there.                                                             *)
(*                                                                         *)
(* Splitting moves contacts between buckets, so it is not seen.  An insert  *)
(* into a settled bucket sorts and cuts exactly one class.  One into the    *)
(* deepest bucket, which holds several classes and the local node, cuts     *)
(* nobody: it is split until there is room, or until the last bit, and      *)
(* there it can hold the local node and one more.                           *)

\* One caller at a time; nobody removes the local node, without which no bucket
\* is split; and it leaves room for another in the deepest bucket.
OneCaller ==
    /\ \A g, h \in Goroutines : g = h
    /\ LocalID \notin Ids(Removable)
    /\ K > 1

\* The contacts in the buckets that ClosestK has read, but for the local node.
ReadSoFar(g) ==
    {c \in UNION {peers[buckets[j]] : j \in 1 .. walk[g]} : c.id # LocalID}

\* The bucket a call has chosen stays the one to choose, and what ClosestK has
\* collected is what the buckets it has read hold.
Undisturbed ==
    \A g \in Goroutines :
        /\ pc[g] \in {"insert", "inserting"} =>
              ref[g] = BucketAt(Prefix(call[g].from)) /\ ~MustSplit(ref[g])
        /\ pc[g] = "removing" => ref[g] = BucketAt(KBucketIndex(LocalID, call[g].from.id))
        /\ pc[g] = "walking" => all[g] = ReadSoFar(g)

-----------------------------------------------------------------------------
(* The operators of PeerClasses are those of RoutingTable.                 *)

\* The abstract specification counts with the same Cardinality.
LEMMA SameCardinality == ASSUME NEW S PROVE Promised!Cardinality(S) = Cardinality(S)
BY DEF Promised!Cardinality, Cardinality

\* and orders identifiers by the same distance,
LEMMA SameDistance ==
    ASSUME NEW a, NEW b, NEW t
    PROVE  Promised!CompareXorDistance(a, b, t) <=> CompareXorDistance(a, b, t)
BY DEF Promised!CompareXorDistance, Promised!LessDistance, Promised!XorDistance,
       Promised!DifferFirstAt, Promised!BitIndex,
       CompareXorDistance, LessDistance, XorDistance, DifferFirstAt, BitIndex

\* and means the same by the other operators on contacts.
LEMMA SameOperators ==
    /\ \A S, t : Promised!Nearest(S, t) = Nearest(S, t)
    /\ \A S, c : Promised!Without(S, c) = Without(S, c)
    /\ \A c : Promised!Prefix(c) = Prefix(c)
    /\ Promised!BitIndex = BitIndex
    /\ Promised!NoCall = NoCall
<1>1. ASSUME NEW S, NEW t PROVE Promised!Nearest(S, t) = Nearest(S, t)
  <2>1. \A c : Promised!Closer(S, c, t) = Closer(S, c, t)
    BY SameDistance DEF Promised!Closer, Closer
  <2>2. \A c : Promised!Cardinality(Promised!Closer(S, c, t)) = Cardinality(Closer(S, c, t))
    BY <2>1, SameCardinality
  <2> QED
    BY <2>2 DEF Promised!Nearest, Nearest
<1>2. \A S, c : Promised!Without(S, c) = Without(S, c)
  BY DEF Promised!Without, Without
<1>3. ASSUME NEW c PROVE Promised!Prefix(c) = Prefix(c)
  BY DEF Promised!Prefix, Promised!SharedPrefixLength, Promised!DifferFirstAt, Promised!BitIndex,
         Prefix, SharedPrefixLength, DifferFirstAt, BitIndex
<1>4. Promised!BitIndex = BitIndex /\ Promised!NoCall = NoCall
  BY DEF Promised!BitIndex, BitIndex, Promised!NoCall, NoCall, Promised!Local, Local
<1> QED
  BY <1>1, <1>2, <1>3, <1>4

-----------------------------------------------------------------------------
(* Undisturbed.                                                            *)

\* With one caller nobody is inserting while it does something else.
LEMMA NobodyInserting ==
    ASSUME OneCaller, Shape, NEW g \in Goroutines, pc[g] # "inserting", NEW b \in Bucket
    PROVE  bLock[b] = NoOne /\ Observable(b) = {peers[b]}
<1>1. \A h \in Goroutines : h = g
  BY DEF OneCaller
<1>2. bLock[b] \in Goroutines \cup {NoOne}
  BY DEF Shape, TypeOK
<1>3. bLock[b] = NoOne
  BY <1>1, <1>2 DEF Shape, LocksHeld
<1> QED
  BY <1>3 DEF Observable

\* One more bucket read adds all its contacts but the local node.
LEMMA ReadUndisturbed ==
    ASSUME OneCaller, Shape, Contents, Undisturbed, NEW g \in Goroutines, ClosestRead(g)
    PROVE  /\ all'[g] = {c \in UNION {peers[buckets[j]] : j \in 1 .. walk[g] + 1} : c.id # LocalID}
           /\ all'[g] = ReadSoFar(g)'
           /\ walk'[g] = walk[g] + 1
<1> USE DEF Shape
<1> DEFINE n == walk[g] + 1
           b == buckets[n]
<1>1. /\ pc[g] = "walking" /\ n \in 1 .. Len(buckets) /\ walk[g] \in Nat /\ b \in Bucket
      /\ Len(buckets) \in Nat
  BY DEF ClosestRead, TypeOK, BucketOrder
<1>2. Observable(b) = {peers[b]}
  BY <1>1, NobodyInserting
<1>3. all'[g] = all[g] \cup Unseen(peers[b], all[g]) /\ walk'[g] = n
  BY <1>2 DEF ClosestRead, TypeOK
<1>4. all[g] = {c \in UNION {peers[buckets[j]] : j \in 1 .. walk[g]} : c.id # LocalID}
  BY <1>1 DEF Undisturbed, ReadSoFar
<1>5. ASSUME NEW c \in peers[b], NEW a \in all[g], a.id = c.id PROVE FALSE
  <2>1. PICK j \in 1 .. walk[g] : a \in peers[buckets[j]]
    BY <1>4
  <2>2. j \in 1 .. Len(buckets) /\ j < n /\ buckets[j] \in Bucket
    BY <1>1 DEF TypeOK
  <2>3. Belongs(a, buckets[j]) /\ Belongs(c, b)
    BY <1>1, <2>1, <2>2 DEF Contents, Placement
  <2>4. Prefix(a) \in Nat
    BY <2>1, <2>2, PeersFinite, PrefixOfContact
  <2> QED
    BY <1>1, <1>5, <2>2, <2>3, <2>4, BelongsToOne
<1>6. \A c, d \in peers[b] : c.id = d.id => c = d
  BY <1>1 DEF Contents, BucketIds, Distinct
<1>7. \A c \in peers[b] : c = Nil => ZeroID \notin Ids(peers[b] \ {Nil})
  BY <1>6 DEF Ids, Nil
<1>8. Unseen(peers[b], all[g]) = {c \in peers[b] : c.id # LocalID}
  BY <1>5, <1>7 DEF Unseen, Ids
<1>9. \A j : j \in 1 .. n <=> j \in 1 .. walk[g] \/ j = n
  BY <1>1
<1> HIDE DEF n
<1>10. \A c : c \in UNION {peers[buckets[j]] : j \in 1 .. n} <=>
               c \in UNION {peers[buckets[j]] : j \in 1 .. walk[g]} \/ c \in peers[b]
  BY <1>9
<1> HIDE DEF b
<1>11. all'[g] = {c \in UNION {peers[buckets[j]] : j \in 1 .. n} : c.id # LocalID}
  BY <1>3, <1>4, <1>8, <1>10
<1>12. UNCHANGED <<buckets, peers>>
  BY DEF ClosestRead, table
<1>13. ReadSoFar(g)' = {c \in UNION {peers[buckets[j]] : j \in 1 .. n} : c.id # LocalID}
  BY <1>3, <1>12 DEF ReadSoFar
<1> QED
  BY <1>3, <1>11, <1>13 DEF n

\* A step of the only caller keeps Undisturbed.
LEMMA UndisturbedStep ==
    OneCaller /\ Shape /\ Contents /\ Walks /\ Undisturbed /\ [Next]_vars => Undisturbed'
<1> SUFFICES ASSUME OneCaller, Shape, Contents, Walks, Undisturbed, [Next]_vars
             PROVE  Undisturbed'
  OBVIOUS
<1>1. CASE UNCHANGED vars
  BY <1>1 DEF vars, table, reader, Undisturbed, BucketAt, MustSplit, ReadSoFar
<1> USE DEF Shape
<1>2. ASSUME NEW g \in Goroutines, Begin(g) \/ Step(g) PROVE Undisturbed'
  <2>1. \A h \in Goroutines : h = g
    BY DEF OneCaller
  <2>2. SUFFICES
          ( /\ pc[g] \in {"insert", "inserting"} =>
                  ref[g] = BucketAt(Prefix(call[g].from)) /\ ~MustSplit(ref[g])
            /\ pc[g] = "removing" => ref[g] = BucketAt(KBucketIndex(LocalID, call[g].from.id))
            /\ pc[g] = "walking" => all[g] = ReadSoFar(g) )'
    BY <2>1 DEF Undisturbed
  <2>3. CASE Begin(g)
    BY <2>3 DEF Begin, Ping, FindNode, Drop, Call, Goto, TypeOK
  <2>4. CASE UpdateSelf(g) \/ SplitRefused(g) \/ Insert(g)
    BY <2>4, AfterUpdateEffect DEF UpdateSelf, SplitRefused, Insert
  <2>5. CASE UpdateFindsFull(g) \/ Split(g) \/ Remove(g) \/ ClosestReturn(g)
    BY <2>5 DEF UpdateFindsFull, Split, LeftPeers, RightPeers, Remove, ClosestReturn, Return,
                Goto, TypeOK
  <2>6. CASE UpdateFindsRoom(g)
    BY <2>6 DEF UpdateFindsRoom, Goto, TypeOK, table, BucketAt, MustSplit
  <2>7. CASE InsertLock(g)
    <3>1. /\ pc[g] = "insert" /\ pc'[g] = "inserting"
          /\ UNCHANGED <<buckets, isFull, call, ref>>
      BY <2>7 DEF InsertLock, Goto, TypeOK, table
    <3>2. ref[g] = BucketAt(Prefix(call[g].from)) /\ ~MustSplit(ref[g])
      BY <3>1 DEF Undisturbed
    <3> QED
      BY <3>1, <3>2 DEF BucketAt, MustSplit
  <2>8. CASE RemoveFinds(g)
    BY <2>8 DEF RemoveFinds, Goto, TypeOK, table, BucketAt
  <2>9. CASE ClosestLock(g)
    <3>1. pc'[g] = "walking" /\ walk'[g] = 0 /\ all'[g] = {}
      BY <2>9 DEF ClosestLock, Goto, TypeOK, Walks
    <3>2. 1 .. 0 = {}
      OBVIOUS
    <3>3. ReadSoFar(g)' = {}
      BY <3>1, <3>2 DEF ReadSoFar
    <3> QED
      BY <3>1, <3>3
  <2>10. CASE ClosestRead(g)
    BY <2>10, ReadUndisturbed DEF ClosestRead, table
  <2> QED
    BY <1>2, <2>3, <2>4, <2>5, <2>6, <2>7, <2>8, <2>9, <2>10 DEF Step
<1> QED
  BY <1>1, <1>2 DEF Next

\* With one caller nothing comes between choosing a bucket and using it.
THEOREM UndisturbedInvariant == ASSUME OneCaller PROVE Spec => []Undisturbed
<1>1. Init => Undisturbed
  BY DEF Init, Undisturbed
<1> QED
  BY <1>1, ShapeInvariant, ContentsInvariant, WalksInvariant, UndisturbedStep, PTL DEF Spec

-----------------------------------------------------------------------------
(* The classes in the buckets.                                             *)

ClassOf(d) == {c \in InTable \ {Local} : Prefix(c) = d}

Classes == [d \in BitIndex |-> ClassOf(d)]

\* A set of at most K contacts is not cut.
LEMMA NearestAll ==
    ASSUME NEW S, IsFiniteSet(S), Cardinality(S) <= K, HaveIDs(S), NEW t \in NodeID
    PROVE  Nearest(S, t) = S
<1> SUFFICES ASSUME NEW c \in S PROVE Cardinality(Closer(S, c, t)) < K
  BY DEF Nearest
<1>1. ~CompareXorDistance(c.id, c.id, t)
  BY CloserIsStrictOrder DEF HaveIDs
<1>2. Closer(S, c, t) \in SUBSET (S \ {c})
  BY <1>1 DEF Closer
<1>3. IsFiniteSet(S \ {c}) /\ Cardinality(S \ {c}) = Cardinality(S) - 1
  BY FS_RemoveElement
<1>4. IsFiniteSet(Closer(S, c, t)) /\ Cardinality(Closer(S, c, t)) <= Cardinality(S \ {c})
  BY <1>2, <1>3, FS_Subset
<1>5. Cardinality(Closer(S, c, t)) \in Nat /\ Cardinality(S) \in Nat
  BY <1>4, FS_CardinalityType
<1> QED
  BY <1>3, <1>4, <1>5, KAssumption

\* Only one identifier shares all bits but the last with another.
LEMMA LastBitDecides ==
    ASSUME NEW l \in NodeID, NEW a \in NodeID, NEW b \in NodeID, a # l, b # l,
           SharedPrefixLength(l, a) = KeyBits - 1, SharedPrefixLength(l, b) = KeyBits - 1
    PROVE  a = b
<1> DEFINE last == KeyBits - 1
<1>1. last \in BitIndex /\ DifferFirstAt(l, a, last) /\ DifferFirstAt(l, b, last)
  BY PrefixOfDifferent
<1>2. ASSUME NEW i \in BitIndex PROVE a[i] = b[i]
  <2>1. i < last \/ i = last
    BY KeyBitsAssumption DEF BitIndex
  <2>2. a[i] \in {0, 1} /\ b[i] \in {0, 1} /\ l[i] \in {0, 1}
    BY DEF NodeID
  <2> QED
    BY <1>1, <2>1, <2>2 DEF DifferFirstAt
<1> QED
  BY <1>2 DEF NodeID

\* Two elements are two.
LEMMA PairSize ==
    ASSUME NEW x, NEW y, x # y
    PROVE  IsFiniteSet({x, y}) /\ Cardinality({x, y}) = 2
<1>1. IsFiniteSet({x}) /\ Cardinality({x}) = 1
  BY FS_Singleton
<1>2. y \notin {x} /\ {x} \cup {y} = {x, y}
  OBVIOUS
<1>3. IsFiniteSet({x} \cup {y}) /\ Cardinality({x} \cup {y}) = Cardinality({x}) + 1
  BY <1>1, <1>2, FS_AddElement
<1> QED
  BY <1>1, <1>2, <1>3

\* The contacts of a class are all in one bucket, the one its index selects.
LEMMA ClassInBucket ==
    ASSUME Shape, Contents, NEW p \in BitIndex
    PROVE  /\ \A b \in Attached : \A c \in peers[b] : Prefix(c) = p => b = BucketAt(p)
           /\ \/ BucketAt(p) = Settled(p)
              \/ BucketAt(p) = buckets[Len(buckets)]
<1> USE DEF Shape
<1>1. p \in Nat /\ Len(buckets) \in 1 .. KeyBits
  BY KeyBitsAssumption DEF BitIndex, BucketOrder
<1>2. ASSUME NEW b \in Attached, NEW c \in peers[b], Prefix(c) = p PROVE b = BucketAt(p)
  <2>1. PICK j \in 1 .. Len(buckets) : b = buckets[j]
    BY DEF Attached
  <2>2. b \in Bucket /\ j - 1 \in BitIndex
    BY <1>1, <2>1, KeyBitsAssumption DEF TypeOK, BitIndex
  <2>3. Belongs(c, b)
    BY <2>2 DEF Contents, Placement
  <2>4. CASE j < Len(buckets)
    <3>1. b = Settled(j - 1)
      BY <1>1, <2>1, <2>4 DEF BucketOrder
    <3>2. p = j - 1
      BY <1>2, <2>2, <2>3, <3>1, BucketKind, BucketType DEF Belongs
    <3> QED
      BY <1>1, <2>1, <2>4, <3>2 DEF BucketAt
  <2>5. CASE j = Len(buckets)
    <3>1. b = Deepest(j - 1)
      BY <1>1, <2>1, <2>5 DEF BucketOrder
    <3>2. p >= j - 1
      BY <1>2, <2>2, <2>3, <3>1, BucketKind, BucketType DEF Belongs
    <3> QED
      BY <1>1, <2>1, <2>5, <3>2 DEF BucketAt
  <2> QED
    BY <1>1, <2>1, <2>4, <2>5
<1>3. BucketAt(p) = Settled(p) \/ BucketAt(p) = buckets[Len(buckets)]
  <2>1. CASE p + 1 < Len(buckets)
    <3>1. p + 1 \in 1 .. Len(buckets) /\ p + 1 - 1 = p
      BY <1>1, <2>1
    <3> QED
      BY <1>1, <2>1, <3>1 DEF BucketAt, BucketOrder
  <2>2. CASE p + 1 >= Len(buckets)
    BY <1>1, <2>2 DEF BucketAt
  <2> QED
    BY <1>1, <2>1, <2>2
<1> QED
  BY <1>2, <1>3

\* The local node is listed once, under the one address of its own.
LEMMA OneLocal ==
    ASSUME OneCaller, Shape, Contents
    PROVE  \A c \in InTable : c.id = LocalID => c = Local
<1>1. Local \in peers[buckets[Len(buckets)]]
  BY DEF OneCaller, Contents, LocalStays
<1>2. Local \in InTable
  BY <1>1 DEF InTable, Attached, Shape, BucketOrder
<1> QED
  BY <1>2, UniqueInTable, ContactIDs DEF UniqueIds

\* A contact in the table has an identifier.
LEMMA InTableIDs ==
    ASSUME Shape, NEW c \in InTable
    PROVE  /\ c \in Contacts \cup {Local} /\ c.id \in NodeID
           /\ Prefix(c) \in 0 .. KeyBits
           /\ c.id # LocalID <=> Prefix(c) \in BitIndex
<1>1. PICK b \in Attached : c \in peers[b]
  BY DEF InTable
<1>2. b \in Bucket
  BY DEF Attached, Shape, TypeOK
<1>3. c \in Contacts \cup {Local}
  BY <1>1, <1>2 DEF Shape, TypeOK
<1> QED
  BY <1>3, ContactIDs, PrefixOfContact, KeyBitsAssumption DEF BitIndex

\* What the classes hold are the contacts of the table but the local node.
LEMMA KnownIsTable ==
    ASSUME OneCaller, Shape, Contents
    PROVE  /\ \A d \in BitIndex : ClassOf(d) = {c \in InTable : Prefix(c) = d}
           /\ UNION {Classes[d] : d \in BitIndex} = {c \in InTable : c.id # LocalID}
<1>1. Prefix(Local) = KeyBits /\ KeyBits \notin BitIndex
  BY PrefixOfContact, ContactIDs, KeyBitsAssumption DEF BitIndex
<1>2. \A d \in BitIndex : ClassOf(d) = {c \in InTable : Prefix(c) = d}
  BY <1>1 DEF ClassOf
<1>3. \A c \in InTable : c.id # LocalID <=> Prefix(c) \in BitIndex
  BY InTableIDs
<1> QED
  BY <1>2, <1>3 DEF Classes

\* The deepest bucket, when it is not to be split, has room for one more.
LEMMA DeepestHasRoom ==
    ASSUME OneCaller, Shape, Contents, NEW b, b = buckets[Len(buckets)], ~MustSplit(b),
           NEW c \in Contacts, c.id # LocalID, Belongs(c, b)
    PROVE  LET put == Without(peers[b], c) \cup {c}
           IN  IsFiniteSet(put) /\ Cardinality(put) <= K /\ HaveIDs(put)
<1> USE DEF Shape
<1> DEFINE put == Without(peers[b], c) \cup {c}
<1>1. Len(buckets) \in 1 .. KeyBits /\ b \in Bucket /\ b \in Attached
  BY DEF BucketOrder, TypeOK, Attached
<1>2. b = Deepest(Len(buckets) - 1) /\ Len(buckets) - 1 \in BitIndex
  BY <1>1, KeyBitsAssumption DEF BucketOrder, BitIndex
<1>3. b[1] = "deepest" /\ Depth(b) = Len(buckets) - 1
  BY <1>2, BucketKind, BucketType
<1>4. IsFiniteSet(peers[b]) /\ HaveIDs(peers[b]) /\ Cardinality(peers[b]) \in Nat
  BY <1>1, PeersFinite, FS_CardinalityType
<1>5. c.id \in NodeID /\ Prefix(c) \in BitIndex /\ Prefix(c) \in Nat
  BY ContactIDs, PrefixOfContact, KeyBitsAssumption DEF BitIndex
<1>6. HaveIDs(put)
  BY <1>4, <1>5 DEF HaveIDs, Without
<1>7. CASE ~isFull[b]
  <2>1. Cardinality(peers[b]) < K
    <3>1. isFull[b] = Full(peers[b])
      BY <1>1 DEF Contents, Capacity
    <3>2. ~Full(peers[b])
      BY <1>7, <3>1
    <3> QED
      BY <1>4, <3>2, KAssumption DEF Full
  <2>2. Without(peers[b], c) \in SUBSET peers[b] /\ c \notin Without(peers[b], c)
    BY DEF Without
  <2>3. /\ IsFiniteSet(Without(peers[b], c))
        /\ Cardinality(Without(peers[b], c)) <= Cardinality(peers[b])
        /\ Cardinality(Without(peers[b], c)) \in Nat
    BY <1>4, <2>2, FS_Subset, FS_CardinalityType
  <2>4. IsFiniteSet(put) /\ Cardinality(put) = Cardinality(Without(peers[b], c)) + 1
    BY <2>2, <2>3, FS_AddElement
  <2> QED
    BY <1>4, <1>6, <2>1, <2>3, <2>4, KAssumption
<1>8. CASE isFull[b]
  <2>1. Depth(b) = KeyBits - 1 /\ Len(buckets) = KeyBits
    BY <1>1, <1>3, <1>8, KeyBitsAssumption DEF MustSplit
  <2>2. Prefix(c) = KeyBits - 1
    BY <1>3, <1>5, <2>1, KeyBitsAssumption DEF Belongs, BitIndex
  <2>3. ASSUME NEW x \in peers[b], x.id # c.id PROVE x = Local
    <3>1. x \in InTable
      BY <1>1 DEF InTable
    <3>2. Belongs(x, b) /\ x.id \in NodeID
      BY <1>1, <1>4 DEF Contents, Placement, HaveIDs
    <3>3. CASE x.id = LocalID
      BY <3>1, <3>3, OneLocal
    <3>4. CASE x.id # LocalID
      <4>1. Prefix(x) \in BitIndex
        BY <3>1, <3>4, InTableIDs
      <4>2. Prefix(x) = KeyBits - 1
        BY <1>3, <2>1, <3>2, <4>1, KeyBitsAssumption DEF Belongs, BitIndex
      <4>3. SharedPrefixLength(LocalID, x.id) = KeyBits - 1
        BY <4>2 DEF Prefix
      <4>4. SharedPrefixLength(LocalID, c.id) = KeyBits - 1
        BY <2>2 DEF Prefix
      <4> QED
        BY <1>5, <2>3, <3>2, <3>4, <4>3, <4>4, LocalIDAssumption, LastBitDecides
    <3> QED
      BY <3>3, <3>4
  <2>4. put \in SUBSET {Local, c}
    BY <2>3 DEF Without
  <2>5. Local # c
    BY ContactIDs
  <2>6. IsFiniteSet({Local, c}) /\ Cardinality({Local, c}) = 2
    BY <2>5, PairSize
  <2>7. IsFiniteSet(put) /\ Cardinality(put) <= 2
    BY <2>4, <2>6, FS_Subset
  <2>8. Cardinality(put) \in Nat
    BY <2>7, FS_CardinalityType
  <2> QED
    BY <1>6, <2>7, <2>8, KAssumption DEF OneCaller
<1> QED
  BY <1>7, <1>8

-----------------------------------------------------------------------------
(* What the steps that write do to the classes.                            *)

\* Noting a sender changes the class of its prefix and no other.
LEMMA InsertNotes ==
    ASSUME OneCaller, Shape, Contents, Undisturbed, NEW g \in Goroutines, Insert(g)
    PROVE  LET c == call[g].from
           IN  /\ Prefix(c) \in BitIndex /\ c.id # LocalID
               /\ Classes' = [Classes EXCEPT
                     ![Prefix(c)] = Nearest(Without(@, c) \cup {c}, LocalID)]
<1> USE DEF Shape
<1> DEFINE c == call[g].from
           b == ref[g]
           put == Without(peers[b], c) \cup {c}
           kept == Nearest(put, LocalID)
           rest == {x \in InTable : x \notin peers[b]}
           noted(S) == Nearest(Without(S, c) \cup {c}, LocalID)
<1>1. pc[g] = "inserting" /\ c \in Contacts /\ c.id # LocalID /\ c.id \in NodeID
  BY CallType, ContactIDs DEF Insert, Writing, Contents, SendersAreOthers
<1>2. PICK p \in BitIndex : p = Prefix(c)
  BY <1>1, PrefixOfContact
<1>3. b = BucketAt(p) /\ ~MustSplit(b)
  BY <1>1, <1>2 DEF Undisturbed
<1>4. b \in Bucket /\ b \in Attached /\ Belongs(c, b)
  BY <1>1, <1>2, <1>3, SelectedBelongs
<1>5. \A x \in peers[b] : x.id = c.id => Prefix(x) = p
  BY <1>2 DEF Prefix
<1>6. InTable' = rest \cup kept
  <2>1. peers' = [peers EXCEPT ![b] = kept] /\ Attached' = Attached
    BY DEF Insert, Attached
  <2>2. \A a \in Attached : a \in Bucket
    BY DEF Attached, TypeOK
  <2>3. \A a \in Attached \ {b} : peers'[a] = peers[a]
    BY <2>1, <2>2, <1>4 DEF TypeOK
  <2>4. peers'[b] = kept
    BY <2>1, <1>4 DEF TypeOK
  <2>5. ASSUME NEW a \in Attached \ {b}, NEW x \in peers[a] PROVE x \notin peers[b]
    <3>1. PICK i \in 1 .. Len(buckets) : a = buckets[i]
      BY DEF Attached
    <3>2. PICK j \in 1 .. Len(buckets) : b = buckets[j]
      BY <1>4 DEF Attached
    <3>3. i < j \/ j < i
      BY <2>5, <3>1, <3>2 DEF BucketOrder
    <3>4. x \in peers[b] => Belongs(x, a) /\ Belongs(x, b) /\ Prefix(x) \in Nat
      BY <1>4, <2>2, <2>5, PeersFinite, PrefixOfContact DEF Contents, Placement
    <3> HIDE DEF b
    <3> QED
      BY <3>1, <3>2, <3>3, <3>4, BelongsToOne
  <2>6. \A x : x \in InTable' <=> \E a \in Attached : x \in peers'[a]
    BY <2>1 DEF InTable
  <2>7. \A x : x \in rest <=> \E a \in Attached \ {b} : x \in peers[a]
    BY <2>5, <1>4 DEF InTable
  <2> HIDE DEF b, kept, rest
  <2>8. \A x : x \in InTable' <=> x \in rest \/ x \in kept
    BY <2>3, <2>4, <2>6, <2>7, <1>4
  <2> QED
    BY <2>8
<1>7. \A x \in rest : Prefix(x) # p
  <2>1. ASSUME NEW x \in rest PROVE Prefix(x) # p
    <3>1. PICK a \in Attached : x \in peers[a]
      BY <2>1 DEF InTable
    <3> QED
      BY <1>2, <1>3, <2>1, <3>1, ClassInBucket
  <2> QED
    BY <2>1
<1>8. \A d \in BitIndex : ClassOf(d) = {x \in InTable : Prefix(x) = d}
  BY KnownIsTable
<1>9. Local \notin {c} /\ \A d \in BitIndex : Prefix(Local) # d
  BY <1>1, PrefixOfContact, ContactIDs, KeyBitsAssumption DEF BitIndex
<1>10. \A d \in BitIndex : ClassOf(d)' = {x \in rest \cup kept : Prefix(x) = d}
  BY <1>6, <1>9 DEF ClassOf
<1>11. kept \subseteq put
  BY NearestSubset
<1>12. \A x \in peers[b] : x \in InTable
  BY <1>4 DEF InTable
<1>13. CASE b = Settled(p)
  <2>1. \A x \in peers[b] : Prefix(x) = p
    BY <1>2, <1>4, <1>13, BucketKind, BucketType DEF Contents, Placement, Belongs
  <2>2. \A x \in put : Prefix(x) = p
    BY <1>2, <2>1 DEF Without
  <2>3. ClassOf(p) = peers[b]
    BY <1>2, <1>7, <1>8, <1>12, <2>1
  <2>4. ClassOf(p)' = kept
    <3> HIDE DEF kept, put, rest
    <3> QED
      BY <1>2, <1>7, <1>10, <1>11, <2>2
  <2>5. ASSUME NEW d \in BitIndex, d # p PROVE ClassOf(d)' = ClassOf(d)
    BY <1>8, <1>10, <1>11, <2>1, <2>2, <2>5
  <2> HIDE DEF b
  <2>6. ClassOf(p)' = noted(ClassOf(p))
    BY <2>3, <2>4
  <2> QED
    BY <1>1, <1>2, <2>5, <2>6 DEF Classes
<1>14. CASE b = buckets[Len(buckets)]
  <2>1. IsFiniteSet(put) /\ Cardinality(put) <= K /\ HaveIDs(put)
    BY <1>1, <1>3, <1>4, <1>14, DeepestHasRoom
  <2>2. kept = put
    BY <2>1, NearestAll, LocalIDAssumption
  <2>3. ASSUME NEW d \in BitIndex, d # p PROVE ClassOf(d)' = ClassOf(d)
    <3>1. \A x : x \in put /\ Prefix(x) = d <=> x \in peers[b] /\ Prefix(x) = d
      BY <1>2, <1>5, <2>3 DEF Without
    <3> QED
      BY <1>8, <1>10, <1>12, <2>2, <3>1
  <2> DEFINE Q == Without(ClassOf(p), c) \cup {c}
  <2>4. \A x : x \in ClassOf(p) <=> x \in peers[b] /\ Prefix(x) = p
    BY <1>2, <1>7, <1>8, <1>12
  <2>5. \A x : x \in Q <=> x \in put /\ Prefix(x) = p
    BY <1>2, <2>4 DEF Without
  <2>6. ClassOf(p)' = Q
    BY <1>2, <1>7, <1>10, <2>2, <2>5
  <2>7. Nearest(Q, LocalID) = Q
    <3>1. Q \in SUBSET put
      BY <2>5
    <3>2. IsFiniteSet(Q) /\ Cardinality(Q) <= Cardinality(put)
      BY <2>1, <3>1, FS_Subset
    <3>3. Cardinality(Q) \in Nat /\ Cardinality(put) \in Nat
      BY <2>1, <3>2, FS_CardinalityType
    <3>4. Cardinality(Q) <= K /\ HaveIDs(Q)
      BY <2>1, <3>1, <3>2, <3>3, KAssumption DEF HaveIDs
    <3> HIDE DEF Q
    <3> QED
      BY <3>2, <3>4, NearestAll, LocalIDAssumption
  <2>8. ClassOf(p)' = noted(ClassOf(p))
    BY <2>6, <2>7
  <2> HIDE DEF b
  <2> QED
    BY <1>1, <1>2, <2>3, <2>8 DEF Classes
<1>15. b = Settled(p) \/ b = buckets[Len(buckets)]
  BY <1>2, <1>3, ClassInBucket
<1> QED
  BY <1>13, <1>14, <1>15

\* Removing a contact takes it out of the class of its prefix.
LEMMA RemoveForgets ==
    ASSUME OneCaller, Shape, Contents, Undisturbed, NEW g \in Goroutines, Remove(g)
    PROVE  LET c == call[g].from
           IN  /\ Prefix(c) \in BitIndex /\ c.id # LocalID
               /\ Classes' = [Classes EXCEPT ![Prefix(c)] = Without(@, c)]
<1> USE DEF Shape
<1> DEFINE c == call[g].from
           b == ref[g]
<1>1. pc[g] = "removing" /\ c \in Removable /\ c.id # LocalID
  BY CallType DEF Remove, Removing, OneCaller, Ids
<1>2. PICK p \in BitIndex : p = Prefix(c) /\ KBucketIndex(LocalID, c.id) = p
  BY <1>1, PrefixOfContact
<1>3. b = BucketAt(p)
  BY <1>1, <1>2 DEF Undisturbed
<1>4. b \in Bucket /\ \A a \in Attached : a \in Bucket
  BY DEF TypeOK, Attached
<1>5. /\ \A a \in Attached \ {b} : peers'[a] = peers[a]
      /\ peers'[b] = Without(peers[b], c)
      /\ Attached' = Attached
  BY <1>4 DEF Remove, TypeOK, Attached
<1>6. ASSUME NEW a \in Attached \ {b}, NEW x \in peers[a] PROVE x.id # c.id
  <2>1. Prefix(x) # p
    BY <1>2, <1>3, <1>6, ClassInBucket
  <2> QED
    BY <1>2, <2>1 DEF Prefix
<1>7. InTable' = Without(InTable, c)
  <2>1. \A x : x \in InTable' <=> \E a \in Attached : x \in peers'[a]
    BY <1>5 DEF InTable
  <2>2. \A x : x \in Without(InTable, c) <=> \E a \in Attached : x \in peers[a] /\ x.id # c.id
    BY DEF InTable, Without
  <2>3. \A x : x \in peers'[b] <=> x \in peers[b] /\ x.id # c.id
    BY <1>5 DEF Without
  <2> HIDE DEF b, c
  <2>4. \A x : x \in InTable' <=> x \in Without(InTable, c)
    BY <1>5, <1>6, <2>1, <2>2, <2>3
  <2> QED
    BY <2>4
<1>8. ClassOf(p)' = Without(ClassOf(p), c)
  BY <1>7 DEF ClassOf, Without
<1>9. ASSUME NEW d \in BitIndex, d # p PROVE ClassOf(d)' = ClassOf(d)
  <2>1. \A x : x.id = c.id => Prefix(x) = p
    BY <1>2 DEF Prefix
  <2> QED
    BY <1>7, <1>9, <2>1 DEF ClassOf, Without
<1> HIDE DEF b
<1> QED
  BY <1>1, <1>2, <1>8, <1>9 DEF Classes

\* A table that is the same has the same classes.
LEMMA SameTable == InTable' = InTable => Classes' = Classes
BY DEF Classes, ClassOf

\* ClosestK has collected everybody when it has read every bucket.
LEMMA AllRead ==
    ASSUME OneCaller, Shape, Contents, Undisturbed, NEW g \in Goroutines, ClosestRead(g),
           walk[g] + 1 = Len(buckets)
    PROVE  all'[g] = UNION {Classes[d] : d \in BitIndex}
<1>1. all'[g] = {c \in UNION {peers[buckets[j]] : j \in 1 .. Len(buckets)} : c.id # LocalID}
  BY ReadUndisturbed
<1>2. InTable = UNION {peers[buckets[j]] : j \in 1 .. Len(buckets)}
  BY DEF InTable, Attached
<1> QED
  BY <1>1, <1>2, KnownIsTable

-----------------------------------------------------------------------------
(* The steps, as PeerClasses sees them.                                    *)

Owing == [g \in Goroutines |-> Owed(g)]

Answers == [g \in Goroutines |-> IF Returning(g) THEN {Reply(g)} ELSE {}]

Stutters == UNCHANGED <<Classes, Owing, call, Answers>>

\* What a call owes by its place in the code.
LEMMA OwedAt ==
    ASSUME NEW g
    PROVE  /\ pc[g] = "idle" => Owed(g) = "nothing"
           /\ pc[g] \in Writing => Owed(g) = "note"
           /\ pc[g] \in Removing => Owed(g) = "forget"
           /\ pc[g] \in Answering => Owed(g) = "answer"
BY DEF Owed, Writing, Removing, Answering

\* The same in the next state.
LEMMA OwedNext ==
    ASSUME NEW g
    PROVE  /\ pc'[g] = "idle" => Owed(g)' = "nothing"
           /\ pc'[g] \in Writing => Owed(g)' = "note"
           /\ pc'[g] \in Removing => Owed(g)' = "forget"
           /\ pc'[g] \in Answering => Owed(g)' = "answer"
BY DEF Owed, Writing, Removing, Answering

\* With one caller a function on Goroutines is what it is for that one.
LEMMA OneOwes ==
    ASSUME OneCaller, NEW g \in Goroutines, NEW what, Owed(g)' = what
    PROVE  Owing[g] = Owed(g) /\ Owing' = [Owing EXCEPT ![g] = what]
BY DEF OneCaller, Owing

\* A step that ends no operation maps to a step without an answer.
LEMMA NoAnswer ==
    ASSUME OneCaller, NEW g \in Goroutines, ~Returning(g)
    PROVE  /\ Answers[g] = {}
           /\ ~Returning(g)' => Answers' = Answers
           /\ Returning(g)' => Answers' = [Answers EXCEPT ![g] = {Reply(g)'}]
BY DEF OneCaller, Answers

\* A call begins.
LEMMA BeginSeen ==
    ASSUME OneCaller, Shape, NEW g \in Goroutines, Begin(g)
    PROVE  Promised!Next
<1>1. ASSUME NEW op, NEW c, NEW t, NEW label, NEW what, Call(g, op, c, t, label),
             \/ label = "update" /\ what = "note"
             \/ label = "remove" /\ what = "forget"
      PROVE  Promised!Request(g, op, c, t, what)
  <2>1. pc[g] = "idle" /\ pc'[g] = label /\ InTable' = InTable
    BY <1>1 DEF Call, Goto, Shape, TypeOK, table, InTable, Attached
  <2>2. Owed(g) = "nothing" /\ Owed(g)' = what
    BY <1>1, <2>1, OwedAt, OwedNext DEF Writing, Removing
  <2>3. Owing[g] = "nothing" /\ Owing' = [Owing EXCEPT ![g] = what]
    BY <2>2, OneOwes
  <2>4. Classes' = Classes /\ Answers' = Answers
    <3>1. ~Returning(g) /\ ~Returning(g)'
      BY <1>1, <2>1 DEF Returning
    <3> QED
      BY <2>1, <3>1, SameTable, NoAnswer
  <2>5. call' = [call EXCEPT ![g] = [op |-> op, from |-> c, target |-> t]]
    BY <1>1 DEF Call
  <2> QED
    BY <2>3, <2>4, <2>5, SameOperators
    DEF Promised!Request, Owing, Classes, ClassOf, Answers
<1>2. CASE \E c \in Contacts : Ping(g, c)
  BY <1>1, <1>2 DEF Ping, Promised!Next
<1>3. CASE \E c \in Contacts, t \in Targets : FindNode(g, c, t)
  BY <1>1, <1>3 DEF FindNode, Promised!Next
<1>4. CASE \E c \in Removable : Drop(g, c)
  BY <1>1, <1>4 DEF Drop, Promised!Next
<1> QED
  BY <1>2, <1>3, <1>4 DEF Begin

\* A step inside a call that changes no class is not seen.
LEMMA InnerStep ==
    ASSUME OneCaller, NEW g \in Goroutines, Classes' = Classes, call' = call,
           ~Returning(g), ~Returning(g)', Owed(g)' = Owed(g)
    PROVE  Stutters
<1>1. Answers' = Answers
  BY NoAnswer
<1>2. Owing' = Owing
  BY OneOwes DEF Owing, OneCaller
<1> QED
  BY <1>1, <1>2 DEF Stutters

\* Update has done its work: its sender is noted.
LEMMA NoteSeen ==
    ASSUME OneCaller, Shape, NEW g \in Goroutines, pc[g] \in Writing, AfterUpdate(g),
           LET c == call[g].from
           IN  Classes' = IF c.id = LocalID THEN Classes
                          ELSE [Classes EXCEPT
                                  ![Prefix(c)] = Nearest(Without(@, c) \cup {c}, LocalID)]
    PROVE  Promised!Next
<1> USE DEF Shape
<1>1. Owed(g) = "note" /\ call[g].op \in {"Update", "FindNode"}
  BY OwedAt DEF CallsInPlace
<1>2. pc'[g] \in {"idle", "closest"}
  BY AfterUpdateEffect
<1>3. ~Returning(g) /\ ~Returning(g)'
  BY <1>2 DEF Returning, Writing
<1>4. Answers' = Answers
  BY <1>3, NoAnswer
<1>5. CASE call[g].op = "Update"
  <2>1. pc'[g] = "idle" /\ call' = [call EXCEPT ![g] = NoCall]
    BY <1>5 DEF AfterUpdate, Return, Goto, TypeOK
  <2>2. Owing[g] = "note" /\ Owing' = [Owing EXCEPT ![g] = "nothing"]
    BY <1>1, <2>1, OwedNext, OneOwes
  <2>3. Promised!Note(g)
    BY <1>4, <1>5, <2>1, <2>2, SameOperators
    DEF Promised!Note, Promised!Done, Owing, Classes, ClassOf, Answers
  <2> QED
    BY <2>3 DEF Promised!Next
<1>6. CASE call[g].op = "FindNode"
  <2>1. pc'[g] = "closest" /\ call' = call
    BY <1>6 DEF AfterUpdate, Goto, TypeOK
  <2>2. Owing[g] = "note" /\ Owing' = [Owing EXCEPT ![g] = "answer"]
    BY <1>1, <2>1, OwedNext, OneOwes DEF Answering
  <2>3. Promised!Note(g)
    BY <1>4, <1>6, <2>1, <2>2, SameOperators
    DEF Promised!Note, Owing, Classes, ClassOf, Answers
  <2> QED
    BY <2>3 DEF Promised!Next
<1> QED
  BY <1>1, <1>5, <1>6

\* Update: choosing a bucket, splitting and locking are not seen, the insert is.
LEMMA UpdateSeen ==
    ASSUME OneCaller, Shape, Contents, Undisturbed, NEW g \in Goroutines,
           \/ UpdateSelf(g) \/ UpdateFindsFull(g) \/ UpdateFindsRoom(g)
           \/ SplitRefused(g) \/ Split(g) \/ InsertLock(g) \/ Insert(g)
    PROVE  Promised!Next \/ Stutters
<1> USE DEF Shape
<1>1. CASE UpdateSelf(g)
  <2>1. InTable' = InTable
    BY <1>1 DEF UpdateSelf, table, InTable, Attached
  <2>2. pc[g] \in Writing /\ AfterUpdate(g) /\ call[g].from.id = LocalID
    BY <1>1 DEF UpdateSelf, Writing
  <2>3. Classes' = Classes
    BY <2>1, SameTable
  <2> QED
    BY <2>2, <2>3, NoteSeen
<1>2. CASE UpdateFindsFull(g) \/ UpdateFindsRoom(g) \/ InsertLock(g)
  <2>1. /\ pc[g] \in Writing /\ pc'[g] \in Writing /\ call' = call
        /\ UNCHANGED table
    BY <1>2 DEF UpdateFindsFull, UpdateFindsRoom, InsertLock, Goto, TypeOK, Writing, table
  <2>2. InTable' = InTable
    BY <2>1 DEF table, InTable, Attached
  <2>3. Owed(g)' = Owed(g) /\ ~Returning(g) /\ ~Returning(g)'
    BY <2>1, OwedAt, OwedNext DEF Returning, Writing
  <2> QED
    BY <2>1, <2>2, <2>3, SameTable, InnerStep
<1>3. CASE SplitRefused(g)
  <2>1. Local \in peers[ref[g]]
    BY <1>3 DEF SplitRefused, OneCaller, Contents, LocalStays
  <2> QED
    BY <1>3, <2>1, ContactIDs DEF SplitRefused, Ids
<1>4. CASE Split(g)
  <2>1. pc[g] \in Writing /\ pc'[g] \in Writing /\ call' = call
    BY <1>4 DEF Split, LeftPeers, RightPeers, Goto, TypeOK, Writing
  <2>2. InTable' = InTable
    BY <1>4, SplitKeepsTable
  <2>3. Owed(g)' = Owed(g) /\ ~Returning(g) /\ ~Returning(g)'
    BY <2>1, OwedAt, OwedNext DEF Returning, Writing
  <2> QED
    BY <2>1, <2>2, <2>3, SameTable, InnerStep
<1>5. CASE Insert(g)
  <2>1. pc[g] \in Writing /\ AfterUpdate(g)
    BY <1>5 DEF Insert, Writing
  <2>2. LET c == call[g].from
        IN  /\ c.id # LocalID
            /\ Classes' = [Classes EXCEPT
                  ![Prefix(c)] = Nearest(Without(@, c) \cup {c}, LocalID)]
    BY <1>5, InsertNotes
  <2> QED
    BY <2>1, <2>2, NoteSeen
<1> QED
  BY <1>1, <1>2, <1>3, <1>4, <1>5

\* Remove: finding the bucket is not seen.
LEMMA RemoveSeen ==
    ASSUME OneCaller, Shape, Contents, Undisturbed, NEW g \in Goroutines,
           RemoveFinds(g) \/ Remove(g)
    PROVE  Promised!Next \/ Stutters
<1> USE DEF Shape
<1>1. CASE RemoveFinds(g)
  <2>1. pc[g] \in Removing /\ pc'[g] \in Removing /\ call' = call /\ UNCHANGED table
    BY <1>1 DEF RemoveFinds, Goto, TypeOK, Removing
  <2>2. InTable' = InTable
    BY <2>1 DEF table, InTable, Attached
  <2>3. Owed(g)' = Owed(g) /\ ~Returning(g) /\ ~Returning(g)'
    BY <2>1, OwedAt, OwedNext DEF Returning, Removing
  <2> QED
    BY <2>1, <2>2, <2>3, SameTable, InnerStep
<1>2. CASE Remove(g)
  <2>1. pc[g] \in Removing /\ pc'[g] = "idle" /\ call' = [call EXCEPT ![g] = NoCall]
    BY <1>2 DEF Remove, Return, Goto, TypeOK, Removing
  <2>2. ~Returning(g) /\ ~Returning(g)'
    BY <2>1 DEF Returning, Removing
  <2>3. Answers' = Answers
    BY <2>2, NoAnswer
  <2>4. Owing[g] = "forget" /\ Owing' = [Owing EXCEPT ![g] = "nothing"]
    BY <2>1, OwedAt, OwedNext, OneOwes
  <2>5. call[g].from.id # LocalID
        /\ Classes' = [Classes EXCEPT ![Prefix(call[g].from)] = Without(@, call[g].from)]
    BY <1>2, RemoveForgets
  <2>6. Promised!Forget(g)
    BY <2>1, <2>3, <2>4, <2>5, SameOperators
    DEF Promised!Forget, Promised!Done, Owing, Classes, ClassOf, Answers
  <2> QED
    BY <2>6 DEF Promised!Next
<1> QED
  BY <1>1, <1>2

\* ClosestK: the answer is there when the last bucket is read.
LEMMA ClosestSeen ==
    ASSUME OneCaller, Shape, Contents, Walks, Undisturbed, NEW g \in Goroutines,
           ClosestLock(g) \/ ClosestRead(g) \/ ClosestReturn(g)
    PROVE  Promised!Next \/ Stutters
<1> USE DEF Shape
<1>1. CASE ClosestLock(g)
  <2>1. /\ pc[g] = "closest" /\ pc'[g] = "walking" /\ call' = call /\ UNCHANGED table
        /\ walk'[g] = 0
    BY <1>1 DEF ClosestLock, Goto, TypeOK, Walks
  <2>2. InTable' = InTable
    BY <2>1 DEF table, InTable, Attached
  <2>3. Owed(g)' = Owed(g)
    BY <2>1, OwedAt, OwedNext DEF Answering
  <2>4. ~Returning(g) /\ ~Returning(g)'
    BY <2>1 DEF Returning, table, BucketOrder
  <2> QED
    BY <2>1, <2>2, <2>3, <2>4, SameTable, InnerStep
<1>2. CASE ClosestRead(g)
  <2>1. /\ pc[g] = "walking" /\ pc'[g] = "walking" /\ call' = call /\ UNCHANGED table
        /\ walk[g] < Len(buckets) /\ walk[g] \in Nat /\ walk'[g] = walk[g] + 1
    BY <1>2 DEF ClosestRead, TypeOK
  <2>2. InTable' = InTable
    BY <2>1 DEF table, InTable, Attached
  <2>3. Owed(g) = "answer" /\ Owed(g)' = "answer"
    BY <2>1, OwedAt, OwedNext DEF Answering
  <2>4. ~Returning(g) /\ Len(buckets) \in Nat
    BY <2>1 DEF Returning, BucketOrder
  <2>5. CASE walk[g] + 1 # Len(buckets)
    <3>1. ~Returning(g)'
      BY <2>1, <2>4, <2>5 DEF Returning, table
    <3> QED
      BY <2>1, <2>2, <2>3, <2>4, <3>1, SameTable, InnerStep
  <2>6. CASE walk[g] + 1 = Len(buckets)
    <3>1. Returning(g)'
      BY <2>1, <2>6 DEF Returning, table
    <3>2. Reply(g)' = Nearest(UNION {Classes[d] : d \in BitIndex}, call[g].target)
      <4>1. all'[g] = UNION {Classes[d] : d \in BitIndex}
        BY <1>2, <2>6, AllRead
      <4> QED
        BY <2>1, <4>1 DEF Reply, Nearest, Closer
    <3>3. Answers[g] = {} /\ Answers' = [Answers EXCEPT ![g] = {Reply(g)'}]
      BY <2>4, <3>1, NoAnswer
    <3>4. Owing[g] = "answer" /\ Owing' = Owing
      BY <2>3, OneOwes DEF OneCaller, Owing
    <3>5. Classes' = Classes
      BY <2>2, SameTable
    <3>6. Promised!Answer(g)
      BY <2>1, <3>2, <3>3, <3>4, <3>5, SameOperators
      DEF Promised!Answer, Promised!Known, Owing, Classes, ClassOf, Answers
    <3> QED
      BY <3>6 DEF Promised!Next
  <2> QED
    BY <2>5, <2>6
<1>3. CASE ClosestReturn(g)
  <2>1. /\ Returning(g) /\ pc'[g] = "idle" /\ call' = [call EXCEPT ![g] = NoCall]
        /\ UNCHANGED table
    BY <1>3 DEF ClosestReturn, Return, Goto, TypeOK, Returning
  <2>2. InTable' = InTable
    BY <2>1 DEF table, InTable, Attached
  <2>3. ~Returning(g)'
    BY <2>1 DEF Returning
  <2>4. Answers[g] # {} /\ Answers' = [Answers EXCEPT ![g] = {}]
    BY <2>1, <2>3 DEF OneCaller, Answers
  <2>5. Owing' = [Owing EXCEPT ![g] = "nothing"]
    BY <2>1, OwedNext, OneOwes
  <2>6. Classes' = Classes
    BY <2>2, SameTable
  <2>7. Promised!Answered(g)
    BY <2>1, <2>4, <2>5, <2>6, SameOperators
    DEF Promised!Answered, Promised!Done, Owing, Classes, ClassOf, Answers
  <2> QED
    BY <2>7 DEF Promised!Next
<1> QED
  BY <1>1, <1>2, <1>3

-----------------------------------------------------------------------------

\* The empty table maps to an initial state of what the table promises.
LEMMA InitSeen == ASSUME OneCaller PROVE Init => Promised!Init
<1> SUFFICES ASSUME Init PROVE Promised!Init
  OBVIOUS
<1>1. \A g \in Goroutines : Owed(g) = "nothing" /\ ~Returning(g)
  BY OwedAt DEF Init, Returning
<1>2. InTable = {Local}
  <2>1. Attached = {Deepest(0)}
    BY DEF Init, Attached
  <2>2. peers[Deepest(0)] = {Local}
    BY BucketType DEF Init
  <2> QED
    BY <2>1, <2>2 DEF InTable
<1>3. \A d \in BitIndex : ClassOf(d) = {}
  BY <1>2 DEF ClassOf
<1>4. call = [g \in Goroutines |-> NoCall]
  BY DEF Init
<1> QED
  BY <1>1, <1>3, <1>4, SameOperators DEF Promised!Init, ClassOf

\* Every step of the table is a step of the classes or is not seen there.
LEMMA StepSeen ==
    OneCaller /\ Shape /\ Contents /\ Walks /\ Undisturbed /\ [Next]_vars
        => [Promised!Next]_<<Classes, Owing, call, Answers>>
<1> SUFFICES ASSUME OneCaller, Shape, Contents, Walks, Undisturbed, [Next]_vars
             PROVE  Promised!Next \/ Stutters
  BY DEF Stutters
<1>1. ASSUME NEW g \in Goroutines, Begin(g) \/ Step(g) PROVE Promised!Next \/ Stutters
  BY <1>1, BeginSeen, UpdateSeen, RemoveSeen, ClosestSeen DEF Step
<1>2. CASE UNCHANGED vars
  <2>1. UNCHANGED <<buckets, peers, pc, call, walk, all>>
    BY <1>2 DEF vars, table, reader
  <2>2. Classes' = Classes
    BY <2>1 DEF Classes, ClassOf, InTable, Attached
  <2>3. Owing' = Owing
    BY <2>1 DEF Owing, Owed
  <2>4. Answers' = Answers
    BY <2>1 DEF Answers, Returning, Reply
  <2> QED
    BY <2>1, <2>2, <2>3, <2>4 DEF Stutters
<1> QED
  BY <1>1, <1>2 DEF Next

\* With one caller every insert takes effect, as Update promises.
THEOREM UpdatesTakeEffectAlone == ASSUME OneCaller PROVE Spec => UpdateTakesEffect
<1>1. ASSUME Shape, Shape', Contents, Undisturbed, Next, NEW g \in Goroutines, Inserts(g)
      PROVE  TakesEffect(g)
  <2> DEFINE c == call[g].from
  <2>1. Insert(g)
    BY <1>1, InsertsOnly
  <2>2. PICK p \in BitIndex :
           /\ p = Prefix(c)
           /\ Classes' = [Classes EXCEPT ![p] = Nearest(Without(@, c) \cup {c}, LocalID)]
    BY <1>1, <2>1, InsertNotes
  <2> DEFINE S == Without(ClassOf(p), c) \cup {c}
  <2>3. ClassOf(p)' = Nearest(S, LocalID)
    <3>1. Classes'[p] = Nearest(S, LocalID)
      BY <2>2 DEF Classes
    <3> HIDE DEF S
    <3> QED
      BY <3>1 DEF Classes
  <2>4. \A d \in Nearest(S, LocalID) : d \in InTable' /\ Prefix(d) = Prefix(call[g].from)
    BY <2>2, <2>3 DEF ClassOf
  <2>5. IsFiniteSet(S) /\ HaveIDs(S) /\ c \in S
    <3>1. c \in Contacts /\ c.id \in NodeID
      BY <1>1, <2>1, CallType, ContactIDs DEF Shape, Writing, Insert
    <3>2. \A d \in ClassOf(p) : d \in InTable /\ d.id \in NodeID
      BY <1>1, InTableIDs DEF ClassOf
    <3>3. IsFiniteSet(InTable)
      BY <1>1, TableFinite DEF Shape
    <3>4. IsFiniteSet(Without(ClassOf(p), c))
      BY <3>2, <3>3, WithoutSubset, FS_Subset
    <3>5. IsFiniteSet(S)
      BY <3>4, FS_AddElement
    <3> QED
      BY <3>1, <3>2, <3>5 DEF HaveIDs, Without
  <2>6. IsFiniteSet(InTable')
    BY <1>1, TableFiniteAfter DEF Shape
  <2> HIDE DEF S
  <2> QED
    BY <1>1, <2>4, <2>5, <2>6, EffectOfInsert
<1>2. Shape /\ Shape' /\ Contents /\ Undisturbed /\ [Next]_vars
      => [\A g \in Goroutines : Inserts(g) => TakesEffect(g)]_vars
  BY <1>1
<1> QED
  BY <1>2, ShapeInvariant, ContentsInvariant, UndisturbedInvariant, PTL DEF Spec, UpdateTakesEffect

\* Called by one goroutine at a time, the table is the PeerClasses of its contacts, for
\* every length of identifiers and every capacity but 1: splitting is invisible and
\* evicts nobody, and every lookup is answered from all the contacts there are.
THEOREM TableRefinesPeerClasses == ASSUME OneCaller PROVE Spec => Promise
<1>1. Spec => []Shape
  BY ShapeInvariant
<1>2. Spec => []Contents
  BY ContentsInvariant
<1>3. Spec => []Walks
  BY WalksInvariant
<1>4. Spec => []Undisturbed
  BY UndisturbedInvariant
<1>5. Init => Promised!Init
  BY InitSeen
<1> QED
  BY <1>1, <1>2, <1>3, <1>4, <1>5, StepSeen, PTL
  DEF Spec, Promise, Promised!Spec, Classes, ClassOf, Owing, Answers

=============================================================================
