---------------------------- MODULE RoutingTable ----------------------------
(***************************************************************************)
(* The Kademlia routing table of one node and the RPC handlers that use it *)
(* (src/network/routing: buckets.go, routing_table.go, kademlia.go).        *)
(*                                                                         *)
(* Every packet is served by a goroutine of its own (NetworkManager.serve), *)
(* so the table's methods run concurrently.  rt.lock guards the slice of    *)
(* buckets and b.lock the peers of one bucket, with two consequences that   *)
(* this module is about:                                                    *)
(*   - Update chooses a bucket under rt.lock, releases rt.lock and only     *)
(*     then inserts, so the bucket may have been split in between;          *)
(*   - ClosestK reads the peers of a bucket under rt.lock alone, so it may  *)
(*     read them while Insert is rearranging them under b.lock.             *)
(***************************************************************************)
EXTENDS ContactSets, Sequences

CONSTANTS
    Contacts,       \* the contacts the node hears from, at one address or several
    Removable,      \* the contacts Remove is called with
    Targets,        \* the identifiers ClosestK is asked about
    Goroutines,     \* the goroutines that call into the table
    NoOne           \* a lock nobody holds

ASSUME TargetsAssumption == Targets \subseteq NodeID

ASSUME ContactsAssumption ==
    /\ \A c \in Contacts \cup Removable : IsContact(c)
    /\ IsFiniteSet(Contacts)

ASSUME NoOneAssumption == NoOne \notin Goroutines

(***************************************************************************)
(* Buckets are heap objects that Split replaces while goroutines may still  *)
(* hold a pointer to the old one.  Split of the bucket of depth d allocates *)
(* Settled(d), whose peers all share exactly d bits with the local node,    *)
(* and Deepest(d + 1), which takes the rest and can be split again.  A      *)
(* depth is split at most once, so these names stand for the pointers.      *)
(***************************************************************************)
Settled(d) == <<"settled", d>>
Deepest(d) == <<"deepest", d>>
Bucket     == {"settled", "deepest"} \X BitIndex

Depth(b) == b[2]

VARIABLES
    buckets,        \* rt.buckets, the sequence of attached buckets
    peers,          \* b.peers for every bucket; a slice sorted by distance is its set
    isFull,         \* b.isFull
    rtLock,         \* the goroutine that holds rt.lock, or NoOne
    bLock,          \* the goroutine that holds b.lock, or NoOne
    pc,             \* where each goroutine is
    call,           \* the call it makes: [op, from, target]
    ref,            \* its local variable "bucket"
    walk,           \* ClosestK's loop: the buckets it has read
    all,            \* ClosestK's local variable "all"
    had,            \* history: the contacts in the table when ClosestK took rt.lock
    touched         \* history: the buckets some goroutine inserted into since then

table  == <<buckets, peers, isFull>>
locks  == <<rtLock, bLock>>
reader == <<walk, all, had, touched>>
vars   == <<table, locks, pc, call, ref, reader>>

-----------------------------------------------------------------------------

NoCall == [op |-> "none", from |-> Local, target |-> LocalID]

Calls ==
    {NoCall}
    \cup [op : {"Update"}, from : Contacts, target : {LocalID}]
    \cup [op : {"FindNode"}, from : Contacts, target : Targets]
    \cup [op : {"Remove"}, from : Removable, target : {LocalID}]

PC == {"idle", "update", "split", "insert", "inserting", "remove", "removing", "closest", "walking"}

Attached == {buckets[i] : i \in 1 .. Len(buckets)}

InTable == UNION {peers[b] : b \in Attached}

Full(S) == Cardinality(S) >= K

\* Mutant: one bucket too deep.
BucketAtNext(index) ==
    IF index + 1 >= Len(buckets) THEN buckets[Len(buckets)] ELSE buckets[index + 2]

\* rt.buckets[min(index, size - 1)], with slice indices from 0.
BucketAt(index) ==
    IF index >= Len(buckets) THEN buckets[Len(buckets)] ELSE buckets[index + 1]

(***************************************************************************)
(* NewRoutingTable: Update(local) on an empty table makes a bucket of depth *)
(* 0 that holds the local node.  Everything else starts afterwards.         *)
(***************************************************************************)
Init ==
    /\ buckets = <<Deepest(0)>>
    /\ peers = [b \in Bucket |-> IF b = Deepest(0) THEN {Local} ELSE {}]
    /\ isFull = [b \in Bucket |-> b = Deepest(0) /\ Full({Local})]
    /\ rtLock = NoOne
    /\ bLock = [b \in Bucket |-> NoOne]
    /\ pc = [g \in Goroutines |-> "idle"]
    /\ call = [g \in Goroutines |-> NoCall]
    /\ ref = [g \in Goroutines |-> Deepest(0)]
    /\ walk = [g \in Goroutines |-> 0]
    /\ all = [g \in Goroutines |-> {}]
    /\ had = [g \in Goroutines |-> {}]
    /\ touched = [g \in Goroutines |-> {}]

-----------------------------------------------------------------------------
(* The calls.                                                              *)

Goto(g, label) == pc' = [pc EXCEPT ![g] = label]

\* A goroutine forgets its local variables when its call returns.
Return(g) ==
    /\ Goto(g, "idle")
    /\ call' = [call EXCEPT ![g] = NoCall]
    /\ ref' = [ref EXCEPT ![g] = Deepest(0)]

\* A handler ignores what Update returns; FindNode and FindValue go on to ClosestK.
AfterUpdate(g) ==
    IF call[g].op = "FindNode"
    THEN /\ Goto(g, "closest")
         /\ ref' = [ref EXCEPT ![g] = Deepest(0)]
         /\ UNCHANGED call
    ELSE Return(g)

Call(g, op, c, t, label) ==
    /\ pc[g] = "idle"
    /\ Goto(g, label)
    /\ call' = [call EXCEPT ![g] = [op |-> op, from |-> c, target |-> t]]
    /\ UNCHANGED <<table, locks, ref, reader>>

\* Ping, Store, Delete and Refresh: note the sender, then reply.
Ping(g, c) == Call(g, "Update", c, LocalID, "update")

\* FindNode and FindValue: note the sender, then reply with the closest contacts.
FindNode(g, c, t) == Call(g, "FindNode", c, t, "update")

\* Remove, of the table's interface.
Drop(g, c) == Call(g, "Remove", c, LocalID, "remove")

-----------------------------------------------------------------------------
(* Update.  Every round takes rt.lock and reads the size again.            *)

\* The sender is this node itself: nothing to do.
UpdateSelf(g) ==
    /\ pc[g] = "update" /\ rtLock = NoOne
    /\ call[g].from.id = LocalID
    /\ AfterUpdate(g)
    /\ UNCHANGED <<table, locks, reader>>

\* Mutant: the deepest bucket there can be is split as well.
MustSplitBeyond(b) == b = buckets[Len(buckets)] /\ isFull[b]

\* Mutant: any full bucket is split.
MustSplitAny(b) == Depth(b) < KeyBits - 1 /\ isFull[b]

MustSplit(b) ==
    /\ b = buckets[Len(buckets)]
    /\ Depth(b) < KeyBits - 1
    /\ isFull[b]

\* The deepest bucket is full: keep rt.lock and split it.
UpdateFindsFull(g) ==
    /\ pc[g] = "update" /\ rtLock = NoOne
    /\ call[g].from.id # LocalID
    /\ LET b == BucketAt(Prefix(call[g].from))
       IN  /\ MustSplit(b)
           /\ ref' = [ref EXCEPT ![g] = b]
    /\ rtLock' = g
    /\ Goto(g, "split")
    /\ UNCHANGED <<table, bLock, call, reader>>

\* Mutant: rt.lock is not released before the insert.
UpdateFindsRoomLocked(g) ==
    /\ pc[g] = "update" /\ rtLock = NoOne
    /\ call[g].from.id # LocalID
    /\ LET b == BucketAt(Prefix(call[g].from))
       IN  /\ ~MustSplit(b)
           /\ ref' = [ref EXCEPT ![g] = b]
    /\ rtLock' = g
    /\ Goto(g, "insert")
    /\ UNCHANGED <<table, bLock, call, reader>>

\* There is room, or a full bucket that is not split: release rt.lock and insert.
UpdateFindsRoom(g) ==
    /\ pc[g] = "update" /\ rtLock = NoOne
    /\ call[g].from.id # LocalID
    /\ LET b == BucketAt(Prefix(call[g].from))
       IN  /\ ~MustSplit(b)
           /\ ref' = [ref EXCEPT ![g] = b]
    /\ Goto(g, "insert")
    /\ UNCHANGED <<table, locks, call, reader>>

\* Mutant: the early return forgets to unlock.
SplitRefusedLocked(g) ==
    /\ pc[g] = "split" /\ bLock[ref[g]] = NoOne
    /\ LocalID \notin Ids(peers[ref[g]])
    /\ AfterUpdate(g)
    /\ UNCHANGED <<table, locks, reader>>

\* kBucket.Split without the local node: Update gives up with "[no split]".
SplitRefused(g) ==
    /\ pc[g] = "split" /\ bLock[ref[g]] = NoOne
    /\ LocalID \notin Ids(peers[ref[g]])
    /\ rtLock' = NoOne
    /\ AfterUpdate(g)
    /\ UNCHANGED <<table, bLock, reader>>

\* Mutant: takes the peers of the next bucket.
LeftPeersOfNext(b) == {c \in peers[b] : Prefix(c) = Depth(b) + 1}

\* The peers whose natural bucket this is, and those that are sent forward.
LeftPeers(b) == {c \in peers[b] : Prefix(c) = Depth(b)}

\* Mutant: the loop sends everybody forward.
RightPeersAll(b) == peers[b]

RightPeers(b) == {c \in peers[b] : Prefix(c) # Depth(b)}

\* kBucket.Split, then rt.buckets = append(rt.buckets[:index], left, right), and
\* round again.  The old bucket is left as it was.
Split(g) ==
    /\ pc[g] = "split" /\ bLock[ref[g]] = NoOne
    /\ LocalID \in Ids(peers[ref[g]])
    /\ LET b     == ref[g]
           left  == LeftPeers(b)
           right == RightPeers(b)
           l     == Settled(Depth(b))
           r     == Deepest(Depth(b) + 1)
       IN  /\ peers' = [peers EXCEPT ![l] = left, ![r] = right]
           /\ isFull' = [isFull EXCEPT ![l] = Full(left), ![r] = Full(right)]
           /\ buckets' = Append([buckets EXCEPT ![Len(buckets)] = l], r)
    /\ rtLock' = NoOne
    /\ Goto(g, "update")
    /\ ref' = [ref EXCEPT ![g] = Deepest(0)]
    /\ UNCHANGED <<bLock, call, reader>>

-----------------------------------------------------------------------------
(* kBucket.Insert, from b.lock.Lock to b.lock.Unlock.  Its writes are made  *)
(* in the second step; what a reader without b.lock may see in between is   *)
(* Torn, below.                                                            *)

InsertLock(g) ==
    /\ pc[g] = "insert" /\ bLock[ref[g]] = NoOne
    /\ bLock' = [bLock EXCEPT ![ref[g]] = g]
    /\ touched' = [h \in Goroutines |->
                     IF pc[h] = "walking" THEN touched[h] \cup {ref[g]} ELSE touched[h]]
    /\ Goto(g, "inserting")
    /\ UNCHANGED <<table, rtLock, call, ref, walk, all, had>>

\* Replace the old entry, sort, cut to k, updateFull.  Update ignores the result.
Insert(g) ==
    /\ pc[g] = "inserting"
    /\ LET b    == ref[g]
           kept == Nearest(Without(peers[b], call[g].from) \cup {call[g].from}, LocalID)
       IN  /\ peers' = [peers EXCEPT ![b] = kept]
           /\ isFull' = [isFull EXCEPT ![b] = Full(kept)]
           /\ bLock' = [bLock EXCEPT ![b] = NoOne]
    /\ AfterUpdate(g)
    /\ UNCHANGED <<buckets, rtLock, reader>>

-----------------------------------------------------------------------------
(* Remove.  It holds rt.lock throughout.                                   *)

RemoveFinds(g) ==
    /\ pc[g] = "remove" /\ rtLock = NoOne
    /\ rtLock' = g
    /\ ref' = [ref EXCEPT ![g] = BucketAt(KBucketIndex(LocalID, call[g].from.id))]
    /\ Goto(g, "removing")
    /\ UNCHANGED <<table, bLock, call, reader>>

\* kBucket.Remove calls updateFull only when it found the contact.
Remove(g) ==
    /\ pc[g] = "removing" /\ bLock[ref[g]] = NoOne
    /\ LET b    == ref[g]
           left == Without(peers[b], call[g].from)
       IN  /\ peers' = [peers EXCEPT ![b] = left]
           /\ isFull' = [isFull EXCEPT ![b] = IF left = peers[b] THEN @ ELSE Full(left)]
    /\ rtLock' = NoOne
    /\ Return(g)
    /\ UNCHANGED <<buckets, bLock, reader>>

-----------------------------------------------------------------------------
(* ClosestK.  It holds rt.lock throughout and never takes b.lock.          *)

(***************************************************************************)
(* What the loop over bucket.peers may see of a slice that Insert shifts,   *)
(* extends and sorts in place.  Contacts that nobody touches may be missed: *)
(* slices.Delete moves those behind the old entry to an index already read, *)
(* and the sort of a long bucket swaps any two.  The old entry of the new   *)
(* contact's identifier may be seen, the new one, or neither; when both are *)
(* the second is skipped.  slices.Delete also leaves a nil behind the       *)
(* shortened slice.                                                         *)
(***************************************************************************)
Torn(b, new) ==
    LET rest == Without(peers[b], new)
        old  == peers[b] \ rest
        seen == {s \in {some \cup entry : some \in SUBSET rest, entry \in {{}, {new}, old}} :
                   s = {} => rest = {}}
    IN  IF old = {} THEN seen ELSE seen \cup {s \cup {Nil} : s \in seen}

Observable(b) ==
    IF bLock[b] = NoOne THEN {peers[b]} ELSE Torn(b, call[bLock[b]].from)

ClosestLock(g) ==
    /\ pc[g] = "closest" /\ rtLock = NoOne
    /\ rtLock' = g
    /\ Goto(g, "walking")
    /\ had' = [had EXCEPT ![g] = InTable]
    /\ touched' = [touched EXCEPT ![g] = {b \in Bucket : bLock[b] # NoOne}]
    /\ UNCHANGED <<table, bLock, call, ref, walk, all>>

\* Mutant: the local node is not skipped.
UnseenLocal(seen, known) ==
    {c \in seen : /\ c.id \notin Ids(known)
                  /\ c = Nil => ZeroID \notin Ids(seen \ {Nil})}

\* Skip the local node and identifiers already seen; a nil comes last in its slice.
Unseen(seen, known) ==
    {c \in seen : /\ c.id # LocalID
                  /\ c.id \notin Ids(known)
                  /\ c = Nil => ZeroID \notin Ids(seen \ {Nil})}

\* One round of the outer loop.
ClosestRead(g) ==
    /\ pc[g] = "walking" /\ walk[g] < Len(buckets)
    /\ \E seen \in Observable(buckets[walk[g] + 1]) :
          all' = [all EXCEPT ![g] = @ \cup Unseen(seen, @)]
    /\ walk' = [walk EXCEPT ![g] = @ + 1]
    /\ UNCHANGED <<table, locks, pc, call, ref, had, touched>>

\* Mutant: sorted by distance to the local node, as Insert does.
ReplyNearLocal(g) == Nearest(all[g], LocalID)

\* What ClosestK returns once every bucket is read.
Reply(g) == Nearest(all[g], call[g].target)

ClosestReturn(g) ==
    /\ pc[g] = "walking" /\ walk[g] = Len(buckets)
    /\ rtLock' = NoOne
    /\ walk' = [walk EXCEPT ![g] = 0]
    /\ all' = [all EXCEPT ![g] = {}]
    /\ had' = [had EXCEPT ![g] = {}]
    /\ touched' = [touched EXCEPT ![g] = {}]
    /\ Return(g)
    /\ UNCHANGED <<table, bLock>>

-----------------------------------------------------------------------------

\* The steps of a call that has begun.
Step(g) ==
    \/ UpdateSelf(g) \/ UpdateFindsFull(g) \/ UpdateFindsRoom(g)
    \/ SplitRefused(g) \/ Split(g)
    \/ InsertLock(g) \/ Insert(g)
    \/ RemoveFinds(g) \/ Remove(g)
    \/ ClosestLock(g) \/ ClosestRead(g) \/ ClosestReturn(g)

Begin(g) ==
    \/ \E c \in Contacts : Ping(g, c)
    \/ \E c \in Contacts, t \in Targets : FindNode(g, c, t)
    \/ \E c \in Removable : Drop(g, c)

Next == \E g \in Goroutines : Begin(g) \/ Step(g)

Spec == Init /\ [][Next]_vars

(***************************************************************************)
(* A goroutine that can run does run, and sync.Mutex hands a lock that is   *)
(* released again and again to a waiter in the end (its starvation mode),   *)
(* so each step is strongly fair.  Nothing makes packets arrive.            *)
(***************************************************************************)
Fairness == \A g \in Goroutines : SF_vars(Step(g))

-----------------------------------------------------------------------------
(* Safety.                                                                 *)

\* Every variable of the table, its locks and its callers has a value of its kind.
TypeOK ==
    /\ buckets \in Seq(Bucket)
    /\ peers \in [Bucket -> SUBSET (Contacts \cup {Local})]
    /\ isFull \in [Bucket -> BOOLEAN]
    /\ rtLock \in Goroutines \cup {NoOne}
    /\ bLock \in [Bucket -> Goroutines \cup {NoOne}]
    /\ pc \in [Goroutines -> PC]
    /\ call \in [Goroutines -> Calls]
    /\ ref \in [Goroutines -> Bucket]
    /\ walk \in [Goroutines -> Nat]
    /\ all \in [Goroutines -> SUBSET (Contacts \cup {Nil})]
    /\ had \in [Goroutines -> SUBSET (Contacts \cup {Local})]
    /\ touched \in [Goroutines -> SUBSET Bucket]

\* The bucket at index d is the settled one of depth d, the last one the
\* deepest: Update finds a contact's bucket by the length of its prefix.  There
\* are never more than KeyBits of them.
BucketOrder ==
    /\ Len(buckets) \in 1 .. KeyBits
    /\ \A i \in 1 .. Len(buckets) :
          buckets[i] = IF i < Len(buckets) THEN Settled(i - 1) ELSE Deepest(i - 1)

\* A peer is in the bucket its prefix selects, whatever interleaving of
\* inserts, removes and splits put it there.
Belongs(c, b) ==
    /\ b[1] = "settled" => Prefix(c) = Depth(b)
    /\ b[1] = "deepest" => Prefix(c) >= Depth(b)

Placement == \A b \in Bucket : \A c \in peers[b] : Belongs(c, b)

\* Unless somebody removes it, the local node stays in the deepest bucket, so
\* that Split never refuses and no call to Update ends in "[no split]".
LocalStays ==
    LocalID \notin Ids(Removable) =>
        /\ Local \in peers[buckets[Len(buckets)]]
        /\ \A g \in Goroutines : pc[g] = "split" => Local \in peers[ref[g]]

\* A node is known by one address at a time, over the whole table.
UniqueIds == \A c, d \in InTable : c.id = d.id => c = d

\* No bucket exceeds k peers, and isFull is up to date: a bucket with room is
\* never split and a full deepest one never takes an insert without a split.
Capacity ==
    \A b \in Bucket : Cardinality(peers[b]) <= K /\ isFull[b] = Full(peers[b])

\* A lock is held by the goroutine inside its critical section, on every path.
LocksHeld ==
    /\ \A g \in Goroutines : pc[g] \in {"split", "removing", "walking"} <=> rtLock = g
    /\ \A b \in Bucket, g \in Goroutines :
          bLock[b] = g <=> pc[g] = "inserting" /\ ref[g] = b

\* Only an insert that chose the deepest bucket can end up in a detached one.
SettledInsertsLand ==
    \A g \in Goroutines :
        pc[g] \in {"insert", "inserting"} =>
            /\ Belongs(call[g].from, ref[g])
            /\ ref[g][1] = "settled" => ref[g] \in Attached

Inserts(g) == pc[g] = "inserting" /\ pc'[g] # "inserting"

TakesEffect(g) ==
    LET c      == call[g].from
        rivals == {d \in InTable' : Prefix(d) = Prefix(c)}
    IN  c \in InTable' \/ Cardinality(Closer(rivals, c, LocalID)) >= K

\* Whatever runs concurrently, an insert into a settled bucket puts the contact into the
\* table, unless K contacts with the same prefix are closer.
SettledUpdateTakesEffect ==
    [][\A g \in Goroutines : Inserts(g) /\ ref[g][1] = "settled" => TakesEffect(g)]_vars

\* A split loses nobody and invents nobody, even with inserts going on.
SplitKeepsContacts == [][buckets' # buckets => InTable' = InTable]_vars

Returning(g) == pc[g] = "walking" /\ walk[g] = Len(buckets)

\* A contact whose bucket nobody wrote to while ClosestK ran is in its reply,
\* unless K contacts in the reply are closer to the target: the walk over the
\* buckets neither skips a bucket nor reads a contact twice.
QuietContactsReturned ==
    \A g \in Goroutines : Returning(g) =>
        \A b \in Attached \ touched[g] : \A c \in peers[b] :
            c.id \notin {LocalID, ZeroID} =>
                \/ c \in Reply(g)
                \/ Cardinality(Closer(Reply(g), c, call[g].target)) >= K

\* What a call has yet to do.
Owed(g) ==
    CASE pc[g] = "idle" -> "nothing"
      [] pc[g] \in {"update", "split", "insert", "inserting"} -> "note"
      [] pc[g] \in {"remove", "removing"} -> "forget"
      [] pc[g] \in {"closest", "walking"} -> "answer"

(***************************************************************************)
(* Called by one goroutine at a time, the table is the PeerClasses of its   *)
(* contacts: splitting is invisible and evicts nobody, and no call returns *)
(* without having had its effect.                                          *)
(***************************************************************************)
Promised == INSTANCE PeerClasses WITH
    Callers <- Goroutines,
    classes <- [d \in BitIndex |-> {c \in InTable \ {Local} : Prefix(c) = d}],
    owed    <- [g \in Goroutines |-> Owed(g)],
    answer  <- [g \in Goroutines |-> IF Returning(g) THEN {Reply(g)} ELSE {}]

Promise == Promised!Spec

-----------------------------------------------------------------------------
(* Liveness.                                                               *)

\* Every call returns: the rounds of Update come to an end and no two calls
\* wait for each other's locks.
CallsReturn == \A g \in Goroutines : pc[g] # "idle" ~> pc[g] = "idle"

-----------------------------------------------------------------------------
(* What the program's own words promise and concurrent calls break.        *)

\* api/interfaces.go: "Update inserts or refreshes a contact in the appropriate
\* bucket".  When Insert is done the contact is in the table, unless K contacts
\* with the same prefix are closer.
UpdateTakesEffect ==
    [][\A g \in Goroutines : Inserts(g) => TakesEffect(g)]_vars

=============================================================================
