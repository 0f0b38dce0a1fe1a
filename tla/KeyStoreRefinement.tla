------------------------- MODULE KeyStoreRefinement -------------------------
(***************************************************************************)
(* The step simulation of FileStore by KeyStore: called by one goroutine,   *)
(* the store of chunks is a set of files, for any number of files and       *)
(* chunks, through any number of failures, crashes and restarts.            *)
(***************************************************************************)
EXTENDS KeyStoreProofs

\* There is one caller.
Alone == \A g \in Goroutines, h \in Goroutines : g = h

-----------------------------------------------------------------------------
(* Definitions of the invariant.                                           *)

\* A chunk of a list is one of its file, or lacks the hash of its data.
Real(f, c) ==
    c.data = Absent \/ \E how \in {"load", "write"}, i \in 1 .. ChunkCount[f] : c = Piece(how, f, i)

RealList(f, ref) == \A i \in 1 .. Len(ref) : Real(f, ref[i])

Lists ==
    /\ \A f \in Files : references[f] = Absent \/ RealList(f, references[f])
    /\ \A f \in Files : metadata[f] \in {Absent, Broken} \/ RealList(f, metadata[f])

\* The i-th chunk of a list can be read.
Legible(ref, i) ==
    LET c == registry[ref[i].key]
    IN  /\ c # Absent /\ c.here /\ c.data = ref[i].data
        /\ storage[ref[i].key] = ref[i].data /\ ref[i].data # Absent

\* A reader has the reference and has found all chunks before its index in place.
Reader(g) ==
    LET ref == references[call[g].file]
    IN  /\ ref # Absent /\ chunks[g] = ref /\ next[g] \in 1 .. Len(ref) + 1
        /\ \A i \in 1 .. next[g] - 1 : Legible(ref, i)
        /\ pc[g] = "load" =>
              next[g] <= Len(ref) /\ found[g] = registry[ref[next[g]].key] /\ found[g] # Absent

Readers ==
    \A g \in Goroutines :
        /\ pc[g] = "recall" => next[g] = 1
        /\ pc[g] \in {"lookup", "load"} => Reader(g)

\* What a goroutine that reads or rewrites has been called for.
Operations ==
    \A g \in Goroutines :
        /\ pc[g] \in ReadLabels => call[g].op = "read"
        /\ pc[g] \in {"rewrite", "rewriting"} => call[g].op = "rewrite"

\* What a cleanup of chunks has left to do, and what rewriting has.
Visits ==
    /\ \A g \in Goroutines : pc[g] = "cleaning" /\ call[g].op # ".toml" =>
          \A k \in Keys : CanRemove(k) => k \in left[g]
    /\ \A g \in Goroutines : pc[g] = "rewrite" => Known \subseteq left[g] \cup Saved
    /\ \A g \in Goroutines : pc[g] = "rewriting" =>
          Known \subseteq left[g] \cup Saved \cup {call[g].file}

Orderly == Lists /\ Readers /\ Operations /\ Visits

-----------------------------------------------------------------------------
(* Lemmas about lists of chunks.                                           *)

LEMMA RealComplete ==
    ASSUME NEW how \in {"load", "write"}, NEW f, <<how, f>> \in Uploads
    PROVE  RealList(f, Complete(how, f))
<1>1. \A i \in 1 .. ChunkCount[f] : Complete(how, f)[i] = Piece(how, f, i)
  BY DEF Complete
<1> QED
  BY <1>1, CompleteType DEF RealList, Real

LEMMA RealFragments ==
    ASSUME NEW f \in Files, NEW ref \in Seq(ChunkOf(f)), RealList(f, ref), NEW m \in Fragments(ref)
    PROVE  m = Broken \/ RealList(f, m)
<1>1. CASE m = Broken
  BY <1>1
<1>2. ASSUME NEW n \in 0 .. Len(ref) - 1,
             NEW c \in {Chunk(ref[n + 1].key, Absent, b) : b \in BOOLEAN}
                       \cup {Chunk(NoKey, Absent, FALSE)},
             m = SubSeq(ref, 1, n) \/ m = Append(SubSeq(ref, 1, n), c)
      PROVE  RealList(f, m)
  <2> DEFINE s == SubSeq(ref, 1, n)
  <2>1. Len(ref) \in Nat /\ n \in Nat
    BY LenProperties
  <2>2. s \in Seq(ChunkOf(f)) /\ Len(s) = n /\ \A i \in 1 .. n : s[i] = ref[i]
    BY <2>1, SubSeqProperties, PrefixType
  <2>3. RealList(f, s)
    BY <2>1, <2>2 DEF RealList
  <2>4. c.data = Absent
    BY DEF Chunk
  <2> HIDE DEF s
  <2>5. c \in ChunkOf(f)
    <3>1. ref[n + 1] \in ChunkOf(f)
      BY PrefixType
    <3> QED
      BY <3>1, CutChunkType
  <2>6. ASSUME NEW i \in 1 .. Len(Append(s, c)) PROVE Real(f, Append(s, c)[i])
    <3>1. Len(Append(s, c)) = n + 1
          /\ \A j \in 1 .. n : Append(s, c)[j] = s[j]
          /\ Append(s, c)[n + 1] = c
      BY <2>2, <2>5, AppendProperties
    <3>2. CASE i = n + 1
      BY <2>4, <3>1, <3>2 DEF Real
    <3>3. CASE i \in 1 .. n
      BY <2>2, <2>3, <3>1, <3>3 DEF RealList
    <3> QED
      BY <2>1, <3>1, <3>2, <3>3
  <2> QED
    BY <1>2, <2>3, <2>6 DEF RealList, s
<1> QED
  BY <1>1, <1>2 DEF Fragments

\* A whole list has a key of the file in each place.
LEMMA WholeKeys ==
    ASSUME NEW f \in Files, NEW ref \in Seq(ChunkOf(f)), RealList(f, ref), Whole(f, ref),
           NEW i \in 1 .. ChunkCount[f]
    PROVE  /\ Len(ref) = ChunkCount[f] /\ ref[i].data = <<f, i>> /\ ref[i].data \in Data /\ ref[i].here
           /\ ref[i].key \in OwnKeys(f) /\ ref[i].key \in Keys
           /\ \E how \in {"load", "write"} : ref[i] = Piece(how, f, i) /\ ref[i].key = Key(how, f, i)
<1>1. Len(ref) = ChunkCount[f] /\ ref[i].data = <<f, i>> /\ ref[i].here
  BY DEF Whole
<1>2. <<f, i>> \in Data /\ <<f, i>> # Absent
  BY TokensAssumption DEF Data
<1>3. PICK how \in {"load", "write"}, j \in 1 .. ChunkCount[f] : ref[i] = Piece(how, f, j)
  BY <1>1, <1>2 DEF RealList, Real
<1>4. ref[i].data = <<f, j>> /\ ref[i].key = Key(how, f, j)
  BY <1>3 DEF Piece, Chunk
<1>5. j = i
  BY <1>1, <1>4
<1>6. ref[i] \in ChunkOf(f)
  BY <1>1, ElementOfSeq
<1>7. ref[i].key \in Keys
  BY <1>6 DEF ChunkOf, ChunkType
<1>8. ref[i].key \in OwnKeys(f)
  BY <1>4, <1>5, <1>7 DEF OwnKeys, KeysFor
<1> QED
  BY <1>1, <1>2, <1>3, <1>4, <1>5, <1>7, <1>8

LEMMA KnownList ==
    ASSUME Shape, Lists, NEW f \in Files, references[f] # Absent, Whole(f, references[f])
    PROVE  references[f] \in Seq(ChunkOf(f)) /\ RealList(f, references[f])
BY DEF Shape, MapsOK, Lists

LEMMA SavedList ==
    ASSUME Shape, Lists, NEW f \in Files, metadata[f] \notin {Absent, Broken}
    PROVE  metadata[f] \in Seq(ChunkOf(f)) /\ RealList(f, metadata[f])
BY DEF Shape, MapsOK, Lists

-----------------------------------------------------------------------------
(* What a step that leaves a file alone does to what is known and saved.   *)

LEMMA SavedKept ==
    ASSUME Shape, Lists, NEW f \in Files, metadata'[f] = metadata[f],
           \A k \in OwnKeys(f) : storage'[k] = storage[k]
    PROVE  f \in Saved' <=> f \in Saved
<1>1. CASE metadata[f] \in {Absent, Broken}
  BY <1>1 DEF Saved
<1>2. CASE metadata[f] \notin {Absent, Broken} /\ ~Whole(f, metadata[f])
  BY <1>2 DEF Saved, Stands, Whole
<1>3. CASE metadata[f] \notin {Absent, Broken} /\ Whole(f, metadata[f])
  <2>1. \A i \in 1 .. ChunkCount[f] : metadata[f][i].key \in OwnKeys(f)
    BY <1>3, SavedList, WholeKeys
  <2> QED
    BY <1>3, <2>1 DEF Saved, Stands, Whole
<1> QED
  BY <1>1, <1>2, <1>3

LEMMA KnownKept ==
    ASSUME Shape, Lists, NEW f \in Files, references'[f] = references[f],
           \A k \in OwnKeys(f) : storage'[k] = storage[k] /\ registry'[k] = registry[k]
    PROVE  f \in Known' <=> f \in Known
<1>1. CASE references[f] = Absent
  BY <1>1 DEF Known
<1>2. CASE references[f] # Absent /\ ~Whole(f, references[f])
  BY <1>2 DEF Known, Stands, Whole
<1>3. CASE references[f] # Absent /\ Whole(f, references[f])
  <2>1. \A i \in 1 .. ChunkCount[f] : references[f][i].key \in OwnKeys(f)
    BY <1>3, KnownList, WholeKeys
  <2>2. \A i \in 1 .. ChunkCount[f] :
           /\ storage'[references'[f][i].key] = storage[references[f][i].key]
           /\ registry'[references'[f][i].key] = registry[references[f][i].key]
    BY <2>1
  <2>3. Stands(f, references[f])' <=> Stands(f, references[f])
    BY <2>2 DEF Stands, Whole
  <2> QED
    BY <1>3, <2>2, <2>3 DEF Known
<1> QED
  BY <1>1, <1>2, <1>3

LEMMA KnownFilesOnly == Known \subseteq Files /\ Saved \subseteq Files
BY DEF Known, Saved

LEMMA SameKept ==
    ASSUME Shape, Lists, NEW f \in Files, Same(f)
    PROVE  (f \in Known' <=> f \in Known) /\ (f \in Saved' <=> f \in Saved)
BY SavedKept, KnownKept DEF Same

LEMMA AllKept ==
    ASSUME Shape, Lists, \A f \in Files : Same(f)
    PROVE  Known' = Known /\ Saved' = Saved
<1>1. Known' \subseteq Files /\ Saved' \subseteq Files
  BY DEF Known, Saved
<1> QED
  BY <1>1, SameKept, KnownFilesOnly

LEMMA OthersKept ==
    ASSUME Shape, Lists, NEW f0, \A f \in Files : f # f0 => Same(f)
    PROVE  Promised!ButFor(Known', Known, f0) /\ Promised!ButFor(Saved', Saved, f0)
<1>1. Known' \subseteq Files /\ Saved' \subseteq Files
  BY DEF Known, Saved
<1> QED
  BY <1>1, SameKept, KnownFilesOnly DEF Promised!ButFor

-----------------------------------------------------------------------------
(* The invariant.                                                          *)

LEMMA InitOrderly == Init => Orderly
BY DEF Init, Orderly, Lists, Readers, Operations, Visits, ReadLabels

LEMMA UnchangedOrderly == Orderly /\ UNCHANGED vars => Orderly'
<1> SUFFICES ASSUME Orderly, UNCHANGED vars PROVE Orderly'
  OBVIOUS
<1> USE DEF vars, memory, disk, local, world
<1>1. Lists'
  BY DEF Orderly, Lists, RealList
<1>2. Readers'
  BY DEF Orderly, Readers, Reader, Legible
<1>3. Visits'
  <2>1. Known' = Known /\ Saved' = Saved
    BY DEF Known, Saved, Stands, Whole
  <2> QED
    BY <2>1 DEF Orderly, Visits, CanRemove
<1>4. Operations'
  BY DEF Orderly, Operations
<1> QED
  BY <1>1, <1>2, <1>3, <1>4 DEF Orderly

LEMMA ListsChange ==
    ASSUME Shape, Lists, NEW f0 \in Files,
           \/ references' = references
           \/ \E v : (v = Absent \/ RealList(f0, v)) /\ references' = [references EXCEPT ![f0] = v],
           \/ metadata' = metadata
           \/ \E v : (v \in {Absent, Broken} \/ RealList(f0, v)) /\ metadata' = [metadata EXCEPT ![f0] = v]
    PROVE  Lists'
<1>1. DOMAIN references = Files /\ DOMAIN metadata = Files
  BY DEF Shape, MapsOK
<1>2. ASSUME NEW f \in Files PROVE references'[f] = Absent \/ RealList(f, references'[f])
  <2>1. CASE f = f0
    BY <1>1, <2>1 DEF Lists
  <2>2. CASE f # f0
    <3>1. references'[f] = references[f]
      BY <1>1, <2>2
    <3> QED
      BY <3>1 DEF Lists
  <2> QED
    BY <2>1, <2>2
<1>3. ASSUME NEW f \in Files PROVE metadata'[f] \in {Absent, Broken} \/ RealList(f, metadata'[f])
  <2>1. CASE f = f0
    BY <1>1, <2>1 DEF Lists
  <2>2. CASE f # f0
    <3>1. metadata'[f] = metadata[f]
      BY <1>1, <2>2
    <3> QED
      BY <3>1 DEF Lists
  <2> QED
    BY <2>1, <2>2
<1>4. Lists' <=> /\ \A f \in Files : references'[f] = Absent \/ RealList(f, references'[f])
                 /\ \A f \in Files : metadata'[f] \in {Absent, Broken} \/ RealList(f, metadata'[f])
  BY DEF Lists, RealList, Real, Piece, Key, Chunk
<1> QED
  BY <1>2, <1>3, <1>4

LEMMA ListsQuiet ==
    ASSUME Lists, UNCHANGED <<references, metadata>>
    PROVE  Lists'
BY DEF Lists, RealList

\* A step after which the only goroutine neither reads, cleans up nor rewrites.
LEMMA CalmStep ==
    ASSUME Alone, NEW g \in Goroutines, Lists',
           pc'[g] \notin {"lookup", "load", "cleaning", "rewrite", "rewriting"},
           pc'[g] = "recall" => call'[g].op = "read" /\ next'[g] = 1
    PROVE  Orderly'
<1>1. \A h \in Goroutines : h = g
  BY DEF Alone
<1> QED
  BY <1>1 DEF Orderly, Readers, Operations, Visits, ReadLabels

LEMMA StartUndoCalm ==
    ASSUME Shape, NEW g \in Goroutines, StartUndo(g)
    PROVE  pc'[g] = "undo"
BY DEF StartUndo, Goto, Shape, LocalsOK

LEMMA ReturnCalm ==
    ASSUME Shape, NEW g \in Goroutines, Return(g)
    PROVE  pc'[g] = "idle"
BY DEF Return, Goto, Shape, LocalsOK

\* Most steps leave the lists alone.
LEMMA CallsOrderly ==
    ASSUME Alone, Shape, Orderly, NEW g \in Goroutines,
           \/ \E u \in Uploads : Store(g, u[1], u[2])
           \/ \E f \in Files : Read(g, f)
           \/ \E k \in NetKeys : StoreKey(g, k)
    PROVE  Orderly'
<1> USE DEF Begin, Goto, memory, disk
<1>1. UNCHANGED <<references, metadata>> /\ pc'[g] \in {"idle", "chunk", "recall"}
  BY DEF Store, Read, StoreKey, Shape, LocalsOK
<1>2. ASSUME pc'[g] = "recall" PROVE call'[g].op = "read" /\ next'[g] = 1
  <2>1. pc[g] = "idle"
    BY DEF Store, Read, StoreKey
  <2>2. PICK f \in Files : Read(g, f)
    BY <1>2, <2>1 DEF Store, StoreKey, Shape, LocalsOK
  <2>3. next[g] = 1
    BY <2>1 DEF Shape, TaskOK
  <2> QED
    BY <2>2, <2>3 DEF Read
<1> QED
  BY <1>1, <1>2, CalmStep, ListsQuiet DEF Orderly

LEMMA StoringOrderly ==
    ASSUME Alone, Shape, Orderly, NEW g \in Goroutines,
           \/ SourceFails(g) \/ SourceChanged(g) \/ ChunkBegin(g) \/ ChunkRefused(g)
           \/ ChunkWritten(g) \/ ChunkFails(g) \/ UndoChunk(g) \/ UndoDone(g) \/ MetaMissing(g)
    PROVE  Orderly'
<1> USE DEF memory, disk, Goto, Shape, LocalsOK
<1>1. UNCHANGED <<references, metadata>> /\ pc'[g] \in {"idle", "undo", "writing", "chunk", "meta"}
  <2>1. CASE SourceFails(g) \/ UndoDone(g)
    BY <2>1, ReturnCalm DEF SourceFails, UndoDone
  <2>2. CASE SourceChanged(g) \/ ChunkRefused(g) \/ MetaMissing(g)
    BY <2>2, StartUndoCalm DEF SourceChanged, ChunkRefused, MetaMissing
  <2>3. CASE ChunkFails(g)
    BY <2>3, StartUndoCalm DEF ChunkFails
  <2>4. CASE ChunkBegin(g)
    BY <2>4 DEF ChunkBegin
  <2>5. CASE ChunkWritten(g)
    BY <2>5 DEF ChunkWritten
  <2>6. CASE UndoChunk(g)
    BY <2>6 DEF UndoChunk
  <2> QED
    BY <2>1, <2>2, <2>3, <2>4, <2>5, <2>6
<1> QED
  BY <1>1, CalmStep, ListsQuiet DEF Orderly

LEMMA EndsOrderly ==
    ASSUME Alone, Shape, Orderly, NEW g \in Goroutines,
           ReadEnd(g) \/ SweepFails(g) \/ RewriteRefused(g) \/ RewriteDone(g)
    PROVE  Orderly'
<1>1. UNCHANGED <<references, metadata>> /\ Return(g)
  BY DEF ReadEnd, SweepFails, RewriteRefused, RewriteDone, memory, disk
<1> QED
  BY <1>1, CalmStep, ListsQuiet, ReturnCalm DEF Orderly

LEMMA MetaOrderly ==
    ASSUME Caution, Alone, Shape, Solid, Orderly, NEW g \in Goroutines, MetaBegin(g) \/ MetaRefused(g)
    PROVE  Orderly'
<1> DEFINE f == call[g].file
<1>1. pc[g] = "meta" /\ Registered(g) /\ references' = [references EXCEPT ![f] = Live(g)]
  BY DEF MetaBegin, MetaRefused
<1>2. f \in Files /\ RealList(f, Live(g))
  BY <1>1, LiveComplete, RealComplete, CallsAssumption
<1>3. RealList(f, <<>>)
  BY DEF RealList
<1>4. metadata' = metadata \/ metadata' = [metadata EXCEPT ![f] = <<>>]
  BY DEF MetaBegin, MetaRefused, disk
<1>5. pc'[g] \in {"encoding", "undo"}
  BY StartUndoCalm DEF MetaBegin, MetaRefused, Goto, Shape, LocalsOK
<1>6. Lists'
  <2> HIDE DEF f
  <2> QED
    BY <1>1, <1>2, <1>3, <1>4, ListsChange DEF Orderly
<1> QED
  BY <1>5, <1>6, CalmStep

\* The reference that is written to disk lists chunks of its file.
LEMMA EncodedList ==
    ASSUME Shape, Lists, NEW g \in Goroutines, pc[g] \in {"encoding", "rewriting"}
    PROVE  LET f == call[g].file
           IN  f \in Files /\ references[f] \in Seq(ChunkOf(f)) /\ references[f] # Absent
               /\ RealList(f, references[f])
<1> DEFINE f == call[g].file
<1>1. f \in Files /\ references[f] \in Seq(ChunkOf(f))
  BY EncodedType
<1>2. references[f] \in Seq(ChunkType)
  BY <1>1 DEF ChunkOf
<1>3. references[f] # Absent
  BY <1>2, TokensAssumption
<1> QED
  BY <1>1, <1>3 DEF Lists

\* So does what is left of it when the encoder is interrupted.
LEMMA EncodingOrderly ==
    ASSUME Alone, Shape, Orderly, NEW g \in Goroutines,
           MetaWritten(g) \/ MetaFails(g) \/ RewriteFails(g)
    PROVE  Orderly'
<1> DEFINE f == call[g].file
<1>1. pc[g] \in {"encoding", "rewriting"} /\ references' = references
  BY DEF MetaWritten, MetaFails, RewriteFails, memory
<1>2. pc'[g] \in {"idle", "undo"}
  BY ReturnCalm, StartUndoCalm DEF MetaWritten, MetaFails, RewriteFails
<1>3. f \in Files /\ references[f] \in Seq(ChunkOf(f)) /\ RealList(f, references[f])
  BY <1>1, EncodedList DEF Orderly
<1>4. \E v : (v = Broken \/ RealList(f, v)) /\ metadata' = [metadata EXCEPT ![f] = v]
  <2>1. CASE MetaWritten(g)
    BY <1>3, <2>1 DEF MetaWritten
  <2>2. CASE MetaFails(g) \/ RewriteFails(g)
    <3>1. PICK m \in Fragments(references[f]) : metadata' = [metadata EXCEPT ![f] = m]
      BY <2>2 DEF MetaFails, RewriteFails
    <3>2. m = Broken \/ RealList(f, m)
      BY <1>3, RealFragments
    <3> QED
      BY <3>1, <3>2
  <2> QED
    BY <2>1, <2>2
<1>5. Lists'
  <2> HIDE DEF f
  <2> QED
    BY <1>1, <1>3, <1>4, ListsChange DEF Orderly
<1> QED
  BY <1>2, <1>5, CalmStep

\* A reader goes on when it has found the next chunk in place.
LEMMA ReaderStep ==
    ASSUME Alone, Lists', NEW g \in Goroutines, pc'[g] \in {"lookup", "load"}, Reader(g)',
           call'[g].op = "read"
    PROVE  Orderly'
<1>1. \A h \in Goroutines : h = g
  BY DEF Alone
<1> QED
  BY <1>1 DEF Orderly, Readers, Operations, Visits, ReadLabels

LEMMA ReadingOrderly ==
    ASSUME Alone, Shape, Orderly, NEW g \in Goroutines, Recall(g) \/ Lookup(g) \/ Load(g)
    PROVE  Orderly'
<1>1. UNCHANGED <<references, registry, storage, metadata>> /\ pc[g] \in ReadLabels
  BY DEF Recall, Lookup, Load, memory, disk, ReadLabels
<1>2. Lists'
  BY <1>1, ListsQuiet DEF Orderly
<1>3. CASE Return(g)
  BY <1>2, <1>3, CalmStep, ReturnCalm
<1>4. call[g].file \in Files /\ call[g].op = "read" /\ next[g] \in Nat /\ next[g] >= 1
  BY <1>1 DEF Shape, TaskOK, LocalsOK, Orderly, Operations
<1>5. PICK f : f = call[g].file
  OBVIOUS
<1>6. pc \in [Goroutines -> Labels] /\ DOMAIN chunks = Goroutines /\ DOMAIN found = Goroutines
      /\ next \in [Goroutines -> Nat]
  BY DEF Shape, LocalsOK
<1>7. CASE Recall(g) /\ ~Return(g)
  <2>1. references[f] # Absent /\ chunks' = [chunks EXCEPT ![g] = references[f]]
        /\ pc' = [pc EXCEPT ![g] = "lookup"] /\ UNCHANGED <<call, next>> /\ pc[g] = "recall"
    BY <1>5, <1>7 DEF Recall, Goto
  <2>2. next[g] = 1
    BY <2>1 DEF Orderly, Readers
  <2>3. Len(references[f]) \in Nat
    BY <1>4, <1>5, <2>1, LenProperties DEF Shape, MapsOK
  <2>4. Reader(g)'
    BY <1>1, <1>5, <1>6, <2>1, <2>2, <2>3 DEF Reader
  <2> QED
    BY <1>2, <1>4, <1>6, <2>1, <2>4, ReaderStep
<1>8. CASE Lookup(g) /\ ~Return(g)
  <2>1. registry[chunks[g][next[g]].key] # Absent /\ pc[g] = "lookup"
        /\ found' = [found EXCEPT ![g] = registry[chunks[g][next[g]].key]]
        /\ pc' = [pc EXCEPT ![g] = "load"] /\ UNCHANGED <<call, chunks, next>>
        /\ next[g] <= Len(chunks[g])
    BY <1>8 DEF Lookup, Goto
  <2>2. Reader(g)
    BY <2>1 DEF Orderly, Readers
  <2>3. chunks[g] = references[f] /\ next[g] \in 1 .. Len(references[f]) + 1
        /\ references[f] # Absent
        /\ \A i \in 1 .. next[g] - 1 : Legible(references[f], i)
    BY <1>5, <2>2 DEF Reader
  <2>4. \A i \in 1 .. next[g] - 1 : Legible(references[f], i)'
    BY <1>1, <2>1, <2>3 DEF Legible
  <2>5. found'[g] = registry[references[f][next[g]].key]
    BY <1>6, <2>1, <2>3
  <2>6. Reader(g)'
    BY <1>1, <1>5, <2>1, <2>3, <2>4, <2>5 DEF Reader, Legible
  <2> QED
    BY <1>2, <1>4, <1>6, <2>1, <2>6, ReaderStep
<1>9. CASE Load(g) /\ ~Return(g)
  <2>1. Verified(g) /\ pc[g] = "load" /\ next' = [next EXCEPT ![g] = next[g] + 1]
        /\ pc' = [pc EXCEPT ![g] = "lookup"] /\ UNCHANGED <<call, chunks>>
    BY <1>9 DEF Load, Goto
  <2>2. Reader(g)
    BY <2>1 DEF Orderly, Readers
  <2>3. chunks[g] = references[f] /\ next[g] \in 1 .. Len(references[f])
        /\ references[f] # Absent /\ Len(references[f]) \in Nat
        /\ found[g] = registry[references[f][next[g]].key] /\ found[g] # Absent
        /\ \A i \in 1 .. next[g] - 1 : Legible(references[f], i)
    <3>1. references[f] \in Seq(ChunkOf(f))
      BY <1>4, <1>5, <2>2 DEF Reader, Shape, MapsOK
    <3>2. Len(references[f]) \in Nat
      BY <3>1, LenProperties
    <3> QED
      BY <1>4, <1>5, <2>1, <2>2, <3>2 DEF Reader
  <2>4. Legible(references[f], next[g])
    <3>1. references[f][next[g]] \in ChunkType
      <4>1. references[f] \in Seq(ChunkOf(f))
        BY <1>4, <1>5, <2>3 DEF Shape, MapsOK
      <4>2. references[f][next[g]] \in ChunkOf(f)
        BY <2>3, <4>1, ElementOfSeq
      <4> QED
        BY <4>2 DEF ChunkOf
    <3>2. references[f][next[g]].key \in Keys
      BY <3>1 DEF ChunkType
    <3>3. found[g].key = references[f][next[g]].key
      BY <2>3, <3>2 DEF Shape, MapsOK
    <3> QED
      BY <2>1, <2>3, <3>3 DEF Legible, Verified
  <2>5. \A i \in 1 .. next[g] : i = next[g] \/ i \in 1 .. next[g] - 1
    BY <1>4
  <2>6. \A i \in 1 .. next[g] : Legible(references[f], i)
    BY <2>3, <2>4, <2>5
  <2>7. \A i \in 1 .. next[g] : Legible(references[f], i)'
    BY <1>1, <2>6 DEF Legible
  <2>8. next'[g] = next[g] + 1 /\ next'[g] - 1 = next[g] /\ next'[g] \in 1 .. Len(references[f]) + 1
    BY <1>4, <1>6, <2>1, <2>3
  <2>9. \A i \in 1 .. next'[g] - 1 : Legible(references[f], i)'
    BY <2>7, <2>8
  <2>10. pc'[g] = "lookup"
    BY <1>6, <2>1
  <2>11. Reader(g)'
    BY <1>1, <1>5, <2>1, <2>3, <2>8, <2>9, <2>10 DEF Reader, Legible
  <2> QED
    BY <1>2, <1>4, <2>1, <2>10, <2>11, ReaderStep
<1> QED
  BY <1>3, <1>7, <1>8, <1>9

\* A cleanup has left what it has yet to remove.
LEMMA CleanStep ==
    ASSUME Alone, Lists', NEW g \in Goroutines, pc'[g] = "cleaning",
           call'[g].op # ".toml" => \A k \in Keys : CanRemove(k)' => k \in left'[g]
    PROVE  Orderly'
<1>1. \A h \in Goroutines : h = g
  BY DEF Alone
<1> QED
  BY <1>1 DEF Orderly, Readers, Operations, Visits, ReadLabels

LEMMA SweepBeginOrderly ==
    ASSUME Alone, Shape, Orderly, NEW g \in Goroutines, NEW what \in Sweeps, SweepBegin(g, what)
    PROVE  Orderly'
<1>1. UNCHANGED <<references, registry, storage, metadata>> /\ pc'[g] = "cleaning"
      /\ call'[g].op = what /\ left'[g] = Swept(what)
  BY DEF SweepBegin, Begin, Goto, memory, disk, Shape, LocalsOK
<1>2. what # ".toml" => what \in {"all", ".kdht"}
  BY CallsAssumption
<1>3. what # ".toml" => \A k \in Keys : CanRemove(k)' => k \in left'[g]
  BY <1>1, <1>2 DEF CanRemove, Swept
<1>4. Lists'
  BY <1>1, ListsQuiet DEF Orderly
<1> QED
  BY <1>1, <1>3, <1>4, CleanStep

LEMMA SweepChunkOrderly ==
    ASSUME Alone, Shape, Orderly, NEW g \in Goroutines, SweepChunk(g)
    PROVE  Orderly'
<1>1. UNCHANGED <<references, registry, metadata, pc, call>> /\ pc[g] = "cleaning"
  BY DEF SweepChunk, memory
<1>2. PICK k \in left[g] : /\ storage' = [storage EXCEPT ![k] = Absent]
                           /\ left' = [left EXCEPT ![g] = left[g] \ {k}]
  BY DEF SweepChunk
<1>3. left'[g] = left[g] \ {k}
  BY <1>2 DEF Shape, LocalsOK
<1>4. ASSUME NEW j \in Keys, CanRemove(j)', call[g].op # ".toml" PROVE j \in left'[g]
  <2>1. storage'[j] # Absent /\ CanRemove(j)
    BY <1>1, <1>2, <1>4 DEF CanRemove, Shape, MapsOK
  <2>2. j # k
    BY <1>2, <1>4, <2>1 DEF Shape, MapsOK
  <2> QED
    BY <1>1, <1>3, <1>4, <2>1, <2>2 DEF Orderly, Visits
<1>5. Lists'
  BY <1>1, ListsQuiet DEF Orderly
<1> QED
  BY <1>1, <1>4, <1>5, CleanStep

LEMMA SweepMetadataOrderly ==
    ASSUME Alone, Shape, Orderly, NEW g \in Goroutines, SweepMetadata(g)
    PROVE  Orderly'
<1>1. UNCHANGED <<references, registry, storage, pc, call, left>> /\ pc[g] = "cleaning"
  BY DEF SweepMetadata, memory, local
<1>2. PICK f \in Files : metadata' = [metadata EXCEPT ![f] = Absent]
  BY DEF SweepMetadata
<1>3. Lists'
  BY <1>1, <1>2, ListsChange DEF Orderly
<1>4. call[g].op # ".toml" => \A k \in Keys : CanRemove(k)' => k \in left'[g]
  BY <1>1 DEF Orderly, Visits, CanRemove
<1> QED
  BY <1>1, <1>3, <1>4, CleanStep

LEMMA SweepDoneOrderly ==
    ASSUME Alone, Shape, Orderly, NEW g \in Goroutines, SweepDone(g)
    PROVE  Orderly'
<1>1. (\A f \in Files : references'[f] = Absent) /\ metadata' = metadata /\ Return(g)
  BY DEF SweepDone, disk
<1>2. Lists'
  BY <1>1 DEF Orderly, Lists, RealList
<1> QED
  BY <1>1, <1>2, ReturnCalm, CalmStep

\* Rewriting does not change what is known.
LEMMA KnownRewritten ==
    ASSUME UNCHANGED <<references, registry, storage>>
    PROVE  Known' = Known
BY DEF Known, Stands, Whole

LEMMA RewriteOrderly ==
    ASSUME Alone, Shape, Orderly, NEW g \in Goroutines, Rewrite(g)
    PROVE  Orderly'
<1>1. UNCHANGED <<references, registry, storage, metadata>> /\ pc'[g] = "rewrite"
      /\ call'[g].op = "rewrite" /\ left'[g] = {f \in Files : references[f] # Absent}
  BY DEF Rewrite, Begin, Goto, memory, disk, Shape, LocalsOK
<1>2. Known' \subseteq left'[g]
  BY <1>1, KnownRewritten DEF Known
<1>3. Lists'
  BY <1>1, ListsQuiet DEF Orderly
<1>4. \A h \in Goroutines : h = g
  BY DEF Alone
<1> QED
  BY <1>1, <1>2, <1>3, <1>4 DEF Orderly, Readers, Operations, Visits, ReadLabels

LEMMA RewriteBeginOrderly ==
    ASSUME Alone, Shape, Orderly, NEW g \in Goroutines, RewriteBegin(g)
    PROVE  Orderly'
<1>1. UNCHANGED <<references, registry, storage>> /\ pc[g] = "rewrite" /\ pc'[g] = "rewriting"
  BY DEF RewriteBegin, Goto, memory, Shape, LocalsOK
<1>2. PICK f \in left[g] :
         /\ metadata' = [metadata EXCEPT ![f] = <<>>] /\ left' = [left EXCEPT ![g] = left[g] \ {f}]
         /\ call' = [call EXCEPT ![g] = [op |-> "rewrite", file |-> f, sure |-> f \in stored]]
  BY DEF RewriteBegin
<1>3. f \in Files
  BY <1>1 DEF Shape, TaskOK
<1>4. call'[g].op = "rewrite" /\ call'[g].file = f /\ left'[g] = left[g] \ {f}
  BY <1>2 DEF Shape, LocalsOK
<1>5. RealList(f, <<>>)
  BY DEF RealList
<1>6. Lists'
  BY <1>1, <1>2, <1>3, <1>5, ListsChange DEF Orderly
<1>7. \A x \in Files : x # f => Same(x)
  BY <1>1, <1>2, OthersSameFile
<1>8. \A x \in Files : x # f => (x \in Saved' <=> x \in Saved)
  BY <1>7, SameKept DEF Orderly
<1>9. Known' \subseteq left'[g] \cup Saved' \cup {f}
  <2>1. Known \subseteq left[g] \cup Saved
    BY <1>1 DEF Orderly, Visits
  <2> QED
    BY <1>1, <1>4, <1>8, <2>1, KnownRewritten, KnownFilesOnly
<1>10. \A h \in Goroutines : h = g
  BY DEF Alone
<1> QED
  BY <1>1, <1>4, <1>6, <1>9, <1>10 DEF Orderly, Readers, Operations, Visits, ReadLabels

LEMMA RewriteWrittenOrderly ==
    ASSUME Alone, Shape, Orderly, NEW g \in Goroutines, RewriteWritten(g)
    PROVE  Orderly'
<1>0. PICK f : f = call[g].file
  OBVIOUS
<1>1. UNCHANGED <<references, registry, storage, left>> /\ pc[g] = "rewriting" /\ pc'[g] = "rewrite"
      /\ metadata' = [metadata EXCEPT ![f] = references[f]]
  BY <1>0 DEF RewriteWritten, Goto, memory, Shape, LocalsOK
<1>2. call'[g].op = "rewrite"
  BY DEF RewriteWritten, Shape, LocalsOK
<1>3. f \in Files /\ RealList(f, references[f]) /\ references[f] \in Seq(ChunkType)
  <2>1. references[f] \in Seq(ChunkOf(f))
    BY <1>0, <1>1, EncodedList DEF Orderly
  <2> QED
    BY <1>0, <1>1, <2>1, EncodedList, SeqMonotonic DEF Orderly, ChunkOf
<1>4. Lists'
  BY <1>1, <1>3, ListsChange DEF Orderly
<1>5. \A x \in Files : x # f => Same(x)
  BY <1>1, OthersSameFile
<1>6. \A x \in Files : x # f => (x \in Saved' <=> x \in Saved)
  BY <1>5, SameKept DEF Orderly
<1>7. f \in Known => f \in Saved'
  <2>1. metadata'[f] = references[f] /\ metadata'[f] \notin {Absent, Broken}
    BY <1>1, <1>3, TokensAssumption DEF Shape, MapsOK
  <2> QED
    BY <1>1, <1>3, <2>1 DEF Known, Saved, Stands, Whole
<1>8. Known' \subseteq left'[g] \cup Saved'
  <2>1. Known \subseteq left[g] \cup Saved \cup {f}
    BY <1>0, <1>1 DEF Orderly, Visits
  <2> QED
    BY <1>1, <1>6, <1>7, <2>1, KnownRewritten, KnownFilesOnly
<1>9. \A h \in Goroutines : h = g
  BY DEF Alone
<1> QED
  BY <1>1, <1>2, <1>4, <1>8, <1>9 DEF Orderly, Readers, Operations, Visits, ReadLabels

\* Nobody is in a call before and after a restart.
LEMMA NobodyOrderly ==
    ASSUME Lists', \A g \in Goroutines : pc'[g] = "idle"
    PROVE  Orderly'
BY DEF Orderly, Readers, Operations, Visits, ReadLabels

LEMMA CrashOrderly ==
    ASSUME Shape, Orderly, Crash
    PROVE  Orderly'
<1>1. (\A g \in Goroutines : pc'[g] = "idle") /\ \A f \in Files : references'[f] = Absent
  BY DEF Crash
<1>2. CASE UNCHANGED metadata
  BY <1>1, <1>2, NobodyOrderly DEF Orderly, Lists, RealList
<1>3. ASSUME NEW g \in Goroutines, pc[g] \in {"encoding", "rewriting"},
             NEW m \in Fragments(references[call[g].file]) \cup {references[call[g].file]},
             metadata' = [metadata EXCEPT ![call[g].file] = m]
      PROVE  Orderly'
  <2>1. PICK f : f = call[g].file
    OBVIOUS
  <2>2. f \in Files /\ references[f] \in Seq(ChunkOf(f)) /\ RealList(f, references[f])
    BY <1>3, <2>1, EncodedList DEF Orderly
  <2>3. m = Broken \/ RealList(f, m)
    BY <1>3, <2>1, <2>2, RealFragments
  <2>4. ASSUME NEW x \in Files PROVE metadata'[x] \in {Absent, Broken} \/ RealList(x, metadata'[x])
    BY <1>3, <2>1, <2>3 DEF Shape, MapsOK, Orderly, Lists
  <2>5. Lists'
    BY <1>1, <2>4 DEF Lists, RealList, Real, Piece, Key, Chunk
  <2> QED
    BY <1>1, <2>5, NobodyOrderly
<1> QED
  BY <1>2, <1>3 DEF Crash, disk

\* A restart moves away the files in moved, and finds the rest on disk.
Restarts(moved, G, M) ==
    /\ moved \in SUBSET Orphans
    /\ references' = [f \in Files |-> IF f \in Decoded \ moved THEN metadata[f] ELSE Absent]
    /\ registry' = Restored(Decoded \ moved)
    /\ storage' = [k \in Keys |-> IF k \in G THEN Absent ELSE storage[k]]
    /\ metadata' = [f \in Files |-> IF f \in M THEN Absent ELSE metadata[f]]
    /\ G \subseteq UNION {KeysOf(metadata[f]) : f \in moved} /\ M \subseteq moved

LEMMA BootstrapRestarts ==
    ASSUME Bootstrap
    PROVE  \E moved, G, M : Restarts(moved, G, M)
<1>1. PICK kept \in SUBSET Orphans, stuck \in SUBSET Keys, stay \in SUBSET Orphans :
        LET moved == Orphans \ kept
            gone  == UNION {KeysOf(metadata[f]) : f \in moved}
            known == Decoded \ moved
        IN  /\ stuck \subseteq {k \in gone : storage[k] # Absent} /\ stay \subseteq moved
            /\ \/ kept \cup stay \cup stuck = {} /\ UNCHANGED faults
               \/ /\ \/ Cardinality(kept) + Cardinality(stay) + Cardinality(stuck) = 1
                     \/ kept = Orphans /\ kept # {}
                  /\ Fault
            /\ references' = [f \in Files |-> IF f \in known THEN metadata[f] ELSE Absent]
            /\ registry' = Restored(known)
            /\ storage' = [k \in Keys |-> IF k \in gone \ stuck THEN Absent ELSE storage[k]]
            /\ metadata' = [f \in Files |-> IF f \in moved \ stay THEN Absent ELSE metadata[f]]
  BY DEF Bootstrap
<1> DEFINE moved == Orphans \ kept
           G     == (UNION {KeysOf(metadata[f]) : f \in moved}) \ stuck
           M     == moved \ stay
<1>2. moved \in SUBSET Orphans /\ M \subseteq moved
      /\ G \subseteq UNION {KeysOf(metadata[f]) : f \in moved}
  OBVIOUS
<1>3. /\ references' = [f \in Files |-> IF f \in Decoded \ moved THEN metadata[f] ELSE Absent]
      /\ registry' = Restored(Decoded \ moved)
  BY <1>1
<1>4. metadata' = [f \in Files |-> IF f \in M THEN Absent ELSE metadata[f]]
  BY <1>1
<1>5. storage' = [k \in Keys |-> IF k \in G THEN Absent ELSE storage[k]]
  BY <1>1
<1>6. Restarts(moved, G, M)
  <2> HIDE DEF moved, G, M
  <2> QED
    BY <1>2, <1>3, <1>4, <1>5 DEF Restarts, moved
<1> QED
  BY <1>6

LEMMA BootstrapOrderly ==
    ASSUME Shape, Orderly, Bootstrap
    PROVE  Orderly'
<1>1. ~up /\ pc' = pc
  BY DEF Bootstrap
<1>2. \A g \in Goroutines : pc'[g] = "idle"
  BY <1>1 DEF Shape, TaskOK
<1>3. PICK moved, G, M : Restarts(moved, G, M)
  BY BootstrapRestarts
<1>4. ASSUME NEW f \in Files
      PROVE  /\ references'[f] = Absent \/ RealList(f, references'[f])
             /\ metadata'[f] \in {Absent, Broken} \/ RealList(f, metadata'[f])
  <2>1. f \in Decoded => RealList(f, metadata[f])
    BY DEF Decoded, Orderly, Lists
  <2> QED
    BY <1>3, <2>1 DEF Restarts, Orderly, Lists
<1>5. Lists'
  BY <1>4 DEF Lists, RealList, Real, Piece, Key, Chunk
<1> QED
  BY <1>2, <1>5, NobodyOrderly

LEMMA StepOrderly == Caution /\ Alone /\ Shape /\ Solid /\ Orderly /\ [Next]_vars => Orderly'
<1> SUFFICES ASSUME Caution, Alone, Shape, Solid, Orderly, Next PROVE Orderly'
  BY UnchangedOrderly
<1>1. CASE Crash
  BY <1>1, CrashOrderly
<1>2. CASE Bootstrap
  BY <1>2, BootstrapOrderly
<1>3. ASSUME NEW g \in Goroutines, Call(g) PROVE Orderly'
  BY <1>3, CallsOrderly, SweepBeginOrderly, RewriteOrderly DEF Call
<1>4. ASSUME NEW g \in Goroutines, Step(g) PROVE Orderly'
  BY <1>4, StoringOrderly, EndsOrderly, MetaOrderly, EncodingOrderly, ReadingOrderly,
     SweepChunkOrderly, SweepMetadataOrderly, SweepDoneOrderly,
     RewriteBeginOrderly, RewriteWrittenOrderly DEF Step
<1> QED
  BY <1>1, <1>2, <1>3, <1>4 DEF Next

THEOREM OrderlyInvariant == ASSUME Caution, Alone PROVE Spec => []Orderly
<1>1. Spec => []Shape
  BY ShapeInvariant
<1>2. Spec => []Solid
  BY SolidInvariant
<1> QED
  BY <1>1, <1>2, InitOrderly, StepOrderly, PTL DEF Spec

-----------------------------------------------------------------------------
(* What FileStore sees of a goroutine, and when it moves.                  *)

Phase(g) ==
    /\ pc[g] = "idle" => Task(g) = "none" /\ Subject(g) = Absent
    /\ pc[g] \in {"chunk", "writing", "meta", "undo"} =>
          Task(g) = "store" /\ Subject(g) = call[g].file
    /\ pc[g] = "encoding" => Task(g) = "commit" /\ Subject(g) = call[g].file
    /\ pc[g] = "cleaning" =>
          /\ Task(g) \in {"clean", "cleaned"} /\ Subject(g) = Absent
          /\ Task(g) = "cleaned" <=> left[g] = {} /\ ~MetadataLeft(g)
    /\ pc[g] \in {"rewrite", "rewriting"} =>
          /\ Task(g) \in {"rewrite", "written"} /\ Subject(g) = Absent
          /\ Task(g) = "written" <=> pc[g] = "rewrite" /\ left[g] = {}
    /\ pc[g] \in ReadLabels =>
          /\ Task(g) \in {"read", "found"} /\ Subject(g) = call[g].file
          /\ Task(g) = "found" <=> pc[g] = "lookup" /\ next[g] > Len(chunks[g]) /\ Reassembled(g)

InPhase == \A g \in Goroutines : Phase(g)

LEMMA Phases == Shape /\ Orderly => InPhase
<1> SUFFICES ASSUME Shape, Orderly, NEW g \in Goroutines PROVE Phase(g)
  BY DEF InPhase
<1>1. CASE pc[g] = "idle"
  <2>1. call[g] = Idle
    BY <1>1 DEF Shape, TaskOK
  <2>2. call[g].op # "read"
    BY <2>1 DEF Idle
  <2> QED
    BY <1>1, <2>2 DEF Phase, Task, Subject, Storing, ReadLabels
<1>2. CASE Storing(g)
  BY <1>2 DEF Phase, Task, Subject, Storing, ReadLabels
<1>3. CASE pc[g] = "cleaning"
  <2>1. call[g].op # "read"
    BY <1>3, CallsAssumption DEF Shape, TaskOK
  <2> QED
    BY <1>3, <2>1 DEF Phase, Task, Subject, Storing, ReadLabels
<1>4. CASE pc[g] \in {"rewrite", "rewriting"}
  <2>1. call[g].op # "read"
    BY <1>4 DEF Orderly, Operations
  <2> QED
    BY <1>4, <2>1 DEF Phase, Task, Subject, Storing, ReadLabels
<1>5. CASE pc[g] \in ReadLabels
  <2>1. call[g].op = "read"
    BY <1>5 DEF Orderly, Operations
  <2> QED
    BY <1>5, <2>1 DEF Phase, Task, Subject, Storing, ReadLabels
<1>6. pc[g] \in Labels
  BY DEF Shape, LocalsOK
<1> QED
  BY <1>1, <1>2, <1>3, <1>4, <1>5, <1>6 DEF Labels, StoreLabels, Storing

LEMMA PhasesAfter == Shape' /\ Orderly' => InPhase'
BY Phases, PTL

\* Nothing FileStore sees has changed.
Stutters ==
    UNCHANGED <<Known, Saved, up, [g \in Goroutines |-> Task(g)], [g \in Goroutines |-> Subject(g)]>>

\* With one caller, what that caller does is all there is to see.
LEMMA BecomeSeen ==
    ASSUME Alone, NEW g \in Goroutines, NEW what, Task(g)' = what, Subject(g)' = Subject(g), up' = up
    PROVE  Promised!Become(g, what)
<1>1. Goroutines = {g}
  BY DEF Alone
<1>2. [h \in Goroutines |-> Task(h)]' = [[h \in Goroutines |-> Task(h)] EXCEPT ![g] = what]
  BY <1>1
<1>3. [h \in Goroutines |-> Subject(h)]' = [h \in Goroutines |-> Subject(h)]
  BY <1>1
<1> QED
  BY <1>2, <1>3 DEF Promised!Become

LEMMA ReturnSeen ==
    ASSUME Alone, NEW g \in Goroutines, Task(g)' = "none", Subject(g)' = Absent, up' = up
    PROVE  Promised!Return(g)
<1>1. Goroutines = {g}
  BY DEF Alone
<1>2. [h \in Goroutines |-> Task(h)]' = [[h \in Goroutines |-> Task(h)] EXCEPT ![g] = "none"]
  BY <1>1
<1>3. [h \in Goroutines |-> Subject(h)]' = [[h \in Goroutines |-> Subject(h)] EXCEPT ![g] = Absent]
  BY <1>1
<1> QED
  BY <1>2, <1>3 DEF Promised!Return

LEMMA AskSeen ==
    ASSUME Alone, NEW g \in Goroutines, NEW what, NEW f, up, Task(g) = "none",
           Task(g)' = what, Subject(g)' = f, up' = up, Known' = Known, Saved' = Saved
    PROVE  Promised!Ask(g, what, f)
<1>1. Goroutines = {g}
  BY DEF Alone
<1>2. [h \in Goroutines |-> Task(h)]' = [[h \in Goroutines |-> Task(h)] EXCEPT ![g] = what]
  BY <1>1
<1>3. [h \in Goroutines |-> Subject(h)]' = [[h \in Goroutines |-> Subject(h)] EXCEPT ![g] = f]
  BY <1>1
<1> QED
  BY <1>2, <1>3 DEF Promised!Ask

LEMMA NothingSeen ==
    ASSUME Alone, NEW g \in Goroutines, Task(g)' = Task(g), Subject(g)' = Subject(g), up' = up,
           Known' = Known, Saved' = Saved
    PROVE  Stutters
<1>1. Goroutines = {g}
  BY DEF Alone
<1>2. [h \in Goroutines |-> Task(h)]' = [h \in Goroutines |-> Task(h)]
  BY <1>1
<1>3. [h \in Goroutines |-> Subject(h)]' = [h \in Goroutines |-> Subject(h)]
  BY <1>1
<1> QED
  BY <1>2, <1>3 DEF Stutters

\* A goroutine that returns, and one whose store fails.
LEMMA ReturnsSeen ==
    ASSUME Alone, Shape, Shape', Orderly', NEW g \in Goroutines, Return(g), up' = up
    PROVE  Promised!Return(g)
<1>1. pc'[g] = "idle"
  BY ReturnCalm
<1>2. Task(g)' = "none" /\ Subject(g)' = Absent
  BY <1>1, PhasesAfter DEF InPhase, Phase
<1> QED
  BY <1>2, ReturnSeen

LEMMA UndoSeen ==
    ASSUME Alone, Shape, Shape', Orderly, Orderly', NEW g \in Goroutines, StartUndo(g), Storing(g),
           up' = up
    PROVE  Promised!Become(g, "store")
<1>1. pc'[g] = "undo" /\ call' = call
  BY StartUndoCalm DEF StartUndo
<1>2. Task(g)' = "store" /\ Subject(g)' = call[g].file
  BY <1>1, PhasesAfter DEF InPhase, Phase
<1>3. Subject(g) = call[g].file
  BY Phases DEF InPhase, Phase, Storing
<1> QED
  BY <1>2, <1>3, BecomeSeen

-----------------------------------------------------------------------------
(* The steps of a store.                                                   *)

\* A file whose reference is complete, and in place, is known.
CompleteIsKnown ==
    \A f \in Files, how \in {"load", "write"} :
        <<how, f>> \in Uploads /\ references[f] = Complete(how, f) /\ OnDisk(how, f) /\ InMemory(how, f)
            => f \in Known

LEMMA CompleteKnown == CompleteIsKnown
<1> SUFFICES ASSUME NEW f \in Files, NEW how \in {"load", "write"}, <<how, f>> \in Uploads,
                    references[f] = Complete(how, f), OnDisk(how, f), InMemory(how, f)
             PROVE  f \in Known
  BY DEF CompleteIsKnown
<1>1. Len(references[f]) = ChunkCount[f] /\ references[f] # Absent
  BY CompleteType
<1>2. ASSUME NEW i \in 1 .. ChunkCount[f]
      PROVE  /\ references[f][i].data = <<f, i>> /\ references[f][i].here
             /\ storage[references[f][i].key] = <<f, i>>
             /\ registry[references[f][i].key] = references[f][i]
  <2>1. references[f][i] = Piece(how, f, i)
    BY DEF Complete
  <2> QED
    BY <2>1, PieceType DEF OnDisk, InMemory
<1>3. Stands(f, references[f])
  BY <1>1, <1>2 DEF Stands, Whole
<1> QED
  BY <1>1, <1>2, <1>3 DEF Known

LEMMA CompleteKnownAfter == CompleteIsKnown'
BY CompleteKnown, PTL

LEMMA StoreSeen ==
    ASSUME Alone, Shape, Shape', Orderly, Orderly', NEW g \in Goroutines,
           NEW how \in {"load", "write"}, NEW f \in Files, Store(g, how, f)
    PROVE  Promised!Ask(g, "store", f)
<1>1. UNCHANGED <<memory, disk, up>> /\ up /\ pc[g] = "idle" /\ pc'[g] = "chunk" /\ call'[g].file = f
  BY DEF Store, Begin, Goto, world, Shape, LocalsOK
<1>2. Known' = Known /\ Saved' = Saved
  BY <1>1, SameAll, AllKept DEF Orderly
<1>3. Task(g) = "none"
  BY <1>1, Phases DEF InPhase, Phase
<1>4. Task(g)' = "store" /\ Subject(g)' = f
  BY <1>1, PhasesAfter DEF InPhase, Phase
<1> QED
  BY <1>1, <1>2, <1>3, <1>4, AskSeen

LEMMA StoreFailsSeen ==
    ASSUME Alone, Shape, Shape', Orderly, Orderly', NEW g \in Goroutines,
           SourceFails(g) \/ UndoDone(g)
    PROVE  Promised!StoreFails(g)
<1>1. UNCHANGED <<memory, disk, up>> /\ Return(g) /\ pc[g] \in {"chunk", "undo"}
  BY DEF SourceFails, UndoDone, world
<1>2. Known' = Known /\ Saved' = Saved
  BY <1>1, SameAll, AllKept DEF Orderly
<1>3. Task(g) = "store"
  BY <1>1, Phases DEF InPhase, Phase
<1>4. Promised!Return(g)
  BY <1>1, ReturnsSeen
<1> QED
  BY <1>2, <1>3, <1>4 DEF Promised!StoreFails

LEMMA UndoStartsSeen ==
    ASSUME Alone, Shape, Shape', Orderly, Orderly', NEW g \in Goroutines,
           SourceChanged(g) \/ ChunkRefused(g) \/ MetaMissing(g)
    PROVE  Stutters
<1>1. UNCHANGED <<memory, disk, up, call>> /\ pc[g] \in {"chunk", "meta"} /\ pc'[g] = "undo"
  BY StartUndoCalm DEF SourceChanged, ChunkRefused, MetaMissing, world, StartUndo
<1>2. Known' = Known /\ Saved' = Saved
  BY <1>1, SameAll, AllKept DEF Orderly
<1>3. Task(g) = "store" /\ Subject(g) = call[g].file
  BY <1>1, Phases DEF InPhase, Phase
<1>4. Task(g)' = "store" /\ Subject(g)' = call[g].file
  BY <1>1, PhasesAfter DEF InPhase, Phase
<1> QED
  BY <1>1, <1>2, <1>3, <1>4, NothingSeen

\* What a step that touches one file only is, to FileStore.
LEMMA StoreOnSeen ==
    ASSUME Alone, Shape, Shape', Orderly, Orderly', NEW g \in Goroutines, Storing(g),
           pc'[g] \in {"chunk", "writing", "meta", "undo"}, call' = call, up' = up,
           \A f \in Files : f # call[g].file => Same(f)
    PROVE  Promised!StoreOn(g)
<1>1. Task(g) \in {"store", "commit"} /\ Subject(g) = call[g].file
  BY Phases DEF InPhase, Phase, Storing
<1>2. Task(g)' = "store" /\ Subject(g)' = call[g].file
  BY PhasesAfter DEF InPhase, Phase
<1>3. Promised!Become(g, "store")
  BY <1>1, <1>2, BecomeSeen
<1>4. Promised!ButFor(Known', Known, call[g].file) /\ Promised!ButFor(Saved', Saved, call[g].file)
  BY OthersKept DEF Orderly
<1> QED
  BY <1>1, <1>3, <1>4 DEF Promised!StoreOn

LEMMA ChunkSeen ==
    ASSUME Caution, Alone, Shape, Shape', Solid, Orderly, Orderly', NEW g \in Goroutines,
           ChunkBegin(g) \/ ChunkWritten(g) \/ ChunkFails(g)
    PROVE  Promised!StoreOn(g)
<1> USE DEF Goto, Shape, LocalsOK
<1>1. pc[g] \in {"chunk", "writing"} /\ UNCHANGED <<references, metadata, call, up>>
  BY DEF ChunkBegin, ChunkWritten, ChunkFails, StartUndo, memory, local, world
<1>2. pc'[g] \in {"chunk", "writing", "meta", "undo"}
  <2>1. CASE ChunkBegin(g)
    BY <2>1 DEF ChunkBegin
  <2>2. CASE ChunkWritten(g)
    BY <2>2 DEF ChunkWritten
  <2>3. CASE ChunkFails(g)
    BY <2>3, StartUndoCalm DEF ChunkFails
  <2> QED
    BY <2>1, <2>2, <2>3
<1>3. Current(g).key \in OwnKeys(call[g].file)
  BY <1>1, CurrentOwn
<1>4. \E v : storage' = [storage EXCEPT ![Current(g).key] = v]
  BY DEF ChunkBegin, ChunkWritten, ChunkFails
<1>5. registry' = registry \/ \E v : registry' = [registry EXCEPT ![Current(g).key] = v]
  BY DEF ChunkBegin, ChunkWritten, ChunkFails, memory
<1>6. \A f \in Files : f # call[g].file => Same(f)
  BY <1>1, <1>3, <1>4, <1>5, OthersSame
<1>7. Storing(g)
  BY <1>1 DEF Storing
<1> QED
  BY <1>1, <1>2, <1>6, <1>7, StoreOnSeen

LEMMA UndoChunkSeen ==
    ASSUME Caution, Alone, Shape, Shape', Solid, Orderly, Orderly', NEW g \in Goroutines, UndoChunk(g)
    PROVE  Promised!StoreOn(g)
<1>1. pc[g] = "undo" /\ next[g] <= Len(chunks[g]) /\ UNCHANGED <<references, metadata, pc, call, up>>
  BY DEF UndoChunk
<1>2. Storing(g)
  BY <1>1 DEF Storing
<1>3. PICK k : k = chunks[g][next[g]].key
  OBVIOUS
<1>4. k \in OwnKeys(call[g].file)
  <2>1. next[g] \in Nat /\ next[g] >= 1 /\ Len(chunks[g]) \in Nat
    BY <1>1, <1>2, PartialFacts DEF Shape, TaskOK
  <2>2. next[g] \in 1 .. Len(chunks[g])
    BY <1>1, <2>1
  <2> QED
    BY <1>2, <1>3, <2>2, PartialFacts
<1>5. storage' = storage \/ \E v : storage' = [storage EXCEPT ![k] = v]
  BY <1>3 DEF UndoChunk
<1>6. registry' = registry \/ \E v : registry' = [registry EXCEPT ![k] = v]
  BY <1>3 DEF UndoChunk
<1>7. \A f \in Files : f # call[g].file => Same(f)
  BY <1>1, <1>4, <1>5, <1>6, OthersSame
<1> QED
  BY <1>1, <1>2, <1>7, StoreOnSeen

LEMMA MetaEndsSeen ==
    ASSUME Alone, Shape, Shape', Orderly, Orderly', NEW g \in Goroutines, MetaRefused(g) \/ MetaFails(g)
    PROVE  Promised!StoreOn(g)
<1>1. pc[g] \in {"meta", "encoding"} /\ UNCHANGED <<registry, storage, up, call>> /\ pc'[g] = "undo"
  BY StartUndoCalm DEF MetaRefused, MetaFails, memory, disk, StartUndo
<1>2. references' = references \/ \E v : references' = [references EXCEPT ![call[g].file] = v]
  BY DEF MetaRefused, MetaFails, memory
<1>3. metadata' = metadata \/ \E v : metadata' = [metadata EXCEPT ![call[g].file] = v]
  BY DEF MetaRefused, MetaFails, disk
<1>4. \A f \in Files : f # call[g].file => Same(f)
  BY <1>1, <1>2, <1>3, OthersSameFile
<1>5. Storing(g)
  BY <1>1 DEF Storing
<1> QED
  BY <1>1, <1>4, <1>5, StoreOnSeen

LEMMA MetaBeginSeen ==
    ASSUME Caution, Alone, Shape, Shape', Solid, Orderly, Orderly', NEW g \in Goroutines, MetaBegin(g)
    PROVE  Promised!Commit(g)
<1>0. PICK f, how : f = call[g].file /\ how = call[g].op
  OBVIOUS
<1>1. pc[g] = "meta" /\ Registered(g) /\ UNCHANGED <<registry, storage, call, up>>
      /\ references' = [references EXCEPT ![f] = Live(g)]
      /\ metadata' = [metadata EXCEPT ![f] = <<>>]
  BY <1>0 DEF MetaBegin, local, world
<1>2. pc'[g] = "encoding"
  BY DEF MetaBegin, Goto, Shape, LocalsOK
<1>3. Live(g) = Complete(how, f) /\ OnDisk(how, f) /\ InMemory(how, f)
      /\ <<how, f>> \in Uploads /\ how \in {"load", "write"} /\ f \in Files
  BY <1>0, <1>1, LiveComplete, CallsAssumption
<1>4. f \in Known'
  <2>1. references'[f] = Complete(how, f)
    BY <1>1, <1>3 DEF Shape, MapsOK
  <2>2. OnDisk(how, f)' /\ InMemory(how, f)'
    BY <1>1, <1>3 DEF OnDisk, InMemory
  <2> QED
    BY <1>3, <2>1, <2>2, CompleteKnownAfter DEF CompleteIsKnown
<1>5. \A x \in Files : x # f => Same(x)
  BY <1>1, OthersSameFile
<1>6. Promised!ButFor(Known', Known, f) /\ Promised!ButFor(Saved', Saved, f)
  BY <1>5, OthersKept DEF Orderly
<1>7. Known' = Known \cup {f}
  BY <1>4, <1>6 DEF Promised!ButFor
<1>8. Task(g) = "store" /\ Subject(g) = f
  BY <1>0, <1>1, Phases DEF InPhase, Phase
<1>9. Task(g)' = "commit" /\ Subject(g)' = f
  BY <1>0, <1>1, <1>2, PhasesAfter DEF InPhase, Phase
<1>10. Promised!Become(g, "commit")
  BY <1>1, <1>8, <1>9, BecomeSeen
<1> QED
  BY <1>6, <1>7, <1>8, <1>10 DEF Promised!Commit

LEMMA MetaWrittenSeen ==
    ASSUME Alone, Shape, Shape', Solid, Orderly, Orderly', NEW g \in Goroutines, MetaWritten(g)
    PROVE  Promised!Stored(g)
<1>0. PICK f : f = call[g].file
  OBVIOUS
<1>1. pc[g] = "encoding" /\ Return(g) /\ metadata' = [metadata EXCEPT ![f] = references[f]]
      /\ UNCHANGED <<references, registry, storage, up>>
  BY <1>0 DEF MetaWritten, memory
<1>2. f \in Files
  BY <1>0, <1>1, EncodedType
<1>3. PICK how \in {"load", "write"} :
        /\ <<how, f>> \in Uploads
        /\ references[f] = Complete(how, f) /\ OnDisk(how, f) /\ InMemory(how, f)
  BY <1>0, <1>1 DEF Solid, Sound
<1>4. f \in Known
  BY <1>2, <1>3, CompleteKnown DEF CompleteIsKnown
<1>5. f \in Saved'
  <2>1. metadata'[f] = references[f] /\ metadata'[f] \notin {Absent, Broken}
    BY <1>1, <1>2, <1>3, CompleteType DEF Shape, MapsOK
  <2> QED
    BY <1>1, <1>2, <1>4, <2>1 DEF Known, Saved, Stands, Whole
<1>6. \A x \in Files : x # f => Same(x)
  BY <1>1, OthersSameFile
<1>7. Saved' = Saved \cup {f}
  <2>1. Promised!ButFor(Saved', Saved, f)
    BY <1>6, OthersKept DEF Orderly
  <2> QED
    BY <1>5, <2>1 DEF Promised!ButFor
<1>8. Known' = Known
  BY <1>1, KnownRewritten
<1>9. Task(g) = "commit" /\ Subject(g) = f
  BY <1>0, <1>1, Phases DEF InPhase, Phase
<1>10. Promised!Return(g)
  BY <1>1, ReturnsSeen
<1> QED
  BY <1>4, <1>7, <1>8, <1>9, <1>10 DEF Promised!Stored

-----------------------------------------------------------------------------
(* The steps of a read.                                                    *)

\* The chunks of a known file are where its reference says.
LEMMA KnownChunks ==
    ASSUME Shape, Lists, NEW f \in Known, NEW i \in 1 .. ChunkCount[f]
    PROVE  /\ Len(references[f]) = ChunkCount[f] /\ references[f] # Absent
           /\ references[f][i].data = <<f, i>> /\ references[f][i].here /\ references[f][i] # Absent
           /\ references[f][i].key \in Keys /\ references[f][i].key \in OwnKeys(f)
           /\ registry[references[f][i].key] = references[f][i]
           /\ storage[references[f][i].key] = <<f, i>> /\ <<f, i>> # Absent
<1>1. /\ f \in Files /\ references[f] # Absent /\ Stands(f, references[f])
      /\ \A j \in 1 .. ChunkCount[f] : registry[references[f][j].key] = references[f][j]
  BY DEF Known
<1>2. Whole(f, references[f]) /\ storage[references[f][i].key] = <<f, i>>
  BY <1>1 DEF Stands
<1>3. references[f] \in Seq(ChunkOf(f)) /\ RealList(f, references[f])
  BY <1>1, <1>2, KnownList
<1>4. /\ Len(references[f]) = ChunkCount[f] /\ references[f][i].data = <<f, i>>
      /\ references[f][i].data \in Data /\ references[f][i].here
      /\ references[f][i].key \in OwnKeys(f) /\ references[f][i].key \in Keys
  BY <1>1, <1>2, <1>3, WholeKeys
<1>5. references[f][i] # Absent
  <2>1. references[f][i] \in ChunkOf(f)
    BY <1>3, <1>4, ElementOfSeq
  <2> QED
    BY <2>1, TokensAssumption DEF ChunkOf
<1>6. <<f, i>> # Absent
  BY <1>4, TokensAssumption
<1> QED
  BY <1>1, <1>2, <1>4, <1>5, <1>6

\* What has been put together and found right is the file, and it is known.
LEMMA FoundKnown ==
    ASSUME Shape, Orderly, NEW g \in Goroutines, Task(g) = "found", pc[g] \in ReadLabels
    PROVE  call[g].file \in Known
<1>0. PICK f : f = call[g].file
  OBVIOUS
<1>1. pc[g] = "lookup" /\ next[g] > Len(chunks[g]) /\ Reassembled(g)
  BY Phases DEF InPhase, Phase
<1>2. f \in Files /\ ChunkCount[f] \in Nat /\ next[g] \in Nat
  BY <1>0, CountAssumption DEF Shape, TaskOK, LocalsOK
<1>3. Reader(g)
  BY <1>1 DEF Orderly, Readers
<1>4. PICK ref : ref = references[f]
  OBVIOUS
<1>5. ref # Absent /\ chunks[g] = ref /\ next[g] \in 1 .. Len(ref) + 1
      /\ \A i \in 1 .. next[g] - 1 : Legible(ref, i)
  BY <1>0, <1>3, <1>4 DEF Reader
<1>6. ref \in Seq(ChunkOf(f)) /\ RealList(f, ref) /\ Len(ref) \in Nat
  BY <1>2, <1>4, <1>5, LenProperties DEF Shape, MapsOK, Orderly, Lists
<1>7. next[g] = ChunkCount[f] + 1 /\ [i \in 1 .. Len(ref) |-> ref[i].data] = Content(f)
  BY <1>0, <1>1, <1>5 DEF Reassembled
<1>8. Len(ref) = ChunkCount[f]
  BY <1>1, <1>2, <1>5, <1>6, <1>7
<1>9. ASSUME NEW i \in 1 .. ChunkCount[f]
      PROVE  /\ ref[i].data = <<f, i>> /\ ref[i].here
             /\ storage[ref[i].key] = <<f, i>> /\ registry[ref[i].key] = ref[i]
  <2>1. ref[i].data = <<f, i>>
    BY <1>7, <1>8 DEF Content
  <2>2. Legible(ref, i)
    BY <1>2, <1>5, <1>7
  <2>3. <<f, i>> # Absent
    BY <1>2, TokensAssumption DEF Data
  <2>4. PICK how \in {"load", "write"}, j \in 1 .. ChunkCount[f] : ref[i] = Piece(how, f, j)
    BY <1>6, <1>8, <2>1, <2>3 DEF RealList, Real
  <2>5. ref[i].here
    BY <2>4 DEF Piece, Chunk
  <2>6. ref[i] \in ChunkType /\ ref[i].key \in Keys
    BY <1>6, <1>8, ElementOfSeq DEF ChunkOf, ChunkType
  <2>7. registry[ref[i].key] \in ChunkType /\ registry[ref[i].key].key = ref[i].key
    BY <2>2, <2>6 DEF Legible, Shape, MapsOK
  <2>8. registry[ref[i].key].here = TRUE /\ ref[i].here = TRUE
        /\ registry[ref[i].key].data = ref[i].data
    BY <2>2, <2>5, <2>6, <2>7 DEF Legible, ChunkType
  <2>9. registry[ref[i].key] = ref[i]
    BY <2>6, <2>7, <2>8 DEF ChunkType
  <2> QED
    BY <2>1, <2>2, <2>5, <2>9 DEF Legible
<1>10. Stands(f, ref)
  BY <1>8, <1>9 DEF Stands, Whole
<1> QED
  BY <1>0, <1>2, <1>4, <1>5, <1>9, <1>10 DEF Known

FoundIsKnown ==
    Shape /\ Orderly =>
        \A g \in Goroutines : Task(g) = "found" /\ pc[g] \in ReadLabels => call[g].file \in Known

LEMMA FoundKnownAfter == FoundIsKnown'
<1>1. FoundIsKnown
  BY FoundKnown DEF FoundIsKnown
<1> QED
  BY <1>1, PTL

LEMMA ReadSeen ==
    ASSUME Alone, Shape, Shape', Orderly, Orderly', NEW g \in Goroutines, NEW f \in Files, Read(g, f)
    PROVE  Promised!Ask(g, "read", f)
<1>1. UNCHANGED <<memory, disk, up>> /\ up /\ pc[g] = "idle" /\ pc'[g] = "recall" /\ call'[g].file = f
  BY DEF Read, Begin, Goto, world, Shape, LocalsOK
<1>2. Known' = Known /\ Saved' = Saved
  BY <1>1, SameAll, AllKept DEF Orderly
<1>3. Task(g) = "none"
  BY <1>1, Phases DEF InPhase, Phase
<1>4. Task(g)' = "read" /\ Subject(g)' = f
  BY <1>1, PhasesAfter DEF InPhase, Phase, ReadLabels
<1> QED
  BY <1>1, <1>2, <1>3, <1>4, AskSeen

\* A reader that gives up has not found the file, and there is none to find.
LEMMA RefuseSeen ==
    ASSUME Alone, Shape, Shape', Orderly, Orderly', NEW g \in Goroutines, pc[g] \in ReadLabels,
           Task(g) = "read", Return(g), UNCHANGED <<memory, disk, up>>, call[g].file \notin Known
    PROVE  Promised!Refuse(g)
<1>1. Known' = Known /\ Saved' = Saved
  BY SameAll, AllKept DEF Orderly
<1>2. Subject(g) = call[g].file
  BY Phases DEF InPhase, Phase
<1>3. Promised!Return(g)
  BY ReturnsSeen
<1> QED
  BY <1>1, <1>2, <1>3 DEF Promised!Refuse

\* A reader that goes on.
LEMMA ReadsOnSeen ==
    ASSUME Alone, Shape, Shape', Orderly, Orderly', NEW g \in Goroutines, pc[g] \in ReadLabels,
           Task(g) = "read", pc'[g] \in ReadLabels, UNCHANGED <<memory, disk, up, call>>
    PROVE  Promised!Find(g) \/ Stutters
<1>1. Known' = Known /\ Saved' = Saved
  BY SameAll, AllKept DEF Orderly
<1>2. Subject(g) = call[g].file
  BY Phases DEF InPhase, Phase
<1>3. Subject(g)' = call[g].file /\ Task(g)' \in {"read", "found"}
  BY PhasesAfter DEF InPhase, Phase
<1>4. CASE Task(g)' = "read"
  BY <1>1, <1>2, <1>3, <1>4, NothingSeen
<1>5. CASE Task(g)' = "found"
  <2>1. Promised!Become(g, "found")
    BY <1>2, <1>3, <1>5, BecomeSeen
  <2>2. call'[g].file \in Known'
    BY <1>5, FoundKnownAfter DEF FoundIsKnown
  <2> QED
    BY <1>1, <1>2, <2>1, <2>2 DEF Promised!Find
<1> QED
  BY <1>3, <1>4, <1>5

LEMMA ReadingSeen ==
    ASSUME Alone, Shape, Shape', Orderly, Orderly', NEW g \in Goroutines,
           Recall(g) \/ Lookup(g) \/ Load(g) \/ ReadEnd(g)
    PROVE  Promised!Find(g) \/ Promised!Deliver(g) \/ Promised!Refuse(g) \/ Stutters
<1>0. PICK f : f = call[g].file
  OBVIOUS
<1>1. UNCHANGED <<memory, disk, up>> /\ pc[g] \in ReadLabels
  BY DEF Recall, Lookup, Load, ReadEnd, ReadLabels, world
<1>2. f \in Files /\ next[g] \in Nat /\ next[g] >= 1 /\ ChunkCount[f] \in Nat \ {0}
  BY <1>0, <1>1, CountAssumption DEF Shape, TaskOK, LocalsOK
<1>3. /\ Subject(g) = f /\ Task(g) \in {"read", "found"}
      /\ Task(g) = "found" <=> pc[g] = "lookup" /\ next[g] > Len(chunks[g]) /\ Reassembled(g)
  BY <1>0, <1>1, Phases DEF InPhase, Phase
<1>4. pc \in [Goroutines -> Labels]
  BY DEF Shape, LocalsOK
<1>5. ASSUME f \in Known, NEW i \in 1 .. ChunkCount[f]
      PROVE  /\ Len(references[f]) = ChunkCount[f] /\ references[f] # Absent
             /\ references[f][i].data = <<f, i>> /\ references[f][i].here /\ references[f][i] # Absent
             /\ registry[references[f][i].key] = references[f][i]
             /\ storage[references[f][i].key] = <<f, i>> /\ <<f, i>> # Absent
  BY <1>5, KnownChunks DEF Orderly
<1>6. ASSUME pc[g] \in {"lookup", "load"}
      PROVE  /\ chunks[g] = references[f] /\ Len(references[f]) \in Nat
             /\ next[g] \in 1 .. Len(references[f]) + 1
             /\ pc[g] = "load" => /\ next[g] <= Len(references[f])
                                  /\ found[g] = registry[references[f][next[g]].key]
  <2>1. Reader(g)
    BY <1>6 DEF Orderly, Readers
  <2>2. references[f] \in Seq(ChunkOf(f))
    BY <1>0, <1>2, <2>1 DEF Reader, Shape, MapsOK
  <2> QED
    BY <1>0, <2>1, <2>2, LenProperties DEF Reader
<1>7. CASE Recall(g)
  <2>1. pc[g] = "recall" /\ Task(g) = "read"
    BY <1>3, <1>7 DEF Recall
  <2>2. CASE Return(g) /\ references[f] = Absent
    <3>1. f \notin Known
      BY <2>2 DEF Known
    <3> QED
      BY <1>0, <1>1, <2>1, <2>2, <3>1, RefuseSeen
  <2>3. CASE pc' = [pc EXCEPT ![g] = "lookup"] /\ UNCHANGED call
    <3>1. pc'[g] \in ReadLabels
      BY <1>4, <2>3 DEF ReadLabels
    <3> QED
      BY <1>1, <2>1, <2>3, <3>1, ReadsOnSeen
  <2> QED
    BY <1>0, <1>7, <2>2, <2>3 DEF Recall, Goto
<1>8. CASE Lookup(g)
  <2>1. pc[g] = "lookup" /\ next[g] <= Len(chunks[g])
    BY <1>8 DEF Lookup
  <2>2. Task(g) = "read" /\ chunks[g] = references[f] /\ Len(references[f]) \in Nat
    BY <1>2, <1>3, <1>6, <2>1
  <2>3. CASE Return(g) /\ registry[chunks[g][next[g]].key] = Absent
    <3>1. ASSUME f \in Known PROVE FALSE
      <4>1. Len(references[f]) = ChunkCount[f]
        <5>1. 1 \in 1 .. ChunkCount[f]
          BY <1>2
        <5> QED
          BY <1>5, <3>1, <5>1
      <4>2. next[g] \in 1 .. ChunkCount[f]
        BY <1>2, <2>1, <2>2, <4>1
      <4> QED
        BY <1>5, <2>2, <2>3, <3>1, <4>2
    <3> QED
      BY <1>0, <1>1, <2>2, <2>3, <3>1, RefuseSeen
  <2>4. CASE pc' = [pc EXCEPT ![g] = "load"] /\ UNCHANGED call
    <3>1. pc'[g] \in ReadLabels
      BY <1>4, <2>4 DEF ReadLabels
    <3> QED
      BY <1>1, <2>2, <2>4, <3>1, ReadsOnSeen
  <2> QED
    BY <1>8, <2>3, <2>4 DEF Lookup, Goto
<1>9. CASE Load(g)
  <2>1. pc[g] = "load"
    BY <1>9 DEF Load
  <2>2. Task(g) = "read" /\ chunks[g] = references[f] /\ Len(references[f]) \in Nat
        /\ next[g] <= Len(references[f]) /\ found[g] = registry[references[f][next[g]].key]
    BY <1>3, <1>6, <2>1
  <2>3. CASE Return(g) /\ ~Verified(g)
    <3>1. ASSUME f \in Known PROVE FALSE
      <4>1. Len(references[f]) = ChunkCount[f]
        <5>1. 1 \in 1 .. ChunkCount[f]
          BY <1>2
        <5> QED
          BY <1>5, <3>1, <5>1
      <4>2. next[g] \in 1 .. ChunkCount[f]
        BY <1>2, <2>2, <4>1
      <4>3. PICK i \in 1 .. ChunkCount[f] : i = next[g]
        BY <4>2
      <4>4. found[g] = references[f][i] /\ storage[references[f][i].key] = <<f, i>>
            /\ references[f][i].data = <<f, i>> /\ references[f][i].here /\ <<f, i>> # Absent
        BY <1>5, <2>2, <3>1, <4>3
      <4> QED
        BY <2>2, <2>3, <4>3, <4>4 DEF Verified
    <3> QED
      BY <1>0, <1>1, <2>2, <2>3, <3>1, RefuseSeen
  <2>4. CASE pc' = [pc EXCEPT ![g] = "lookup"] /\ UNCHANGED call
    <3>1. pc'[g] \in ReadLabels
      BY <1>4, <2>4 DEF ReadLabels
    <3> QED
      BY <1>1, <2>2, <2>4, <3>1, ReadsOnSeen
  <2> QED
    BY <1>9, <2>3, <2>4 DEF Load, Goto
<1>10. CASE ReadEnd(g)
  <2>1. pc[g] = "lookup" /\ next[g] > Len(chunks[g]) /\ Return(g)
    BY <1>10 DEF ReadEnd
  <2>2. CASE Task(g) = "found"
    <3>1. f \in Known
      BY <1>0, <1>1, <2>2, FoundKnown
    <3>2. Known' = Known /\ Saved' = Saved
      BY <1>1, SameAll, AllKept DEF Orderly
    <3>3. Promised!Return(g)
      BY <1>1, <2>1, ReturnsSeen
    <3> QED
      BY <1>3, <2>2, <3>1, <3>2, <3>3 DEF Promised!Deliver
  <2>3. CASE Task(g) = "read"
    <3>1. ~Reassembled(g)
      BY <1>3, <2>1, <2>3
    <3>2. ASSUME f \in Known PROVE FALSE
      <4>1. Len(references[f]) = ChunkCount[f]
        <5>1. 1 \in 1 .. ChunkCount[f]
          BY <1>2
        <5> QED
          BY <1>5, <3>2, <5>1
      <4>2. chunks[g] = references[f] /\ next[g] = ChunkCount[f] + 1
        BY <1>2, <1>6, <2>1, <4>1
      <4>3. \A i \in 1 .. ChunkCount[f] : chunks[g][i].data = <<f, i>>
        BY <1>5, <3>2, <4>2
      <4>4. [i \in 1 .. Len(chunks[g]) |-> chunks[g][i].data] = Content(f)
        BY <4>1, <4>2, <4>3 DEF Content
      <4> QED
        BY <1>0, <3>1, <4>2, <4>4 DEF Reassembled
    <3> QED
      BY <1>0, <1>1, <2>1, <2>3, <3>2, RefuseSeen
  <2> QED
    BY <1>3, <2>2, <2>3
<1> QED
  BY <1>7, <1>8, <1>9, <1>10

-----------------------------------------------------------------------------
(* The steps of a cleanup, of rewriting, and StoreKey.                     *)

\* A cleanup that has nothing left to remove has left nothing that is both in memory
\* and on disk.
NothingComesBack == \A g \in Goroutines : Task(g) = "cleaned" => Known \cap Saved = {}

LEMMA CleanEnd == Shape /\ Orderly => NothingComesBack
<1> SUFFICES ASSUME Shape, Orderly, NEW g \in Goroutines, Task(g) = "cleaned", NEW f \in Known, f \in Saved
             PROVE  FALSE
  BY DEF NothingComesBack
<1>1. pc[g] = "cleaning"
  <2>1. Phase(g) /\ pc[g] \in Labels
    BY Phases DEF InPhase, Shape, LocalsOK
  <2> QED
    BY <2>1 DEF Phase, Labels, StoreLabels
<1>2. left[g] = {} /\ ~MetadataLeft(g)
  BY <1>1, Phases DEF InPhase, Phase
<1>3. f \in Files /\ metadata[f] # Absent
  BY DEF Known, Saved
<1>4. call[g].op = ".kdht"
  BY <1>2, <1>3 DEF MetadataLeft
<1>5. 1 \in 1 .. ChunkCount[f]
  BY <1>3, CountAssumption
<1>6. PICK k : k = references[f][1].key
  OBVIOUS
<1>7. k \in Keys /\ registry[k] # Absent /\ registry[k].here /\ storage[k] # Absent
  <2>1. Lists
    BY DEF Orderly
  <2>2. PICK i \in 1 .. ChunkCount[f] : i = 1
    BY <1>5
  <2>3. /\ references[f][i].here /\ references[f][i] # Absent /\ references[f][i].key \in Keys
        /\ registry[references[f][i].key] = references[f][i]
        /\ storage[references[f][i].key] = <<f, i>> /\ <<f, i>> # Absent
    BY <2>1, KnownChunks
  <2> QED
    BY <1>6, <2>2, <2>3
<1>8. CanRemove(k)
  BY <1>7 DEF CanRemove
<1> QED
  BY <1>1, <1>2, <1>4, <1>7, <1>8 DEF Orderly, Visits

LEMMA CleanEndAfter == Shape' /\ Orderly' => NothingComesBack'
BY CleanEnd, PTL

LEMMA SweepBeginSeen ==
    ASSUME Alone, Shape, Shape', Orderly, Orderly', NEW g \in Goroutines, NEW what \in Sweeps,
           SweepBegin(g, what)
    PROVE  Promised!Ask(g, "clean", Absent) \/ Promised!NothingToClean(g)
<1>1. UNCHANGED <<memory, disk, up>> /\ up /\ pc[g] = "idle" /\ pc'[g] = "cleaning"
  BY DEF SweepBegin, Begin, Goto, Shape, LocalsOK
<1>2. Known' = Known /\ Saved' = Saved
  BY <1>1, SameAll, AllKept DEF Orderly
<1>3. Task(g) = "none"
  BY <1>1, Phases DEF InPhase, Phase
<1>4. Task(g)' \in {"clean", "cleaned"} /\ Subject(g)' = Absent
  BY <1>1, PhasesAfter DEF InPhase, Phase
<1>5. CASE Task(g)' = "clean"
  BY <1>1, <1>2, <1>3, <1>4, <1>5, AskSeen
<1>6. CASE Task(g)' = "cleaned"
  <2>1. Known' \cap Saved' = {}
    BY <1>6, CleanEndAfter DEF NothingComesBack
  <2>2. Promised!Ask(g, "cleaned", Absent)
    BY <1>1, <1>2, <1>3, <1>4, <1>6, AskSeen
  <2> QED
    BY <1>2, <2>1, <2>2 DEF Promised!NothingToClean
<1> QED
  BY <1>4, <1>5, <1>6

LEMMA SweepChunkSeen ==
    ASSUME Alone, Shape, Shape', Orderly, Orderly', NEW g \in Goroutines,
           SweepChunk(g) \/ SweepMetadata(g)
    PROVE  Promised!Clean(g)
<1>1. UNCHANGED <<references, registry, pc, call, up>> /\ pc[g] = "cleaning"
  BY DEF SweepChunk, SweepMetadata, memory, local, world
<1>2. \A k \in Keys : storage'[k] = storage[k] \/ storage'[k] = Absent
  BY DEF SweepChunk, SweepMetadata, Shape, MapsOK
<1>3. \A f \in Files : metadata'[f] = metadata[f] \/ metadata'[f] = Absent
  BY DEF SweepChunk, SweepMetadata, Shape, MapsOK
<1>4. ASSUME NEW f \in Files, NEW i \in 1 .. ChunkCount[f] PROVE <<f, i>> # Absent
  BY TokensAssumption DEF Data
<1>5. ASSUME NEW f \in Files, NEW ref \in Seq(ChunkOf(f)), Whole(f, ref),
             \A i \in 1 .. ChunkCount[f] : storage'[ref[i].key] = <<f, i>>
      PROVE  Stands(f, ref)
  <2>1. ASSUME NEW i \in 1 .. ChunkCount[f] PROVE storage[ref[i].key] = <<f, i>>
    <3>1. i \in 1 .. Len(ref)
      BY <1>5 DEF Whole
    <3>2. ref[i] \in ChunkOf(f)
      BY <3>1, ElementOfSeq
    <3>3. ref[i].key \in Keys
      BY <3>2 DEF ChunkOf, ChunkType
    <3> QED
      BY <1>2, <1>4, <1>5, <3>3
  <2> QED
    BY <1>5, <2>1 DEF Stands
<1>6. Known' \subseteq Known
  <2> SUFFICES ASSUME NEW f \in Known' PROVE f \in Known
    OBVIOUS
  <2>1. /\ f \in Files /\ references[f] # Absent /\ Whole(f, references[f])
        /\ \A i \in 1 .. ChunkCount[f] : storage'[references[f][i].key] = <<f, i>>
        /\ \A i \in 1 .. ChunkCount[f] : registry[references[f][i].key] = references[f][i]
    BY <1>1 DEF Known, Stands, Whole
  <2>2. references[f] \in Seq(ChunkOf(f))
    BY <2>1 DEF Shape, MapsOK
  <2>3. Stands(f, references[f])
    BY <1>5, <2>1, <2>2
  <2> QED
    BY <2>1, <2>3 DEF Known
<1>7. Saved' \subseteq Saved
  <2> SUFFICES ASSUME NEW f \in Saved' PROVE f \in Saved
    OBVIOUS
  <2>1. /\ f \in Files /\ metadata'[f] \notin {Absent, Broken} /\ Whole(f, metadata'[f])
        /\ \A i \in 1 .. ChunkCount[f] : storage'[metadata'[f][i].key] = <<f, i>>
    BY DEF Saved, Stands, Whole
  <2>2. metadata'[f] = metadata[f] /\ metadata[f] \in Seq(ChunkOf(f))
    BY <1>3, <2>1 DEF Shape, MapsOK
  <2>3. Stands(f, metadata[f])
    BY <1>5, <2>1, <2>2
  <2> QED
    BY <2>1, <2>2, <2>3 DEF Saved
<1>8. Task(g) = "clean" /\ Subject(g) = Absent
  <2>1. left[g] # {} \/ MetadataLeft(g)
    BY DEF SweepChunk, SweepMetadata
  <2> QED
    BY <1>1, <2>1, Phases DEF InPhase, Phase
<1>9. Task(g)' \in {"clean", "cleaned"} /\ Subject(g)' = Absent
  BY <1>1, PhasesAfter DEF InPhase, Phase
<1>10. CASE Task(g)' = "clean"
  <2>1. Promised!Become(g, "clean")
    BY <1>1, <1>8, <1>9, <1>10, BecomeSeen
  <2> QED
    BY <1>6, <1>7, <1>8, <2>1 DEF Promised!Clean
<1>11. CASE Task(g)' = "cleaned"
  <2>1. Promised!Become(g, "cleaned")
    BY <1>1, <1>8, <1>9, <1>11, BecomeSeen
  <2>2. Known' \cap Saved' = {}
    BY <1>11, CleanEndAfter DEF NothingComesBack
  <2> QED
    BY <1>6, <1>7, <1>8, <2>1, <2>2 DEF Promised!Clean
<1> QED
  BY <1>9, <1>10, <1>11

LEMMA SweepFailsSeen ==
    ASSUME Alone, Shape, Shape', Orderly, Orderly', NEW g \in Goroutines, SweepFails(g)
    PROVE  Promised!Clean(g)
<1>1. UNCHANGED <<memory, disk, up>> /\ Return(g) /\ pc[g] = "cleaning"
      /\ (left[g] # {} \/ MetadataLeft(g))
  BY DEF SweepFails
<1>2. Known' = Known /\ Saved' = Saved
  BY <1>1, SameAll, AllKept DEF Orderly
<1>3. Task(g) = "clean"
  BY <1>1, Phases DEF InPhase, Phase
<1>4. Promised!Return(g)
  BY <1>1, ReturnsSeen
<1> QED
  BY <1>2, <1>3, <1>4 DEF Promised!Clean

LEMMA SweepDoneSeen ==
    ASSUME Alone, Shape, Shape', Orderly, Orderly', NEW g \in Goroutines, SweepDone(g)
    PROVE  Promised!Cleaned(g)
<1>1. UNCHANGED <<storage, metadata, up>> /\ Return(g) /\ pc[g] = "cleaning"
      /\ left[g] = {} /\ ~MetadataLeft(g) /\ \A f \in Files : references'[f] = Absent
  BY DEF SweepDone, disk, world
<1>2. Known' = {}
  BY <1>1 DEF Known
<1>3. Saved' = Saved
  BY <1>1 DEF Saved, Stands, Whole
<1>4. Task(g) = "cleaned"
  BY <1>1, Phases DEF InPhase, Phase
<1>5. Promised!Return(g)
  BY <1>1, ReturnsSeen
<1> QED
  BY <1>2, <1>3, <1>4, <1>5 DEF Promised!Cleaned

LEMMA StoreKeySeen ==
    ASSUME Alone, Shape, Shape', Orderly, Orderly', NEW g \in Goroutines, NEW k \in NetKeys, StoreKey(g, k)
    PROVE  Stutters
<1>1. UNCHANGED <<references, storage, metadata, up, pc, call>> /\ pc[g] = "idle"
      /\ registry' = [registry EXCEPT ![k] = Chunk(k, Absent, FALSE)]
  BY DEF StoreKey, disk, local, world
<1>2. ASSUME NEW f \in Files PROVE Same(f)
  <2>1. k \notin OwnKeys(f)
    BY <1>2, TokensAssumption DEF OwnKeys
  <2> QED
    BY <1>1, <2>1 DEF Same, OwnKeys, Shape, MapsOK
<1>3. Known' = Known /\ Saved' = Saved
  BY <1>2, AllKept DEF Orderly
<1>4. Task(g) = "none" /\ Subject(g) = Absent
  BY <1>1, Phases DEF InPhase, Phase
<1>5. Task(g)' = "none" /\ Subject(g)' = Absent
  BY <1>1, PhasesAfter DEF InPhase, Phase
<1> QED
  BY <1>1, <1>3, <1>4, <1>5, NothingSeen

LEMMA RewriteSeen ==
    ASSUME Alone, Shape, Shape', Orderly, Orderly', NEW g \in Goroutines, Rewrite(g)
    PROVE  Promised!Ask(g, "rewrite", Absent) \/ Promised!NothingToRewrite(g)
<1>1. UNCHANGED <<memory, disk, up>> /\ up /\ pc[g] = "idle" /\ pc'[g] = "rewrite"
  BY DEF Rewrite, Begin, Goto, world, Shape, LocalsOK
<1>2. Known' = Known /\ Saved' = Saved
  BY <1>1, SameAll, AllKept DEF Orderly
<1>3. Task(g) = "none"
  BY <1>1, Phases DEF InPhase, Phase
<1>4. Task(g)' \in {"rewrite", "written"} /\ Subject(g)' = Absent
      /\ (Task(g)' = "written" => left'[g] = {})
  BY <1>1, PhasesAfter DEF InPhase, Phase
<1>5. CASE Task(g)' = "rewrite"
  BY <1>1, <1>2, <1>3, <1>4, <1>5, AskSeen
<1>6. CASE Task(g)' = "written"
  <2>1. Known' \subseteq Saved'
    BY <1>1, <1>4, <1>6 DEF Orderly, Visits
  <2>2. Promised!Ask(g, "written", Absent)
    BY <1>1, <1>2, <1>3, <1>4, <1>6, AskSeen
  <2> QED
    BY <1>2, <2>1, <2>2 DEF Promised!NothingToRewrite
<1> QED
  BY <1>4, <1>5, <1>6

\* A step of rewriting changes the metadata of one file, if any.
LEMMA ResavedSeen ==
    ASSUME Shape, Orderly, UNCHANGED <<references, registry, storage>>, NEW f \in Files,
           metadata' = metadata \/ \E v : metadata' = [metadata EXCEPT ![f] = v]
    PROVE  Known' = Known /\ Promised!Resaved /\ Promised!ButFor(Saved', Saved, f)
<1>1. \A x \in Files : x # f => Same(x)
  BY OthersSameFile
<1>2. Promised!ButFor(Saved', Saved, f)
  BY <1>1, OthersKept DEF Orderly
<1> QED
  BY <1>2, KnownRewritten DEF Promised!Resaved

LEMMA RewritingSeen ==
    ASSUME Alone, Shape, Shape', Orderly, Orderly', NEW g \in Goroutines,
           RewriteBegin(g) \/ RewriteWritten(g) \/ RewriteFails(g) \/ RewriteRefused(g)
    PROVE  Promised!RewriteOn(g)
<1>1. UNCHANGED <<references, registry, storage, up>> /\ pc[g] \in {"rewrite", "rewriting"}
      /\ (pc[g] = "rewrite" => left[g] # {})
  BY DEF RewriteBegin, RewriteWritten, RewriteFails, RewriteRefused, memory, disk
<1>2. Task(g) = "rewrite" /\ Subject(g) = Absent
  BY <1>1, Phases DEF InPhase, Phase
<1>3. Known' = Known /\ Promised!Resaved
  <2>1. CASE RewriteBegin(g) \/ RewriteRefused(g)
    <3>1. pc[g] = "rewrite" /\ left[g] # {}
      BY <2>1 DEF RewriteBegin, RewriteRefused
    <3>2. left[g] \subseteq Files
      BY <3>1 DEF Shape, TaskOK
    <3>3. PICK f \in left[g] : metadata' = metadata \/ \E v : metadata' = [metadata EXCEPT ![f] = v]
      BY <2>1, <3>1 DEF RewriteBegin, RewriteRefused, disk
    <3> QED
      BY <1>1, <3>2, <3>3, ResavedSeen
  <2>2. CASE RewriteWritten(g) \/ RewriteFails(g)
    <3>1. pc[g] = "rewriting" /\ \E v : metadata' = [metadata EXCEPT ![call[g].file] = v]
      BY <2>2 DEF RewriteWritten, RewriteFails
    <3>2. call[g].file \in Files
      BY <3>1, EncodedType
    <3> QED
      BY <1>1, <3>1, <3>2, ResavedSeen
  <2> QED
    BY <2>1, <2>2
<1>4. CASE RewriteFails(g) \/ RewriteRefused(g)
  <2>1. Promised!Return(g)
    BY <1>1, <1>4, ReturnsSeen DEF RewriteFails, RewriteRefused
  <2> QED
    BY <1>2, <1>3, <2>1 DEF Promised!RewriteOn
<1>5. CASE RewriteBegin(g) \/ RewriteWritten(g)
  <2>1. pc'[g] \in {"rewrite", "rewriting"}
    BY <1>5 DEF RewriteBegin, RewriteWritten, Goto, Shape, LocalsOK
  <2>2. /\ Task(g)' \in {"rewrite", "written"} /\ Subject(g)' = Absent
        /\ Task(g)' = "written" => pc'[g] = "rewrite" /\ left'[g] = {}
    BY <2>1, PhasesAfter DEF InPhase, Phase
  <2>3. CASE Task(g)' = "rewrite"
    <3>1. Promised!Become(g, "rewrite")
      BY <1>1, <1>2, <2>2, <2>3, BecomeSeen
    <3> QED
      BY <1>2, <1>3, <3>1 DEF Promised!RewriteOn
  <2>4. CASE Task(g)' = "written"
    <3>1. Promised!Become(g, "written")
      BY <1>1, <1>2, <2>2, <2>4, BecomeSeen
    <3>2. Known' \subseteq Saved'
      BY <2>2, <2>4 DEF Orderly, Visits
    <3> QED
      BY <1>2, <1>3, <3>1, <3>2 DEF Promised!RewriteOn
  <2> QED
    BY <2>2, <2>3, <2>4
<1> QED
  BY <1>4, <1>5

LEMMA RewriteDoneSeen ==
    ASSUME Alone, Shape, Shape', Orderly, Orderly', NEW g \in Goroutines, RewriteDone(g)
    PROVE  Promised!Rewritten(g)
<1>1. UNCHANGED <<memory, disk, up>> /\ Return(g) /\ pc[g] = "rewrite" /\ left[g] = {}
  BY DEF RewriteDone, world
<1>2. Known' = Known /\ Saved' = Saved
  BY <1>1, SameAll, AllKept DEF Orderly
<1>3. Task(g) = "written"
  BY <1>1, Phases DEF InPhase, Phase
<1>4. Promised!Return(g)
  BY <1>1, ReturnsSeen
<1> QED
  BY <1>2, <1>3, <1>4 DEF Promised!Rewritten

-----------------------------------------------------------------------------
(* A crash and a restart.                                                  *)

LEMMA CrashSeen ==
    ASSUME Caution, Shape, Shape', Solid, Orderly, Orderly', Crash
    PROVE  Promised!Crash
<1>1. up /\ up' = FALSE /\ \A f \in Files : references'[f] = Absent
  BY DEF Crash
<1>2. \A g \in Goroutines : pc'[g] = "idle"
  BY DEF Crash
<1>3. \A g \in Goroutines : Task(g)' = "none" /\ Subject(g)' = Absent
  BY <1>2, PhasesAfter DEF InPhase, Phase
<1>4. /\ [g \in Goroutines |-> Task(g)]' = [g \in Goroutines |-> "none"]
      /\ [g \in Goroutines |-> Subject(g)]' = [g \in Goroutines |-> Absent]
  BY <1>3
<1>5. Known' = {}
  BY <1>1 DEF Known
<1>6. CASE UNCHANGED disk
  <2>1. Saved' = Saved
    BY <1>6 DEF Saved, Stands, Whole, disk
  <2> QED
    BY <1>1, <1>4, <1>5, <2>1 DEF Promised!Crash
<1>7. ASSUME NEW g \in Goroutines, pc[g] = "writing", UNCHANGED metadata,
             NEW data, storage' = [storage EXCEPT ![Current(g).key] = data]
      PROVE  Promised!Crash
  <2>0. PICK f : f = call[g].file
    OBVIOUS
  <2>1. Task(g) = "store" /\ Subject(g) = f
    BY <1>7, <2>0, Phases DEF InPhase, Phase
  <2>2. Current(g).key \in OwnKeys(f)
    BY <1>7, <2>0, CurrentOwn
  <2>3. ASSUME NEW x \in Files, x # f PROVE x \in Saved' <=> x \in Saved
    <3>1. \A k \in OwnKeys(x) : storage'[k] = storage[k]
      BY <1>7, <2>2, <2>3, OwnKeysApart DEF OwnKeys, Shape, MapsOK
    <3> QED
      BY <1>7, <3>1, SavedKept DEF Orderly
  <2>4. Promised!ButFor(Saved', Saved, f)
    <3>1. Saved \subseteq Files /\ Saved' \subseteq Files
      BY DEF Saved
    <3> QED
      BY <2>3, <3>1 DEF Promised!ButFor
  <2> QED
    BY <1>1, <1>4, <1>5, <2>1, <2>4 DEF Promised!Crash
<1>8. ASSUME NEW g \in Goroutines, pc[g] \in {"encoding", "rewriting"}, UNCHANGED storage,
             NEW m, metadata' = [metadata EXCEPT ![call[g].file] = m]
      PROVE  Promised!Crash
  <2>0. PICK f : f = call[g].file
    OBVIOUS
  <2>1. f \in Files
    BY <1>8, <2>0, EncodedType
  <2>2. ASSUME NEW x \in Files, x # f PROVE x \in Saved' <=> x \in Saved
    <3>1. metadata'[x] = metadata[x]
      BY <1>8, <2>0, <2>2 DEF Shape, MapsOK
    <3> QED
      BY <1>8, <3>1, SavedKept DEF Orderly
  <2>3. Promised!ButFor(Saved', Saved, f)
    <3>1. Saved \subseteq Files /\ Saved' \subseteq Files
      BY DEF Saved
    <3> QED
      BY <2>2, <3>1 DEF Promised!ButFor
  <2>4. CASE pc[g] = "encoding"
    <3>1. Task(g) = "commit" /\ Subject(g) = f
      BY <2>0, <2>4, Phases DEF InPhase, Phase
    <3> QED
      BY <1>1, <1>4, <1>5, <2>3, <3>1 DEF Promised!Crash
  <2>5. CASE pc[g] = "rewriting"
    <3>1. Task(g) = "rewrite"
      BY <2>5, Phases DEF InPhase, Phase
    <3>2. Promised!Resaved
      BY <2>1, <2>3 DEF Promised!Resaved
    <3> QED
      BY <1>1, <1>4, <1>5, <3>1, <3>2 DEF Promised!Crash
  <2> QED
    BY <1>8, <2>4, <2>5
<1> QED
  BY <1>6, <1>7, <1>8 DEF Crash

\* A restart enters every chunk of a whole list into the registry.
LEMMA RestoredWhole ==
    ASSUME Caution, Shape, Lists, NEW known \in SUBSET Decoded, NEW f \in known,
           Whole(f, metadata[f]), NEW i \in 1 .. ChunkCount[f]
    PROVE  Restored(known)[metadata[f][i].key] = metadata[f][i]
<1>0. PICK ref, k : ref = metadata[f] /\ k = metadata[f][i].key
  OBVIOUS
<1> DEFINE T == {j \in 1 .. Len(ref) : ref[j].key = k}
           h == CHOOSE x \in known : k \in KeysOf(metadata[x])
<1>1. f \in Files /\ ref \in Seq(ChunkOf(f)) /\ RealList(f, ref) /\ ChunkCount[f] \in Nat
  BY <1>0, SavedList, CountAssumption DEF Decoded
<1>2. ASSUME NEW j \in 1 .. ChunkCount[f]
      PROVE  /\ Len(ref) = ChunkCount[f] /\ ref[j].key \in OwnKeys(f) /\ ref[j].key \in Keys
             /\ \E how \in {"load", "write"} : ref[j].key = Key(how, f, j)
  BY <1>0, <1>1, WholeKeys
<1>3. Len(ref) = ChunkCount[f] /\ k \in OwnKeys(f) /\ k \in Keys /\ k = ref[i].key
  BY <1>0, <1>2
<1>4. k \in KeysOf(metadata[f])
  BY <1>0, <1>3 DEF KeysOf
<1>5. h \in known /\ k \in KeysOf(metadata[h])
  BY <1>4
<1> HIDE DEF h
<1>6. h = f
  <2>1. metadata[h] \in Seq(ChunkOf(h)) /\ h \in Files
    BY <1>5 DEF Decoded, Shape, MapsOK
  <2>2. PICK j \in 1 .. Len(metadata[h]) : k = metadata[h][j].key
    BY <1>5 DEF KeysOf
  <2>3. metadata[h][j] \in ChunkOf(h)
    BY <2>1, <2>2, ElementOfSeq
  <2>4. k \in {NoKey} \cup OwnKeys(h)
    BY <2>2, <2>3 DEF ChunkOf, ChunkType, OwnKeys
  <2> QED
    BY <1>3, <2>4, OwnKeysApart
<1>7. Restored(known)[k] = ref[Max(T)]
  <2>1. Restored(known)[k] = metadata[h][Max({j \in 1 .. Len(metadata[h]) : metadata[h][j].key = k})]
    BY <1>3, <1>4 DEF Restored, h
  <2> QED
    BY <1>0, <1>6, <2>1
<1>8. T = {i}
  <2>1. i \in T
    BY <1>3
  <2>2. ASSUME NEW j \in T PROVE j = i
    <3>1. j \in 1 .. ChunkCount[f] /\ ref[j].key = ref[i].key
      BY <1>3, <2>2
    <3>2. PICK a \in {"load", "write"} : ref[j].key = Key(a, f, j)
      BY <1>2, <3>1
    <3>3. PICK b \in {"load", "write"} : ref[i].key = Key(b, f, i)
      BY <1>2
    <3>4. a = b
      <4>1. /\ a = "load" => Key(a, f, j)[1] = "word"
            /\ a = "write" => Key(a, f, j)[1] = "byte"
            /\ b = "load" => Key(b, f, i)[1] = "word"
            /\ b = "write" => Key(b, f, i)[1] = "byte"
        BY DEF Key
      <4>2. Key(a, f, j)[1] = Key(b, f, i)[1]
        BY <3>1, <3>2, <3>3
      <4> QED
        BY <4>1, <4>2
    <3> QED
      BY <1>1, <3>1, <3>2, <3>3, <3>4, KeysOwn
  <2> QED
    BY <2>1, <2>2
<1>9. Max({i}) = i
  BY <1>1 DEF Max
<1> QED
  BY <1>0, <1>7, <1>8, <1>9

\* What is whole on disk is no orphan: a restart leaves it there and knows it.
LEMMA RestartKeeps ==
    ASSUME Caution, Shape, Lists, NEW moved, NEW G, NEW M, Restarts(moved, G, M), NEW f \in Saved
    PROVE  f \in Saved' /\ f \in Known'
<1>0. PICK ref : ref = metadata[f]
  OBVIOUS
<1>1. f \in Files /\ ref \notin {Absent, Broken} /\ Whole(f, ref)
      /\ \A i \in 1 .. ChunkCount[f] : storage[ref[i].key] = <<f, i>>
  BY <1>0 DEF Saved, Stands
<1>2. ref \in Seq(ChunkOf(f)) /\ RealList(f, ref)
  BY <1>0, <1>1, SavedList
<1>3. ASSUME NEW i \in 1 .. ChunkCount[f]
      PROVE  Len(ref) = ChunkCount[f] /\ ref[i].key \in OwnKeys(f) /\ ref[i].key \in Keys
  BY <1>1, <1>2, WholeKeys
<1>4. Len(ref) = ChunkCount[f]
  BY <1>1 DEF Whole
<1>5. f \in Decoded
  BY <1>0, <1>1 DEF Decoded
<1>6. f \notin Orphans
  <2>1. ASSUME NEW k \in KeysOf(ref) PROVE storage[k] # Absent
    <3>1. PICK i \in 1 .. ChunkCount[f] : k = ref[i].key
      BY <1>4, <2>1 DEF KeysOf
    <3>2. storage[k] = <<f, i>> /\ <<f, i>> \in Data
      BY <1>1, <3>1 DEF Data
    <3> QED
      BY <3>2, TokensAssumption
  <2> QED
    BY <1>0, <2>1 DEF Orphans
<1>7. f \in Decoded \ moved /\ f \notin M
  BY <1>5, <1>6 DEF Restarts
<1>8. references'[f] = ref /\ metadata'[f] = ref
  BY <1>0, <1>1, <1>7 DEF Restarts
<1>9. ASSUME NEW i \in 1 .. ChunkCount[f] PROVE storage'[ref[i].key] = <<f, i>>
  <2>1. ASSUME ref[i].key \in G PROVE FALSE
    <3>1. PICK h \in moved : ref[i].key \in KeysOf(metadata[h])
      BY <2>1 DEF Restarts
    <3>2. h \in Files /\ h # f /\ metadata[h] \in Seq(ChunkOf(h))
      BY <1>7, <3>1 DEF Restarts, Orphans, Decoded, Shape, MapsOK
    <3>3. PICK j \in 1 .. Len(metadata[h]) : ref[i].key = metadata[h][j].key
      BY <3>1 DEF KeysOf
    <3>4. metadata[h][j] \in ChunkOf(h)
      BY <3>2, <3>3, ElementOfSeq
    <3>5. ref[i].key \in {NoKey} \cup OwnKeys(h)
      BY <3>3, <3>4 DEF ChunkOf, ChunkType, OwnKeys
    <3>6. ref[i].key \in OwnKeys(f)
      BY <1>3
    <3>7. f # h
      BY <3>2
    <3>8. ref[i].key \notin OwnKeys(h) /\ ref[i].key # NoKey
      BY <3>6, <3>7, OwnKeysApart
    <3> QED
      BY <3>5, <3>8
  <2> QED
    BY <1>1, <1>3, <2>1 DEF Restarts
<1>10. f \in Saved'
  BY <1>1, <1>8, <1>9 DEF Saved, Stands, Whole
<1>11. ASSUME NEW i \in 1 .. ChunkCount[f] PROVE registry'[ref[i].key] = ref[i]
  <2>1. Decoded \ moved \in SUBSET Decoded
    OBVIOUS
  <2> QED
    BY <1>0, <1>1, <1>7, <2>1, RestoredWhole DEF Restarts
<1>12. f \in Known'
  BY <1>1, <1>8, <1>9, <1>11 DEF Known, Stands, Whole
<1> QED
  BY <1>10, <1>12

\* What is whole after it was whole before, and was known only if it is.
LEMMA RestartAddsNothing ==
    ASSUME Shape, Lists, NEW moved, NEW G, NEW M, Restarts(moved, G, M), NEW f \in Known' \cup Saved'
    PROVE  f \in Saved
<1>1. f \in Files
  BY DEF Known, Saved
<1>2. PICK ref : ref = metadata[f]
  OBVIOUS
<1>3. ref \notin {Absent, Broken} /\ Whole(f, ref)
      /\ \A i \in 1 .. ChunkCount[f] : storage'[ref[i].key] = <<f, i>>
  <2>1. CASE f \in Saved'
    <3>1. f \in Files /\ metadata'[f] \notin {Absent, Broken} /\ Whole(f, metadata'[f])
          /\ \A i \in 1 .. ChunkCount[f] : storage'[metadata'[f][i].key] = <<f, i>>
      BY <2>1 DEF Saved, Stands, Whole
    <3>2. metadata'[f] = ref
      BY <1>1, <1>2, <3>1 DEF Restarts
    <3> QED
      BY <3>1, <3>2
  <2>2. CASE f \in Known'
    <3>1. references'[f] # Absent /\ Whole(f, references'[f])
          /\ \A i \in 1 .. ChunkCount[f] : storage'[references'[f][i].key] = <<f, i>>
      BY <2>2 DEF Known, Stands, Whole
    <3>2. references'[f] = ref /\ f \in Decoded
      BY <1>1, <1>2, <3>1 DEF Restarts
    <3> QED
      BY <1>2, <3>1, <3>2 DEF Decoded
  <2> QED
    BY <2>1, <2>2
<1>4. ref \in Seq(ChunkOf(f)) /\ RealList(f, ref)
  BY <1>1, <1>2, <1>3, SavedList
<1>5. ASSUME NEW i \in 1 .. ChunkCount[f] PROVE storage[ref[i].key] = <<f, i>>
  <2>1. ref[i].key \in Keys /\ ref[i].data = <<f, i>> /\ ref[i].data \in Data
    BY <1>1, <1>3, <1>4, WholeKeys
  <2>2. <<f, i>> # Absent
    BY <2>1, TokensAssumption
  <2>3. storage'[ref[i].key] = <<f, i>>
    BY <1>3
  <2> QED
    BY <2>1, <2>2, <2>3 DEF Restarts
<1> QED
  BY <1>1, <1>2, <1>3, <1>5 DEF Saved, Stands

LEMMA BootstrapSeen ==
    ASSUME Caution, Shape, Shape', Orderly, Orderly', Bootstrap
    PROVE  Promised!Restart
<1>1. ~up /\ up' = TRUE /\ UNCHANGED pc
  BY DEF Bootstrap
<1>2. \A g \in Goroutines : pc[g] = "idle" /\ pc'[g] = "idle"
  BY <1>1 DEF Shape, TaskOK
<1>3. \A g \in Goroutines : Task(g) = "none" /\ Subject(g) = Absent
  BY <1>2, Phases DEF InPhase, Phase
<1>4. \A g \in Goroutines : Task(g)' = "none" /\ Subject(g)' = Absent
  BY <1>2, PhasesAfter DEF InPhase, Phase
<1>5. /\ [g \in Goroutines |-> Task(g)]' = [g \in Goroutines |-> Task(g)]
      /\ [g \in Goroutines |-> Subject(g)]' = [g \in Goroutines |-> Subject(g)]
  BY <1>3, <1>4
<1>6. PICK moved, G, M : Restarts(moved, G, M)
  BY BootstrapRestarts
<1>7. \A f \in Saved : f \in Saved' /\ f \in Known'
  BY <1>6, RestartKeeps DEF Orderly
<1>8. \A f \in Known' \cup Saved' : f \in Saved
  BY <1>6, RestartAddsNothing DEF Orderly
<1>9. Known' = Saved /\ Saved' = Saved
  BY <1>7, <1>8
<1> QED
  BY <1>1, <1>5, <1>9 DEF Promised!Restart

-----------------------------------------------------------------------------
(* The refinement.                                                         *)

LEMMA InitSimulates == Init => Promised!Init
<1> SUFFICES ASSUME Init PROVE Promised!Init
  OBVIOUS
<1>1. Known = {} /\ Saved = {}
  BY DEF Init, Known, Saved
<1>2. \A g \in Goroutines : Task(g) = "none" /\ Subject(g) = Absent
  BY DEF Init, Task, Subject, Storing, Idle
<1>3. up = TRUE
  BY DEF Init
<1> QED
  BY <1>1, <1>2, <1>3 DEF Promised!Init

LEMMA UnchangedSeen == UNCHANGED vars => Stutters
<1> SUFFICES ASSUME UNCHANGED vars PROVE Stutters
  OBVIOUS
<1> USE DEF vars, memory, disk, local, world
<1>1. Known' = Known /\ Saved' = Saved
  BY DEF Known, Saved, Stands, Whole
<1>2. \A g \in Goroutines : Task(g)' = Task(g)
  BY DEF Task, MetadataLeft, Reassembled
<1>3. \A g \in Goroutines : Subject(g)' = Subject(g)
  BY DEF Subject, Storing
<1> QED
  BY <1>1, <1>2, <1>3 DEF Stutters

LEMMA CallSeen ==
    ASSUME Alone, Shape, Shape', Orderly, Orderly', NEW g \in Goroutines, Call(g)
    PROVE  Promised!Step(g) \/ Stutters
<1>1. CASE \E u \in Uploads : Store(g, u[1], u[2])
  <2>1. PICK u \in Uploads : Store(g, u[1], u[2])
    BY <1>1
  <2>2. u[1] \in {"load", "write"} /\ u[2] \in Files
    BY <2>1, CallsAssumption
  <2>3. Promised!Ask(g, "store", u[2])
    BY <2>1, <2>2, StoreSeen
  <2> QED
    BY <2>2, <2>3 DEF Promised!Step
<1>2. CASE \E f \in Files : Read(g, f)
  BY <1>2, ReadSeen DEF Promised!Step
<1>3. CASE \E k \in NetKeys : StoreKey(g, k)
  BY <1>3, StoreKeySeen
<1>4. CASE \E what \in Sweeps : SweepBegin(g, what)
  BY <1>4, SweepBeginSeen DEF Promised!Step
<1>5. CASE Rewrite(g)
  BY <1>5, RewriteSeen DEF Promised!Step
<1> QED
  BY <1>1, <1>2, <1>3, <1>4, <1>5 DEF Call

LEMMA StepSeen ==
    ASSUME Caution, Alone, Shape, Shape', Solid, Orderly, Orderly', NEW g \in Goroutines, Step(g)
    PROVE  Promised!Step(g) \/ Stutters
<1>1. CASE \/ SourceFails(g) \/ SourceChanged(g) \/ ChunkBegin(g) \/ ChunkRefused(g)
           \/ ChunkWritten(g) \/ ChunkFails(g) \/ UndoChunk(g) \/ UndoDone(g)
  BY <1>1, StoreFailsSeen, UndoStartsSeen, ChunkSeen, UndoChunkSeen DEF Promised!Step
<1>2. CASE MetaMissing(g) \/ MetaBegin(g) \/ MetaRefused(g) \/ MetaWritten(g) \/ MetaFails(g)
  BY <1>2, UndoStartsSeen, MetaBeginSeen, MetaEndsSeen, MetaWrittenSeen DEF Promised!Step
<1>3. CASE Recall(g) \/ Lookup(g) \/ Load(g) \/ ReadEnd(g)
  BY <1>3, ReadingSeen DEF Promised!Step
<1>4. CASE SweepChunk(g) \/ SweepMetadata(g) \/ SweepFails(g) \/ SweepDone(g)
  BY <1>4, SweepChunkSeen, SweepFailsSeen, SweepDoneSeen DEF Promised!Step
<1>5. CASE RewriteBegin(g) \/ RewriteRefused(g) \/ RewriteWritten(g) \/ RewriteFails(g)
           \/ RewriteDone(g)
  BY <1>5, RewritingSeen, RewriteDoneSeen DEF Promised!Step
<1> QED
  BY <1>1, <1>2, <1>3, <1>4, <1>5 DEF Step

LEMMA StepSimulates ==
    Caution /\ Alone /\ Shape /\ Shape' /\ Solid /\ Orderly /\ Orderly' /\ [Next]_vars
        => [Promised!Next]_<<Known, Saved, up, [g \in Goroutines |-> Task(g)], [g \in Goroutines |-> Subject(g)]>>
<1> SUFFICES ASSUME Caution, Alone, Shape, Shape', Solid, Orderly, Orderly', [Next]_vars
             PROVE  Promised!Next \/ Stutters
  BY DEF Stutters
<1>1. CASE Crash
  BY <1>1, CrashSeen DEF Promised!Next
<1>2. CASE Bootstrap
  BY <1>2, BootstrapSeen DEF Promised!Next
<1>3. ASSUME NEW g \in Goroutines, Call(g) \/ Step(g) PROVE Promised!Next \/ Stutters
  <2>1. Promised!Step(g) \/ Stutters
    BY <1>3, CallSeen, StepSeen
  <2> QED
    BY <2>1 DEF Promised!Next
<1>4. CASE UNCHANGED vars
  BY <1>4, UnchangedSeen
<1> QED
  BY <1>1, <1>2, <1>3, <1>4 DEF Next

\* Called by one goroutine, the store of chunks implements the set of files, for every
\* number of files and chunks and through any failures, crashes and restarts.
THEOREM StoreRefinesFileStore == ASSUME Caution, Alone PROVE Spec => Promise
<1>1. Spec => []Shape
  BY ShapeInvariant
<1>2. Spec => []Solid
  BY SolidInvariant
<1>3. Spec => []Orderly
  BY OrderlyInvariant
<1> QED
  BY <1>1, <1>2, <1>3, InitSimulates, StepSimulates, PTL DEF Spec, Promise, Promised!Spec

=============================================================================
