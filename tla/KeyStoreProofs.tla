--------------------------- MODULE KeyStoreProofs ---------------------------
(***************************************************************************)
(* Theorems about KeyStore: the files stored stay on disk and in memory     *)
(* through failures, crashes and restarts, for any number of files, chunks  *)
(* and goroutines, as long as files are stored once, are not longer than    *)
(* the key can tell, and no cleanup or rewriting is concurrent.             *)
(***************************************************************************)
EXTENDS KeyStore, SequenceTheorems, WellFoundedInduction, TLAPS

\* What the callers of the store have to see to.  Without it the properties fail.
Caution ==
    /\ ~Again
    /\ \A f \in Files : ChunkCount[f] <= KeyWrap
    /\ \/ \A g \in Goroutines, h \in Goroutines : g = h
       \/ Sweeps \subseteq {".toml"} /\ ~Rewriting

-----------------------------------------------------------------------------
(* Definitions of the inductive invariant.                                 *)

\* The i-th chunk of a file stored one way or the other, and all of them.
Piece(how, f, i) == Chunk(Key(how, f, i), <<f, i>>, TRUE)

Complete(how, f) == [i \in 1 .. ChunkCount[f] |-> Piece(how, f, i)]

\* What may stand in a reference of a file: its own keys and the empty one.
ChunkOf(f) ==
    {c \in ChunkType : c.key \in {NoKey} \cup KeysFor("load", f) \cup KeysFor("write", f)}

StoreLabels == {"chunk", "writing", "meta", "encoding", "undo"}
ReadLabels  == {"recall", "lookup", "load"}
Labels      == {"idle", "cleaning", "rewrite", "rewriting"} \cup StoreLabels \cup ReadLabels

CallType ==
    [op : {"none", "read", "rewrite", "load", "write", "all", ".kdht", ".toml"},
     file : Files \cup {Absent}, sure : BOOLEAN]

\* The maps and the files are what they should be, reference by reference.
MapsOK ==
    /\ DOMAIN references = Files /\ DOMAIN registry = Keys
    /\ storage \in [Keys -> Data \cup {Absent, Cut}] /\ DOMAIN metadata = Files
    /\ \A f \in Files : references[f] = Absent \/ references[f] \in Seq(ChunkOf(f))
    /\ \A k \in Keys : registry[k] = Absent \/ (registry[k] \in ChunkType /\ registry[k].key = k)
    /\ \A f \in Files : metadata[f] \in {Absent, Broken} \/ metadata[f] \in Seq(ChunkOf(f))
    /\ up \in BOOLEAN /\ faults \in Nat /\ crashes \in Nat /\ stored \subseteq Files

LocalsOK ==
    /\ lock \in Goroutines \cup {NoOne}
    /\ pc \in [Goroutines -> Labels] /\ call \in [Goroutines -> CallType]
    /\ DOMAIN chunks = Goroutines /\ next \in [Goroutines -> Nat]
    /\ DOMAIN found = Goroutines /\ left \in [Goroutines -> SUBSET (Keys \cup Files)]

\* Where a goroutine is and what it is doing go together.
TaskOK(g) ==
    /\ (lock = g) <=> (pc[g] \in {"writing", "encoding", "cleaning"})
    /\ chunks[g] \in Seq(ChunkType)
    /\ found[g] = Absent \/ found[g] \in ChunkType
    /\ pc[g] = "idle" => call[g] = Idle /\ chunks[g] = <<>> /\ next[g] = 1
    /\ pc[g] # "idle" => call[g].op # "none" /\ up
    /\ pc[g] \in StoreLabels =>
          <<call[g].op, call[g].file>> \in Uploads /\ chunks[g] \in Seq(ChunkOf(call[g].file))
    /\ pc[g] \in {"chunk", "writing"} => next[g] \in 1 .. ChunkCount[call[g].file]
    /\ pc[g] = "undo" => next[g] >= 1
    /\ pc[g] \in ReadLabels => call[g].file \in Files /\ next[g] >= 1
    /\ pc[g] = "cleaning" => call[g].op \in Sweeps /\ left[g] \subseteq Keys
    /\ pc[g] \in {"rewrite", "rewriting"} =>
          /\ Rewriting
          /\ \A f \in left[g] : f \in Files /\ references[f] \in Seq(ChunkOf(f))
    /\ pc[g] \in {"encoding", "rewriting"} =>
          call[g].file \in Files /\ references[call[g].file] \in Seq(ChunkOf(call[g].file))

Shape ==
    /\ MapsOK /\ LocalsOK
    /\ \A g \in Goroutines : TaskOK(g)

\* A file is whole on disk, or in the registry, stored the way it is.
OnDisk(how, f) == \A i \in 1 .. ChunkCount[f] : storage[Key(how, f, i)] = <<f, i>>

InMemory(how, f) == \A i \in 1 .. ChunkCount[f] : registry[Key(how, f, i)] = Piece(how, f, i)

\* A stored file is safe.
Safe(f) ==
    \E how \in {"load", "write"} :
        /\ <<how, f>> \in Uploads
        /\ metadata[f] = Complete(how, f) /\ OnDisk(how, f)
        /\ up => references[f] = Complete(how, f) /\ InMemory(how, f)

\* What goroutine g has stored so far of its file.
Partial(g) ==
    LET f   == call[g].file
        how == call[g].op
    IN  /\ f \notin stored
        /\ Len(chunks[g]) <= ChunkCount[f]
        /\ \A i \in 1 .. Len(chunks[g]) : chunks[g][i] = Piece(how, f, i)
        /\ pc[g] # "undo" => \A i \in 1 .. Len(chunks[g]) :
              registry[Key(how, f, i)] # Absent =>
                  registry[Key(how, f, i)] = Piece(how, f, i) /\ storage[Key(how, f, i)] = <<f, i>>
        /\ pc[g] \in {"chunk", "writing"} => next[g] = Len(chunks[g]) + 1
        /\ pc[g] \in {"meta", "encoding"} => Len(chunks[g]) = ChunkCount[f]

\* The file whose metadata goroutine g is writing will be safe when it is written.
Sound(g) ==
    LET f == call[g].file
    IN  \E how \in {"load", "write"} :
            /\ <<how, f>> \in Uploads
            /\ references[f] = Complete(how, f) /\ OnDisk(how, f) /\ InMemory(how, f)

Exclusive ==
    \A g \in Goroutines, h \in Goroutines :
        Storing(g) /\ Storing(h) /\ call[g].file = call[h].file => g = h

Sweeping == \E g \in Goroutines : pc[g] = "cleaning"

Solid ==
    /\ Exclusive
    /\ \A f \in stored : Safe(f)
    /\ \A g \in Goroutines : Storing(g) => Partial(g)
    /\ \A g \in Goroutines : pc[g] = "encoding" => Sound(g)
    /\ \A g \in Goroutines : pc[g] = "rewriting" =>
          call[g].file \notin stored /\ (call[g].sure => Sound(g))
    /\ Sweeping => stored = {}
    /\ \A g \in Goroutines : pc[g] = "cleaning" /\ call[g].op = ".toml" => left[g] = {}

-----------------------------------------------------------------------------
(* Lemmas about keys, references and what is left of them.                 *)

\* The keys of a file that is stored are keys, and its chunks are chunks.
LEMMA PieceType ==
    ASSUME NEW how, NEW f, <<how, f>> \in Uploads, NEW i \in 1 .. ChunkCount[f]
    PROVE  /\ how \in {"load", "write"} /\ f \in Files
           /\ Key(how, f, i) \in Keys /\ Piece(how, f, i) \in ChunkOf(f)
           /\ Piece(how, f, i).key = Key(how, f, i)
           /\ Piece(how, f, i).data = <<f, i>> /\ Piece(how, f, i).here
<1>1. how \in {"load", "write"} /\ f \in Files
  BY CallsAssumption
<1>2. Key(how, f, i) \in KeysFor(how, f)
  BY DEF KeysFor
<1>3. Key(how, f, i) \in Keys
  <2>1. KeysFor(how, f) \in {KeysFor(u[1], u[2]) : u \in Uploads}
    <3> DEFINE u == <<how, f>>
    <3>1. u[1] = how /\ u[2] = f /\ u \in Uploads
      OBVIOUS
    <3> QED
      BY <3>1
  <2> QED
    BY <1>2, <2>1 DEF Keys
<1>4. <<f, i>> \in Data
  BY <1>1 DEF Data
<1>5. Piece(how, f, i) = [key |-> Key(how, f, i), data |-> <<f, i>>, here |-> TRUE]
  BY DEF Piece, Chunk
<1>6. Piece(how, f, i) \in ChunkType
  BY <1>3, <1>4, <1>5 DEF ChunkType
<1> QED
  BY <1>1, <1>2, <1>3, <1>5, <1>6 DEF ChunkOf

\* Two files have no key in common, and none has the empty key.
LEMMA KeysApart ==
    ASSUME NEW f, NEW how, NEW i, NEW g, NEW k \in {NoKey} \cup KeysFor("load", g) \cup KeysFor("write", g),
           f # g
    PROVE  Key(how, f, i) # k
<1>1. CASE k = NoKey
  BY <1>1 DEF Key, NoKey
<1>2. CASE k \in KeysFor("load", g) \cup KeysFor("write", g)
  BY <1>2 DEF Key, KeysFor
<1> QED
  BY <1>1, <1>2

\* The chunks of one file have keys of their own, when the index does not wrap.
LEMMA KeysOwn ==
    ASSUME Caution, NEW f \in Files, NEW how, NEW i \in 1 .. ChunkCount[f],
           NEW j \in 1 .. ChunkCount[f], Key(how, f, i) = Key(how, f, j)
    PROVE  i = j
<1>1. ChunkCount[f] \in Nat /\ KeyWrap \in Nat \ {0} /\ ChunkCount[f] <= KeyWrap
  BY CountAssumption DEF Caution
<1>2. (i - 1) % KeyWrap = i - 1 /\ (j - 1) % KeyWrap = j - 1
  BY <1>1
<1> QED
  BY <1>1, <1>2 DEF Key

LEMMA CompleteType ==
    ASSUME NEW how, NEW f, <<how, f>> \in Uploads
    PROVE  /\ Complete(how, f) \in Seq(ChunkOf(f))
           /\ Len(Complete(how, f)) = ChunkCount[f]
           /\ Complete(how, f) \notin {Absent, Broken}
<1>1. f \in Files /\ ChunkCount[f] \in Nat
  BY CallsAssumption, CountAssumption
<1>2. \A i \in 1 .. ChunkCount[f] : Piece(how, f, i) \in ChunkOf(f)
  BY PieceType
<1>3. Complete(how, f) \in [1 .. ChunkCount[f] -> ChunkOf(f)]
  BY <1>2 DEF Complete
<1>4. Complete(how, f) \in [1 .. ChunkCount[f] -> ChunkType]
  BY <1>3 DEF ChunkOf
<1>5. Complete(how, f) \in Seq(ChunkOf(f))
  BY <1>1, <1>3, SeqDef
<1>6. Len(Complete(how, f)) = ChunkCount[f]
  BY <1>1, <1>3, <1>5, LenProperties
<1> QED
  BY <1>1, <1>4, <1>5, <1>6, TokensAssumption

LEMMA PrefixType ==
    ASSUME NEW S, NEW ref \in Seq(S), NEW n \in 0 .. Len(ref) - 1
    PROVE  SubSeq(ref, 1, n) \in Seq(S) /\ ref[n + 1] \in S
<1>1. Len(ref) \in Nat
  BY LenProperties
<1>2. n \in Int /\ n + 1 \in 1 .. Len(ref) /\ \A i \in 1 .. n : i \in 1 .. Len(ref)
  BY <1>1
<1>3. \A i \in 1 .. n : ref[i] \in S
  BY <1>2, ElementOfSeq
<1>4. SubSeq(ref, 1, n) \in Seq(S)
  BY <1>2, <1>3, SubSeqProperties
<1> QED
  BY <1>2, <1>4, ElementOfSeq

\* A chunk cut off after its key, or before it, may stand in the same reference.
LEMMA CutChunkType ==
    ASSUME NEW f, NEW d \in ChunkOf(f), NEW b \in BOOLEAN
    PROVE  /\ Chunk(d.key, Absent, b) \in ChunkOf(f)
           /\ Chunk(NoKey, Absent, FALSE) \in ChunkOf(f)
<1>1. NoKey \in Keys
  BY DEF Keys
<1>2. Chunk(NoKey, Absent, FALSE) \in ChunkType
  BY <1>1 DEF ChunkType, Chunk
<1>3. Chunk(NoKey, Absent, FALSE).key = NoKey
  BY DEF Chunk
<1>4. d \in ChunkType
  BY DEF ChunkOf
<1>5. Chunk(d.key, Absent, b) \in ChunkType
  BY <1>4 DEF ChunkType, Chunk
<1>6. Chunk(d.key, Absent, b).key = d.key
  BY DEF Chunk
<1> QED
  BY <1>2, <1>3, <1>5, <1>6 DEF ChunkOf

\* Whatever is left of a metadata file is broken or lists chunks of the same file.
LEMMA FragmentsType ==
    ASSUME NEW f \in Files, NEW ref \in Seq(ChunkOf(f)), NEW m \in Fragments(ref)
    PROVE  m = Broken \/ m \in Seq(ChunkOf(f))
<1> DEFINE Missing(n) == {Chunk(ref[n + 1].key, Absent, b) : b \in BOOLEAN}
                         \cup {Chunk(NoKey, Absent, FALSE)}
<1>1. ASSUME NEW n \in 0 .. Len(ref) - 1
      PROVE  SubSeq(ref, 1, n) \in Seq(ChunkOf(f))
  BY PrefixType
<1>2. ASSUME NEW n \in 0 .. Len(ref) - 1, NEW c \in Missing(n)
      PROVE  Append(SubSeq(ref, 1, n), c) \in Seq(ChunkOf(f))
  <2>1. ref[n + 1] \in ChunkOf(f)
    BY PrefixType
  <2>2. c \in ChunkOf(f)
    BY <2>1, CutChunkType
  <2> QED
    BY <1>1, <2>2, AppendProperties
<1>3. ASSUME m # Broken
      PROVE  \E n \in 0 .. Len(ref) - 1 :
                m = SubSeq(ref, 1, n) \/ \E c \in Missing(n) : m = Append(SubSeq(ref, 1, n), c)
  BY <1>3 DEF Fragments
<1> HIDE DEF Missing
<1> DEFINE P(n) == SubSeq(ref, 1, n)
           Q(n, c) == Append(SubSeq(ref, 1, n), c)
<1>4. \A n \in 0 .. Len(ref) - 1 :
         P(n) \in Seq(ChunkOf(f)) /\ \A c \in Missing(n) : Q(n, c) \in Seq(ChunkOf(f))
  BY <1>1, <1>2
<1>5. m # Broken => \E n \in 0 .. Len(ref) - 1 : m = P(n) \/ \E c \in Missing(n) : m = Q(n, c)
  BY <1>3
<1> HIDE DEF P, Q
<1> QED
  BY <1>4, <1>5

\* A set of positions in a sequence that is not empty has a last one.
LEMMA LastPosition ==
    ASSUME NEW n \in Nat, NEW T \in SUBSET (1 .. n), T # {}
    PROVE  Max(T) \in T
<1> DEFINE R == OpToRel(<, Nat)
           D == {n - i : i \in T}
<1>1. IsWellFoundedOn(R, Nat)
  BY NatLessThanWellFounded
<1>2. D \subseteq Nat /\ D # {}
  <2>1. PICK i \in T : TRUE
    OBVIOUS
  <2>2. \A j \in T : n - j \in Nat
    OBVIOUS
  <2> QED
    BY <2>1, <2>2
<1>3. PICK x \in D : \A y \in D : ~(<<y, x>> \in R)
  <2> HIDE DEF D, R
  <2> QED
    BY <1>1, <1>2, WFMin
<1>4. PICK i \in T : x = n - i
  BY <1>3
<1>5. ASSUME NEW j \in T PROVE i >= j
  <2>1. n - j \in D /\ n - j \in Nat /\ n - i \in Nat
    BY <1>4
  <2>2. ~(n - j < n - i)
    BY <1>3, <1>4, <2>1 DEF OpToRel
  <2> QED
    BY <2>1, <2>2
<1> QED
  BY <1>5 DEF Max

-----------------------------------------------------------------------------
(* Where the goroutines are.                                               *)

\* The step of g leaves the other goroutines where they are.
OthersStay(g) ==
    \A h \in Goroutines : h # g =>
        /\ pc'[h] = pc[h] /\ chunks'[h] = chunks[h] /\ next'[h] = next[h]
        /\ found'[h] = found[h] /\ left'[h] = left[h]
        /\ call'[h].op = call[h].op /\ call'[h].file = call[h].file
        /\ (call'[h].sure => call[h].sure) /\ (call[h] = Idle => call'[h] = Idle)
        /\ (lock' = h) <=> (lock = h)

\* Two goroutines and a rewriting do not go together.
LEMMA RewritesAlone ==
    ASSUME Caution, Shape, NEW g \in Goroutines, NEW h \in Goroutines,
           pc[h] \in {"rewrite", "rewriting"}
    PROVE  g = h
BY DEF Caution, Shape, TaskOK

\* Only the goroutine that steps needs a look.
LEMMA ShapeStep ==
    ASSUME Caution, Shape, NEW g \in Goroutines, MapsOK', LocalsOK', TaskOK(g)', OthersStay(g),
           up' = up, references' = references \/ lock \in {NoOne, g}
    PROVE  Shape'
<1>1. ASSUME NEW h \in Goroutines, h # g PROVE TaskOK(h)'
  <2>1. pc[h] \notin {"rewrite", "rewriting"}
    BY <1>1, RewritesAlone
  <2>2. TaskOK(h)
    BY DEF Shape
  <2>3. pc[h] = "encoding" => references' = references
    BY <1>1, <2>2, CallsAssumption DEF TaskOK
  <2> QED
    BY <1>1, <2>1, <2>2, <2>3 DEF TaskOK, OthersStay
<1> QED
  BY <1>1 DEF Shape

LEMMA MapsQuiet ==
    ASSUME MapsOK, UNCHANGED <<memory, disk, up, crashes, stored>>, faults' = faults \/ Fault
    PROVE  MapsOK'
<1>1. faults' \in Nat
  BY DEF MapsOK, Fault
<1> QED
  BY <1>1 DEF MapsOK, memory, disk

\* A goroutine that returns gives the lock back, if it has it.
LEMMA ReturnStep ==
    ASSUME Shape, NEW g \in Goroutines, Return(g),
           lock' = IF lock = g THEN NoOne ELSE lock
    PROVE  /\ LocalsOK' /\ OthersStay(g)
           /\ pc'[g] = "idle" /\ call'[g] = Idle /\ chunks'[g] = <<>> /\ next'[g] = 1
           /\ found'[g] = Absent /\ left'[g] = {} /\ lock' # g
<1>1. LocalsOK /\ NoOne \notin Goroutines
  BY CallsAssumption DEF Shape
<1>2. Idle \in CallType
  BY DEF Idle, CallType
<1>3. LocalsOK'
  BY <1>1, <1>2 DEF LocalsOK, Return, Goto, Labels
<1>4. OthersStay(g)
  BY <1>1 DEF OthersStay, LocalsOK, Return, Goto
<1> QED
  BY <1>1, <1>3, <1>4 DEF LocalsOK, Return, Goto

LEMMA ReturnShape ==
    ASSUME Caution, Shape, NEW g \in Goroutines, Return(g), MapsOK', up' = up,
           lock' = IF lock = g THEN NoOne ELSE lock,
           references' = references \/ lock \in {NoOne, g}
    PROVE  Shape'
<1>1. TaskOK(g)'
  BY ReturnStep, EmptySeq DEF TaskOK, StoreLabels, ReadLabels
<1> QED
  BY <1>1, ReturnStep, ShapeStep

\* So does one whose store has failed and is to be undone.
LEMMA UndoStep ==
    ASSUME Shape, NEW g \in Goroutines, StartUndo(g),
           lock' = IF lock = g THEN NoOne ELSE lock
    PROVE  /\ LocalsOK' /\ OthersStay(g) /\ pc'[g] = "undo" /\ next'[g] = 1 /\ lock' # g
           /\ UNCHANGED <<call, chunks>>
<1>1. LocalsOK /\ NoOne \notin Goroutines
  BY CallsAssumption DEF Shape
<1>2. LocalsOK'
  BY <1>1 DEF LocalsOK, StartUndo, Goto, Labels, StoreLabels
<1>3. OthersStay(g)
  BY <1>1 DEF OthersStay, LocalsOK, StartUndo, Goto
<1> QED
  BY <1>1, <1>2, <1>3 DEF LocalsOK, StartUndo, Goto

LEMMA UndoShape ==
    ASSUME Caution, Shape, NEW g \in Goroutines, pc[g] \in StoreLabels, StartUndo(g), MapsOK',
           up' = up, lock' = IF lock = g THEN NoOne ELSE lock,
           references' = references \/ lock \in {NoOne, g}
    PROVE  Shape'
<1>1. TaskOK(g)
  BY DEF Shape
<1>2. UNCHANGED <<call, chunks, found, left>>
  BY DEF StartUndo
<1>3. TaskOK(g)'
  BY <1>1, <1>2, UndoStep DEF TaskOK, StoreLabels, ReadLabels
<1> QED
  BY <1>3, UndoStep, ShapeStep

\* A goroutine that begins a call.
LEMMA BeginStep ==
    ASSUME Shape, NEW g \in Goroutines, NEW op, NEW f \in Files \cup {Absent},
           NEW label \in Labels, Begin(g, op, f, label),
           op \in {"read", "rewrite", "load", "write", "all", ".kdht", ".toml"},
           chunks' = chunks, left' \in [Goroutines -> SUBSET (Keys \cup Files)],
           \A h \in Goroutines : h # g => left'[h] = left[h],
           lock' = lock \/ (lock = NoOne /\ lock' = g)
    PROVE  /\ LocalsOK' /\ OthersStay(g) /\ up
           /\ pc[g] = "idle" /\ pc'[g] = label /\ call'[g].op = op /\ call'[g].file = f
           /\ call'[g].sure \in BOOLEAN
           /\ chunks'[g] = <<>> /\ next'[g] = 1 /\ found'[g] = found[g]
<1>1. LocalsOK /\ NoOne \notin Goroutines /\ TaskOK(g)
  BY CallsAssumption DEF Shape
<1>2. pc[g] = "idle" /\ pc' = [pc EXCEPT ![g] = label] /\ UNCHANGED <<next, found>> /\ up
  BY DEF Begin, Goto
<1>3. call'[g] = [op |-> op, file |-> f, sure |-> op = "read" /\ f \in stored]
  BY DEF Begin
<1>4. ASSUME NEW h \in Goroutines, h # g
      PROVE  call'[h] = [call[h] EXCEPT !.sure = @ /\ op \notin Sweeps] /\ call[h] \in CallType
  BY <1>1, <1>4 DEF Begin, LocalsOK
<1>5. ASSUME NEW h \in Goroutines, h # g
      PROVE  call'[h] = [op |-> call[h].op, file |-> call[h].file,
                         sure |-> call[h].sure /\ op \notin Sweeps]
  BY <1>4, <1>5 DEF CallType
<1>6. ASSUME NEW h \in Goroutines, h # g
      PROVE  /\ call'[h] \in CallType /\ (call'[h].sure => call[h].sure)
             /\ call'[h].op = call[h].op /\ call'[h].file = call[h].file
             /\ (call[h] = Idle => call'[h] = Idle)
  <2> DEFINE b == call[h].sure /\ op \notin Sweeps
  <2>1. call[h] \in CallType /\ call'[h] = [op |-> call[h].op, file |-> call[h].file, sure |-> b]
    BY <1>4, <1>5, <1>6
  <2>2. b \in BOOLEAN /\ (b => call[h].sure)
    OBVIOUS
  <2> HIDE DEF b
  <2>3. call'[h] \in CallType /\ call'[h].op = call[h].op /\ call'[h].file = call[h].file
    BY <2>1, <2>2 DEF CallType
  <2>4. call'[h].sure = b
    BY <2>1
  <2>5. ASSUME call[h] = Idle PROVE call'[h] = Idle
    <3>1. call[h].sure = FALSE /\ call[h].op = "none" /\ call[h].file = Absent
      BY <2>5 DEF Idle
    <3>2. b = FALSE
      BY <2>2, <3>1
    <3> QED
      BY <2>1, <3>1, <3>2 DEF Idle
  <2> QED
    BY <2>2, <2>3, <2>4, <2>5
<1>7. call'[g].op = op /\ call'[g].file = f /\ call'[g].sure \in BOOLEAN /\ call'[g] \in CallType
  <2> DEFINE b == op = "read" /\ f \in stored
  <2>1. call'[g] = [op |-> op, file |-> f, sure |-> b] /\ b \in BOOLEAN
    BY <1>3
  <2> HIDE DEF b
  <2> QED
    BY <2>1 DEF CallType
<1>8. call' \in [Goroutines -> CallType]
  <2>1. \A h \in Goroutines : call'[h] \in CallType
    BY <1>6, <1>7
  <2>2. DOMAIN call' = Goroutines /\ call' = [h \in Goroutines |-> call'[h]]
    BY DEF Begin
  <2> QED
    BY <2>1, <2>2
<1>9. LocalsOK'
  BY <1>1, <1>2, <1>8 DEF LocalsOK
<1>10. OthersStay(g)
  BY <1>1, <1>2, <1>6 DEF OthersStay, LocalsOK
<1> QED
  BY <1>1, <1>2, <1>7, <1>9, <1>10 DEF LocalsOK, TaskOK

LEMMA InitShape == Init => Shape
<1> SUFFICES ASSUME Init PROVE Shape
  OBVIOUS
<1> USE DEF Init
<1>1. MapsOK
  BY BoundsAssumption DEF MapsOK
<1>2. LocalsOK
  BY DEF LocalsOK, Labels, CallType, Idle
<1>3. ASSUME NEW g \in Goroutines PROVE TaskOK(g)
  BY CallsAssumption, EmptySeq DEF TaskOK, StoreLabels, ReadLabels
<1> QED
  BY <1>1, <1>2, <1>3 DEF Shape

LEMMA UnchangedShape == Shape /\ UNCHANGED vars => Shape'
<1> SUFFICES ASSUME Shape, UNCHANGED vars PROVE Shape'
  OBVIOUS
<1> USE DEF vars, memory, disk, local, world
<1>1. MapsOK' /\ LocalsOK'
  BY DEF Shape, MapsOK, LocalsOK
<1>2. \A g \in Goroutines : TaskOK(g)'
  BY DEF Shape, TaskOK
<1> QED
  BY <1>1, <1>2 DEF Shape

\* The calls.
LEMMA StoreShape ==
    ASSUME Caution, Shape, NEW g \in Goroutines, NEW how, NEW f, <<how, f>> \in Uploads,
           Store(g, how, f)
    PROVE  Shape'
<1>1. how \in {"load", "write"} /\ f \in Files /\ ChunkCount[f] \in Nat \ {0}
  BY CallsAssumption, CountAssumption
<1>2. MapsOK'
  BY MapsQuiet DEF Shape, Store, memory, disk, world
<1>3. /\ Begin(g, how, f, "chunk") /\ chunks' = chunks /\ lock' = lock /\ up' = up
      /\ left' = left /\ left' \in [Goroutines -> SUBSET (Keys \cup Files)]
      /\ "chunk" \in Labels /\ f \in Files \cup {Absent}
      /\ references' = references
  BY <1>1 DEF Shape, LocalsOK, Store, Labels, StoreLabels, world, memory
<1>4. LocalsOK' /\ OthersStay(g) /\ up /\ pc[g] = "idle" /\ pc'[g] = "chunk"
      /\ call'[g].op = how /\ call'[g].file = f /\ chunks'[g] = <<>> /\ next'[g] = 1
      /\ found'[g] = found[g]
  BY <1>1, <1>3, BeginStep
<1>5. lock # g /\ (found[g] = Absent \/ found[g] \in ChunkType)
  BY <1>4 DEF Shape, TaskOK
<1>6. <<>> \in Seq(ChunkType) /\ <<>> \in Seq(ChunkOf(f)) /\ how # "none" /\ 1 \in 1 .. ChunkCount[f]
  BY <1>1, EmptySeq
<1>7. TaskOK(g)'
  BY <1>3, <1>4, <1>5, <1>6 DEF TaskOK, StoreLabels, ReadLabels
<1> QED
  BY <1>2, <1>3, <1>4, <1>7, ShapeStep

LEMMA ReadShape ==
    ASSUME Caution, Shape, NEW g \in Goroutines, NEW f \in Files, Read(g, f)
    PROVE  Shape'
<1>1. MapsOK'
  BY MapsQuiet DEF Shape, Read, memory, disk, world
<1>2. /\ Begin(g, "read", f, "recall") /\ chunks' = chunks /\ lock' = lock /\ up' = up
      /\ left' = left /\ left' \in [Goroutines -> SUBSET (Keys \cup Files)]
      /\ "recall" \in Labels /\ f \in Files \cup {Absent}
      /\ references' = references
  BY DEF Shape, LocalsOK, Read, Labels, ReadLabels, world, memory
<1>3. LocalsOK' /\ OthersStay(g) /\ up /\ pc[g] = "idle" /\ pc'[g] = "recall"
      /\ call'[g].op = "read" /\ call'[g].file = f /\ chunks'[g] = <<>> /\ next'[g] = 1
      /\ found'[g] = found[g]
  BY <1>2, BeginStep
<1>4. lock # g /\ (found[g] = Absent \/ found[g] \in ChunkType) /\ <<>> \in Seq(ChunkType)
  BY <1>3, EmptySeq DEF Shape, TaskOK
<1>5. TaskOK(g)'
  BY <1>2, <1>3, <1>4 DEF TaskOK, StoreLabels, ReadLabels
<1> QED
  BY <1>1, <1>2, <1>3, <1>5, ShapeStep

LEMMA StoreKeyShape ==
    ASSUME Caution, Shape, NEW g \in Goroutines, NEW k \in NetKeys, StoreKey(g, k)
    PROVE  Shape'
<1> DEFINE c == Chunk(k, Absent, FALSE)
<1>1. k \in Keys /\ c \in ChunkType /\ c.key = k
  BY DEF Keys, Chunk, ChunkType
<1> HIDE DEF c
<1>2. registry' = [registry EXCEPT ![k] = c] /\ UNCHANGED <<references, lock, disk, pc, local, world>>
  BY DEF StoreKey, c
<1>3. MapsOK'
  BY <1>1, <1>2 DEF Shape, MapsOK, disk, world
<1>4. LocalsOK'
  BY <1>2 DEF Shape, LocalsOK, local
<1>5. ASSUME NEW h \in Goroutines PROVE TaskOK(h)'
  BY <1>2 DEF Shape, TaskOK, local, world
<1> QED
  BY <1>3, <1>4, <1>5 DEF Shape

LEMMA SweepBeginShape ==
    ASSUME Caution, Shape, NEW g \in Goroutines, NEW what \in Sweeps, SweepBegin(g, what)
    PROVE  Shape'
<1>1. what \in {"all", ".kdht", ".toml"}
  BY CallsAssumption
<1>2. MapsOK'
  BY DEF Shape, MapsOK, SweepBegin, memory, disk
<1>3. /\ Begin(g, what, Absent, "cleaning") /\ chunks' = chunks /\ up' = up
      /\ left' \in [Goroutines -> SUBSET (Keys \cup Files)] /\ lock = NoOne /\ lock' = g
      /\ left'[g] \subseteq Keys /\ \A h \in Goroutines : h # g => left'[h] = left[h]
      /\ "cleaning" \in Labels /\ Absent \in Files \cup {Absent}
  <2>1. Swept(what) \in SUBSET Keys /\ Swept(what) \in SUBSET (Keys \cup Files)
    BY DEF Swept
  <2> QED
    BY <2>1 DEF Shape, LocalsOK, SweepBegin, Labels
<1>4. LocalsOK' /\ OthersStay(g) /\ up /\ pc[g] = "idle" /\ pc'[g] = "cleaning"
      /\ call'[g].op = what /\ chunks'[g] = <<>> /\ next'[g] = 1
      /\ found'[g] = found[g]
  BY <1>1, <1>3, BeginStep
<1>5. TaskOK(g)'
  BY <1>1, <1>3, <1>4, EmptySeq DEF Shape, TaskOK, StoreLabels, ReadLabels
<1> QED
  BY <1>2, <1>3, <1>4, <1>5, ShapeStep

LEMMA RewriteShape ==
    ASSUME Caution, Shape, NEW g \in Goroutines, Rewrite(g)
    PROVE  Shape'
<1> DEFINE S == {f \in Files : references[f] # Absent}
<1>1. MapsOK'
  BY MapsQuiet DEF Shape, Rewrite, memory, disk, world
<1>2. /\ Begin(g, "rewrite", Absent, "rewrite") /\ chunks' = chunks /\ lock' = lock /\ up' = up
      /\ left' \in [Goroutines -> SUBSET (Keys \cup Files)]
      /\ left'[g] = S /\ \A h \in Goroutines : h # g => left'[h] = left[h]
      /\ "rewrite" \in Labels /\ Absent \in Files \cup {Absent} /\ Rewriting
      /\ references' = references
  BY DEF Shape, LocalsOK, Rewrite, Labels, memory, world
<1>3. LocalsOK' /\ OthersStay(g) /\ up /\ pc[g] = "idle" /\ pc'[g] = "rewrite"
      /\ call'[g].op = "rewrite" /\ chunks'[g] = <<>> /\ next'[g] = 1
      /\ found'[g] = found[g]
  BY <1>2, BeginStep
<1>4. \A f \in S : references[f] \in Seq(ChunkOf(f))
  BY DEF Shape, MapsOK
<1>5. TaskOK(g)'
  BY <1>2, <1>3, <1>4, EmptySeq DEF Shape, TaskOK, StoreLabels, ReadLabels
<1> QED
  BY <1>1, <1>2, <1>3, <1>5, ShapeStep

\* The steps of a store.
LEMMA SourceFailsShape ==
    ASSUME Caution, Shape, NEW g \in Goroutines, SourceFails(g)
    PROVE  Shape'
<1>1. MapsOK'
  BY MapsQuiet DEF Shape, SourceFails, memory, disk
<1>2. lock # g /\ references' = references
  BY DEF Shape, TaskOK, SourceFails, memory
<1> QED
  BY <1>1, <1>2, ReturnShape DEF SourceFails

LEMMA StartsUndoShape ==
    ASSUME Caution, Shape, NEW g \in Goroutines,
           SourceChanged(g) \/ ChunkRefused(g) \/ MetaMissing(g)
    PROVE  Shape'
<1>1. MapsOK'
  BY MapsQuiet DEF Shape, SourceChanged, ChunkRefused, MetaMissing, memory, disk, world
<1>2. pc[g] \in {"chunk", "meta"} /\ StartUndo(g) /\ UNCHANGED <<references, lock, up>>
  BY DEF SourceChanged, ChunkRefused, MetaMissing, memory, world
<1>3. lock # g
  BY <1>2 DEF Shape, TaskOK
<1> QED
  BY <1>1, <1>2, <1>3, UndoShape DEF StoreLabels

LEMMA CurrentType ==
    ASSUME Shape, NEW g \in Goroutines, pc[g] \in {"chunk", "writing"}
    PROVE  /\ Current(g) = Piece(call[g].op, call[g].file, next[g])
           /\ Current(g) \in ChunkOf(call[g].file) /\ Current(g) \in ChunkType
           /\ Current(g).key \in Keys /\ Current(g).data \in Data
           /\ Current(g).key = Key(call[g].op, call[g].file, next[g])
           /\ Current(g).data = <<call[g].file, next[g]>>
<1>1. <<call[g].op, call[g].file>> \in Uploads /\ next[g] \in 1 .. ChunkCount[call[g].file]
  BY DEF Shape, TaskOK, StoreLabels
<1>2. Current(g) = Piece(call[g].op, call[g].file, next[g])
  BY DEF Current, Piece
<1>3. <<call[g].file, next[g]>> \in Data
  BY <1>1, PieceType DEF Data
<1> QED
  BY <1>1, <1>2, <1>3, PieceType DEF ChunkOf

LEMMA ChunkBeginShape ==
    ASSUME Caution, Shape, NEW g \in Goroutines, ChunkBegin(g)
    PROVE  Shape'
<1>1. pc[g] = "chunk" /\ lock = NoOne /\ lock' = g /\ pc' = [pc EXCEPT ![g] = "writing"]
      /\ UNCHANGED <<references, registry, metadata, call, chunks, next, found, left, up, faults,
                     crashes, stored>>
      /\ storage' = [storage EXCEPT ![Current(g).key] = Cut]
  BY DEF ChunkBegin, Goto, memory, local, world
<1>2. Current(g).key \in Keys
  BY <1>1, CurrentType
<1>3. MapsOK'
  BY <1>1, <1>2 DEF Shape, MapsOK
<1>4. LocalsOK' /\ OthersStay(g) /\ pc'[g] = "writing"
  BY <1>1, CallsAssumption DEF Shape, LocalsOK, Labels, StoreLabels, OthersStay
<1>5. TaskOK(g)'
  BY <1>1, <1>4 DEF Shape, TaskOK, StoreLabels, ReadLabels
<1> QED
  BY <1>1, <1>3, <1>4, <1>5, ShapeStep

LEMMA ChunkWrittenShape ==
    ASSUME Caution, Shape, NEW g \in Goroutines, ChunkWritten(g)
    PROVE  Shape'
<1> DEFINE c == Current(g)
           f == call[g].file
           label == IF next[g] = ChunkCount[f] THEN "meta" ELSE "chunk"
<1>1. pc[g] = "writing" /\ lock' = NoOne /\ pc' = [pc EXCEPT ![g] = label]
      /\ UNCHANGED <<references, metadata, call, found, left, up, faults, crashes, stored>>
      /\ storage' = [storage EXCEPT ![c.key] = c.data]
      /\ registry' = [registry EXCEPT ![c.key] = c]
      /\ chunks' = [chunks EXCEPT ![g] = Append(@, c)]
      /\ next' = [next EXCEPT ![g] = @ + 1]
  BY DEF ChunkWritten, Goto, world
<1>2. c.key \in Keys /\ c \in ChunkOf(f) /\ c \in ChunkType /\ c.data \in Data
  BY <1>1, CurrentType
<1>3. LocalsOK /\ TaskOK(g) /\ lock = g /\ ChunkCount[f] \in Nat
  <2>1. TaskOK(g) /\ <<call[g].op, f>> \in Uploads
    BY <1>1 DEF Shape, TaskOK, StoreLabels
  <2> QED
    BY <1>1, <2>1, CallsAssumption, CountAssumption DEF Shape, TaskOK
<1> HIDE DEF c
<1>4. MapsOK'
  BY <1>1, <1>2 DEF Shape, MapsOK
<1>5. label \in {"meta", "chunk"}
  OBVIOUS
<1>6. LocalsOK' /\ OthersStay(g) /\ pc'[g] = label
  BY <1>1, <1>3, <1>5, CallsAssumption DEF LocalsOK, Labels, StoreLabels, OthersStay
<1>7. chunks[g] \in Seq(ChunkOf(f)) /\ chunks[g] \in Seq(ChunkType)
      /\ next[g] \in 1 .. ChunkCount[f] /\ chunks'[g] = Append(chunks[g], c)
      /\ next'[g] = next[g] + 1
  BY <1>1, <1>3 DEF TaskOK, StoreLabels, LocalsOK
<1>8. chunks'[g] \in Seq(ChunkOf(f)) /\ chunks'[g] \in Seq(ChunkType)
  BY <1>2, <1>7, AppendProperties
<1>9. pc'[g] = "chunk" => next'[g] \in 1 .. ChunkCount[f]
  BY <1>3, <1>6, <1>7
<1>10. lock' # g
  BY <1>1, CallsAssumption
<1>11. TaskOK(g)'
  <2> HIDE DEF label, f
  <2>1. pc'[g] \in {"meta", "chunk"} /\ call'[g] = call[g] /\ f = call[g].file /\ found' = found
    BY <1>1, <1>5, <1>6 DEF f
  <2> QED
    BY <1>1, <1>3, <1>8, <1>9, <1>10, <2>1 DEF TaskOK, StoreLabels, ReadLabels
<1> QED
  BY <1>1, <1>4, <1>6, <1>11, ShapeStep

LEMMA ChunkFailsShape ==
    ASSUME Caution, Shape, NEW g \in Goroutines, ChunkFails(g)
    PROVE  Shape'
<1>1. pc[g] = "writing" /\ lock' = NoOne /\ StartUndo(g) /\ Fault
      /\ UNCHANGED <<references, registry, metadata, up, crashes, stored>>
  BY DEF ChunkFails, memory
<1>2. PICK data \in {Cut, Current(g).data} :
         storage' = [storage EXCEPT ![Current(g).key] = data]
  BY DEF ChunkFails
<1>3. Current(g).key \in Keys /\ data \in Data \cup {Absent, Cut}
  BY <1>1, CurrentType
<1>4. MapsOK'
  <2>1. faults' \in Nat
    BY <1>1 DEF Fault, Shape, MapsOK
  <2> QED
    BY <1>1, <1>2, <1>3, <2>1 DEF Shape, MapsOK
<1>5. lock = g
  BY <1>1 DEF Shape, TaskOK
<1> QED
  BY <1>1, <1>4, <1>5, UndoShape DEF StoreLabels

LEMMA UndoChunkShape ==
    ASSUME Caution, Shape, NEW g \in Goroutines, UndoChunk(g)
    PROVE  Shape'
<1> DEFINE k == chunks[g][next[g]].key
<1>1. pc[g] = "undo" /\ lock = NoOne /\ next' = [next EXCEPT ![g] = @ + 1]
      /\ UNCHANGED <<references, lock, metadata, pc, call, chunks, found, left, up, crashes, stored>>
      /\ \/ /\ storage' = [storage EXCEPT ![k] = Absent]
            /\ registry' = [registry EXCEPT ![k] = Absent]
            /\ faults' = faults
         \/ UNCHANGED <<storage, registry>> /\ (faults' = faults \/ Fault)
  BY DEF UndoChunk
<1> HIDE DEF k
<1>2. MapsOK'
  <2>1. faults' \in Nat
    BY <1>1 DEF Fault, Shape, MapsOK
  <2> QED
    BY <1>1, <2>1 DEF Shape, MapsOK
<1>3. LocalsOK' /\ OthersStay(g) /\ next'[g] = next[g] + 1 /\ next[g] \in Nat
  BY <1>1 DEF Shape, LocalsOK, OthersStay
<1>4. TaskOK(g)'
  BY <1>1, <1>3 DEF Shape, TaskOK, StoreLabels, ReadLabels
<1> QED
  BY <1>1, <1>2, <1>3, <1>4, ShapeStep

LEMMA UndoDoneShape ==
    ASSUME Caution, Shape, NEW g \in Goroutines, UndoDone(g)
    PROVE  Shape'
<1>1. MapsOK'
  BY MapsQuiet DEF Shape, UndoDone, memory, disk, world
<1>2. lock # g /\ Return(g) /\ UNCHANGED <<references, lock, up>> /\ pc[g] # "idle"
  BY DEF Shape, TaskOK, UndoDone, memory, world
<1> QED
  BY <1>1, <1>2, ReturnShape

\* The chunks of a file as the registry has them are chunks of that file.
LEMMA LiveType ==
    ASSUME Shape, NEW g \in Goroutines, pc[g] = "meta", Registered(g)
    PROVE  Live(g) \in Seq(ChunkOf(call[g].file)) /\ call[g].file \in Files
<1> DEFINE f == call[g].file
           s == chunks[g]
<1>1. s \in Seq(ChunkOf(f)) /\ <<call[g].op, f>> \in Uploads
  BY DEF Shape, TaskOK, StoreLabels
<1>2. f \in Files /\ Len(s) \in Nat
  BY <1>1, CallsAssumption, LenProperties
<1>3. ASSUME NEW i \in 1 .. Len(s) PROVE registry[s[i].key] \in ChunkOf(f)
  <2>1. s[i] \in ChunkOf(f)
    BY <1>1, ElementOfSeq
  <2>2. s[i].key \in Keys
    BY <2>1 DEF ChunkOf, ChunkType
  <2>3. registry[s[i].key] \in ChunkType /\ registry[s[i].key].key = s[i].key
    BY <2>2 DEF Registered, Shape, MapsOK
  <2> QED
    BY <2>1, <2>3 DEF ChunkOf
<1>4. Live(g) \in [1 .. Len(s) -> ChunkOf(f)]
  BY <1>3 DEF Live
<1> HIDE DEF f, s
<1>5. Live(g) \in Seq(ChunkOf(f))
  BY <1>2, <1>4, SeqDef
<1> QED
  BY <1>2, <1>5 DEF f

LEMMA MetaBeginShape ==
    ASSUME Caution, Shape, NEW g \in Goroutines, MetaBegin(g)
    PROVE  Shape'
<1> DEFINE f == call[g].file
<1>1. pc[g] = "meta" /\ lock = NoOne /\ lock' = g /\ Registered(g)
      /\ pc' = [pc EXCEPT ![g] = "encoding"]
      /\ references' = [references EXCEPT ![f] = Live(g)]
      /\ metadata' = [metadata EXCEPT ![f] = <<>>]
      /\ UNCHANGED <<registry, storage, call, chunks, next, found, left, up, faults, crashes, stored>>
  BY DEF MetaBegin, Goto, local, world
<1>2. Live(g) \in Seq(ChunkOf(f)) /\ f \in Files
  BY <1>1, LiveType
<1>3. <<>> \in Seq(ChunkOf(f))
  BY EmptySeq
<1> HIDE DEF f
<1>4. MapsOK'
  BY <1>1, <1>2, <1>3 DEF Shape, MapsOK
<1>5. LocalsOK' /\ OthersStay(g) /\ pc'[g] = "encoding"
  BY <1>1, CallsAssumption DEF Shape, LocalsOK, Labels, StoreLabels, OthersStay
<1>6. references'[f] = Live(g)
  BY <1>1, <1>2 DEF Shape, MapsOK
<1>7. TaskOK(g)'
  BY <1>1, <1>2, <1>5, <1>6 DEF Shape, TaskOK, StoreLabels, ReadLabels, f
<1> QED
  BY <1>1, <1>4, <1>5, <1>7, ShapeStep

LEMMA MetaRefusedShape ==
    ASSUME Caution, Shape, NEW g \in Goroutines, MetaRefused(g)
    PROVE  Shape'
<1> DEFINE f == call[g].file
<1>1. pc[g] = "meta" /\ lock = NoOne /\ lock' = lock /\ Registered(g) /\ StartUndo(g) /\ Fault
      /\ references' = [references EXCEPT ![f] = Live(g)]
      /\ UNCHANGED <<registry, storage, metadata, up, crashes, stored>>
  BY DEF MetaRefused, disk
<1>2. Live(g) \in Seq(ChunkOf(f)) /\ f \in Files
  BY <1>1, LiveType
<1> HIDE DEF f
<1>3. MapsOK'
  <2>1. faults' \in Nat
    BY <1>1 DEF Fault, Shape, MapsOK
  <2> QED
    BY <1>1, <1>2, <2>1 DEF Shape, MapsOK
<1>4. lock # g
  BY <1>1, CallsAssumption
<1> QED
  BY <1>1, <1>3, <1>4, UndoShape DEF StoreLabels

\* The reference whose metadata file a goroutine is writing.
LEMMA EncodedType ==
    ASSUME Shape, NEW g \in Goroutines, pc[g] \in {"encoding", "rewriting"}
    PROVE  /\ call[g].file \in Files
           /\ references[call[g].file] \in Seq(ChunkOf(call[g].file))
           /\ \A m \in Fragments(references[call[g].file]) :
                 m = Broken \/ m \in Seq(ChunkOf(call[g].file))
<1>1. call[g].file \in Files /\ references[call[g].file] \in Seq(ChunkOf(call[g].file))
  BY DEF Shape, TaskOK
<1> QED
  BY <1>1, FragmentsType

LEMMA MetaWrittenShape ==
    ASSUME Caution, Shape, NEW g \in Goroutines, MetaWritten(g)
    PROVE  Shape'
<1> DEFINE f == call[g].file
<1>1. pc[g] = "encoding" /\ lock' = NoOne /\ Return(g) /\ stored' = stored \cup {f}
      /\ metadata' = [metadata EXCEPT ![f] = references[f]]
      /\ UNCHANGED <<references, registry, storage, up, faults, crashes>>
  BY DEF MetaWritten, memory
<1>2. f \in Files /\ references[f] \in Seq(ChunkOf(f)) /\ lock = g
  BY <1>1, EncodedType DEF Shape, TaskOK
<1> HIDE DEF f
<1>3. MapsOK'
  BY <1>1, <1>2 DEF Shape, MapsOK
<1> QED
  BY <1>1, <1>2, <1>3, ReturnShape

LEMMA MetaFailsShape ==
    ASSUME Caution, Shape, NEW g \in Goroutines, MetaFails(g)
    PROVE  Shape'
<1> DEFINE f == call[g].file
<1>1. pc[g] = "encoding" /\ lock' = NoOne /\ StartUndo(g) /\ Fault
      /\ UNCHANGED <<references, registry, storage, up, crashes, stored>>
  BY DEF MetaFails, memory
<1>2. PICK m \in Fragments(references[f]) : metadata' = [metadata EXCEPT ![f] = m]
  BY DEF MetaFails
<1>3. f \in Files /\ (m = Broken \/ m \in Seq(ChunkOf(f))) /\ lock = g
  BY <1>1, EncodedType DEF Shape, TaskOK
<1> HIDE DEF f
<1>4. MapsOK'
  <2>1. faults' \in Nat
    BY <1>1 DEF Fault, Shape, MapsOK
  <2> QED
    BY <1>1, <1>2, <1>3, <2>1 DEF Shape, MapsOK
<1> QED
  BY <1>1, <1>3, <1>4, UndoShape DEF StoreLabels

\* The steps of a reader, which only its own variables tell of.
LEMMA ReaderShape ==
    ASSUME Caution, Shape, NEW g \in Goroutines,
           Recall(g) \/ Lookup(g) \/ Load(g) \/ ReadEnd(g)
    PROVE  Shape'
<1>1. UNCHANGED <<memory, lock, disk, world>> /\ pc[g] \in ReadLabels
  BY DEF Recall, Lookup, Load, ReadEnd, ReadLabels
<1>2. MapsOK'
  BY <1>1, MapsQuiet DEF Shape, world
<1>3. LocalsOK /\ TaskOK(g) /\ lock # g /\ UNCHANGED <<references, lock, up>>
  BY <1>1 DEF Shape, TaskOK, ReadLabels, memory, world
<1>4. CASE Return(g)
  BY <1>1, <1>2, <1>3, <1>4, ReturnShape DEF ReadLabels
<1>5. ASSUME NEW label \in ReadLabels, pc' = [pc EXCEPT ![g] = label],
             DOMAIN chunks' = Goroutines, chunks'[g] \in Seq(ChunkType),
             next' \in [Goroutines -> Nat], next'[g] >= 1,
             DOMAIN found' = Goroutines, found'[g] = Absent \/ found'[g] \in ChunkType,
             \A h \in Goroutines : h # g =>
                chunks'[h] = chunks[h] /\ next'[h] = next[h] /\ found'[h] = found[h],
             UNCHANGED <<call, left>>
      PROVE  Shape'
  <2>1. label \in Labels
    BY DEF Labels
  <2>2. LocalsOK' /\ OthersStay(g) /\ pc'[g] = label
    BY <1>3, <1>5, <2>1 DEF LocalsOK, OthersStay
  <2>3. TaskOK(g)'
    BY <1>1, <1>3, <1>5, <2>2 DEF TaskOK, StoreLabels, ReadLabels
  <2> QED
    BY <1>2, <1>3, <2>2, <2>3, ShapeStep
<1>6. /\ pc \in [Goroutines -> Labels] /\ next \in [Goroutines -> Nat]
      /\ DOMAIN chunks = Goroutines /\ DOMAIN found = Goroutines
      /\ chunks[g] \in Seq(ChunkType) /\ next[g] \in Nat /\ next[g] >= 1
      /\ (found[g] = Absent \/ found[g] \in ChunkType) /\ call[g].file \in Files
  BY <1>1, <1>3 DEF LocalsOK, TaskOK
<1>7. CASE Recall(g)
  <2> DEFINE ref == references[call[g].file]
  <2>1. SUFFICES ASSUME ~Return(g) PROVE Shape'
    BY <1>4
  <2>2. ref # Absent /\ chunks' = [chunks EXCEPT ![g] = ref] /\ pc' = [pc EXCEPT ![g] = "lookup"]
        /\ UNCHANGED <<call, next, found, left>>
    BY <1>7, <2>1 DEF Recall, Goto
  <2>3. ref \in Seq(ChunkType)
    <3>1. ref \in Seq(ChunkOf(call[g].file))
      BY <1>6, <2>2 DEF Shape, MapsOK
    <3> QED
      BY <3>1, SeqMonotonic DEF ChunkOf
  <2> HIDE DEF ref
  <2> QED
    BY <1>5, <1>6, <2>2, <2>3 DEF ReadLabels
<1>8. CASE Lookup(g)
  <2> DEFINE c == registry[chunks[g][next[g]].key]
  <2>1. SUFFICES ASSUME ~Return(g) PROVE Shape'
    BY <1>4
  <2>2. c # Absent /\ found' = [found EXCEPT ![g] = c] /\ pc' = [pc EXCEPT ![g] = "load"]
        /\ UNCHANGED <<call, chunks, next, left>> /\ next[g] <= Len(chunks[g])
    BY <1>8, <2>1 DEF Lookup, Goto
  <2>3. c \in ChunkType
    <3>1. next[g] \in 1 .. Len(chunks[g])
      BY <1>6, <2>2, LenProperties
    <3>2. chunks[g][next[g]] \in ChunkType
      BY <1>6, <3>1, ElementOfSeq
    <3>3. chunks[g][next[g]].key \in Keys
      BY <3>2 DEF ChunkType
    <3> QED
      BY <2>2, <3>3 DEF Shape, MapsOK
  <2> HIDE DEF c
  <2> QED
    BY <1>5, <1>6, <2>2, <2>3 DEF ReadLabels
<1>9. CASE Load(g)
  <2>1. SUFFICES ASSUME ~Return(g) PROVE Shape'
    BY <1>4
  <2>2. next' = [next EXCEPT ![g] = next[g] + 1] /\ found' = [found EXCEPT ![g] = Absent]
        /\ pc' = [pc EXCEPT ![g] = "lookup"] /\ UNCHANGED <<call, chunks, left>>
    BY <1>9, <2>1 DEF Load, Goto
  <2>3. next[g] + 1 \in Nat /\ next[g] + 1 >= 1
    BY <1>6
  <2> QED
    BY <1>5, <1>6, <2>2, <2>3 DEF ReadLabels
<1>10. CASE ReadEnd(g)
  BY <1>4, <1>10 DEF ReadEnd
<1> QED
  BY <1>7, <1>8, <1>9, <1>10

\* The steps of a cleanup.
LEMMA SweepChunkShape ==
    ASSUME Caution, Shape, NEW g \in Goroutines, SweepChunk(g)
    PROVE  Shape'
<1>1. pc[g] = "cleaning"
      /\ UNCHANGED <<references, registry, lock, metadata, pc, call, chunks, next, found, up,
                     faults, crashes, stored>>
  BY DEF SweepChunk, memory, world
<1>2. PICK k \in left[g] : storage' = [storage EXCEPT ![k] = Absent]
                           /\ left' = [left EXCEPT ![g] = @ \ {k}]
  BY DEF SweepChunk
<1>3. left[g] \subseteq Keys
  BY <1>1 DEF Shape, TaskOK
<1>4. MapsOK'
  BY <1>1, <1>2, <1>3 DEF Shape, MapsOK
<1>5. LocalsOK' /\ OthersStay(g) /\ left'[g] \subseteq left[g]
  BY <1>1, <1>2 DEF Shape, LocalsOK, OthersStay
<1>6. TaskOK(g)'
  BY <1>1, <1>5 DEF Shape, TaskOK, StoreLabels, ReadLabels
<1> QED
  BY <1>1, <1>4, <1>5, <1>6, ShapeStep

LEMMA SweepMetadataShape ==
    ASSUME Caution, Shape, NEW g \in Goroutines, SweepMetadata(g)
    PROVE  Shape'
<1>1. UNCHANGED <<references, registry, lock, storage, pc, call, chunks, next, found, left, up,
                  faults, crashes, stored>>
  BY DEF SweepMetadata, memory, local, world
<1>2. PICK f \in Files : metadata' = [metadata EXCEPT ![f] = Absent]
  BY DEF SweepMetadata
<1>3. MapsOK'
  BY <1>1, <1>2 DEF Shape, MapsOK
<1>4. LocalsOK' /\ OthersStay(g)
  BY <1>1 DEF Shape, LocalsOK, OthersStay
<1>5. TaskOK(g)'
  BY <1>1 DEF Shape, TaskOK
<1> QED
  BY <1>1, <1>3, <1>4, <1>5, ShapeStep

LEMMA SweepEndsShape ==
    ASSUME Caution, Shape, NEW g \in Goroutines, SweepFails(g) \/ SweepDone(g)
    PROVE  Shape'
<1>1. pc[g] = "cleaning" /\ lock' = NoOne /\ Return(g) /\ UNCHANGED up
  BY DEF SweepFails, SweepDone, world
<1>2. lock = g
  BY <1>1 DEF Shape, TaskOK
<1>3. MapsOK'
  <2>1. CASE SweepFails(g)
    BY <2>1, MapsQuiet DEF Shape, SweepFails
  <2>2. CASE SweepDone(g)
    BY <2>2 DEF Shape, MapsOK, SweepDone, disk, world
  <2> QED
    BY <2>1, <2>2
<1> QED
  BY <1>1, <1>2, <1>3, ReturnShape

\* The steps of a rewriting.
LEMMA RewriteBeginShape ==
    ASSUME Caution, Shape, NEW g \in Goroutines, RewriteBegin(g)
    PROVE  Shape'
<1> DEFINE b(f) == f \in stored
<1>1. pc[g] = "rewrite" /\ pc' = [pc EXCEPT ![g] = "rewriting"]
      /\ UNCHANGED <<references, registry, lock, storage, chunks, next, found, up, faults, crashes>>
  BY DEF RewriteBegin, Goto, memory
<1>2. PICK f \in left[g] :
         /\ metadata' = [metadata EXCEPT ![f] = <<>>]
         /\ call' = [call EXCEPT ![g] = [op |-> "rewrite", file |-> f, sure |-> b(f)]]
         /\ left' = [left EXCEPT ![g] = @ \ {f}]
         /\ stored' = stored \ {f}
  BY DEF RewriteBegin
<1>3. f \in Files /\ references[f] \in Seq(ChunkOf(f)) /\ Rewriting
  BY <1>1 DEF Shape, TaskOK
<1>4. b(f) \in BOOLEAN
  OBVIOUS
<1> HIDE DEF b
<1>5. MapsOK'
  BY <1>1, <1>2, <1>3, EmptySeq DEF Shape, MapsOK
<1>6. [op |-> "rewrite", file |-> f, sure |-> b(f)] \in CallType
  BY <1>3, <1>4 DEF CallType
<1>7. call'[g].op = "rewrite" /\ call'[g].file = f /\ pc'[g] = "rewriting"
      /\ left'[g] \subseteq left[g]
  BY <1>1, <1>2 DEF Shape, LocalsOK
<1>8. LocalsOK' /\ OthersStay(g)
  <2>1. call' \in [Goroutines -> CallType]
    BY <1>2, <1>6 DEF Shape, LocalsOK
  <2>2. \A h \in Goroutines : h # g => call'[h] = call[h]
    BY <1>2 DEF Shape, LocalsOK
  <2> QED
    BY <1>1, <1>2, <2>1, <2>2 DEF Shape, LocalsOK, OthersStay, Labels
<1>9. TaskOK(g)'
  BY <1>1, <1>3, <1>7 DEF Shape, TaskOK, StoreLabels, ReadLabels
<1> QED
  BY <1>1, <1>5, <1>8, <1>9, ShapeStep

LEMMA RewriteRefusedShape ==
    ASSUME Caution, Shape, NEW g \in Goroutines, RewriteRefused(g)
    PROVE  Shape'
<1>1. MapsOK'
  BY MapsQuiet DEF Shape, RewriteRefused, memory, disk
<1>2. pc[g] # "idle" /\ lock # g /\ Return(g) /\ UNCHANGED <<references, lock, up>>
  BY DEF Shape, TaskOK, RewriteRefused, memory
<1> QED
  BY <1>1, <1>2, ReturnShape

LEMMA RewriteWrittenShape ==
    ASSUME Caution, Shape, NEW g \in Goroutines, RewriteWritten(g)
    PROVE  Shape'
<1> DEFINE f == call[g].file
<1>1. pc[g] = "rewriting" /\ pc' = [pc EXCEPT ![g] = "rewrite"]
      /\ metadata' = [metadata EXCEPT ![f] = references[f]]
      /\ (stored' = stored \cup {f} \/ stored' = stored)
      /\ call' = [call EXCEPT ![g] = [op |-> "rewrite", file |-> Absent, sure |-> FALSE]]
      /\ UNCHANGED <<references, registry, lock, storage, chunks, next, found, left, up, faults,
                     crashes>>
  BY DEF RewriteWritten, Goto, memory
<1>2. f \in Files /\ references[f] \in Seq(ChunkOf(f))
  BY <1>1, EncodedType
<1> HIDE DEF f
<1>3. MapsOK'
  BY <1>1, <1>2 DEF Shape, MapsOK
<1>4. call'[g].op = "rewrite" /\ pc'[g] = "rewrite"
  BY <1>1 DEF Shape, LocalsOK
<1>5. LocalsOK' /\ OthersStay(g)
  <2>1. [op |-> "rewrite", file |-> Absent, sure |-> FALSE] \in CallType
    BY DEF CallType
  <2>2. call' \in [Goroutines -> CallType] /\ \A h \in Goroutines : h # g => call'[h] = call[h]
    BY <1>1, <2>1 DEF Shape, LocalsOK
  <2> QED
    BY <1>1, <2>2 DEF Shape, LocalsOK, OthersStay, Labels
<1>6. TaskOK(g)'
  BY <1>1, <1>4 DEF Shape, TaskOK, StoreLabels, ReadLabels
<1> QED
  BY <1>1, <1>3, <1>5, <1>6, ShapeStep

LEMMA RewriteFailsShape ==
    ASSUME Caution, Shape, NEW g \in Goroutines, RewriteFails(g)
    PROVE  Shape'
<1> DEFINE f == call[g].file
<1>1. pc[g] = "rewriting" /\ Return(g) /\ Fault
      /\ UNCHANGED <<references, registry, lock, storage, up, crashes, stored>>
  BY DEF RewriteFails, memory
<1>2. PICK m \in Fragments(references[f]) : metadata' = [metadata EXCEPT ![f] = m]
  BY DEF RewriteFails
<1>3. f \in Files /\ (m = Broken \/ m \in Seq(ChunkOf(f))) /\ lock # g
  BY <1>1, EncodedType DEF Shape, TaskOK
<1> HIDE DEF f
<1>4. MapsOK'
  <2>1. faults' \in Nat
    BY <1>1 DEF Fault, Shape, MapsOK
  <2> QED
    BY <1>1, <1>2, <1>3, <2>1 DEF Shape, MapsOK
<1> QED
  BY <1>1, <1>3, <1>4, ReturnShape

LEMMA RewriteDoneShape ==
    ASSUME Caution, Shape, NEW g \in Goroutines, RewriteDone(g)
    PROVE  Shape'
<1>1. MapsOK'
  BY MapsQuiet DEF Shape, RewriteDone, memory, disk, world
<1>2. pc[g] # "idle" /\ lock # g /\ Return(g) /\ UNCHANGED <<references, lock, up>>
  BY DEF Shape, TaskOK, RewriteDone, memory, world
<1> QED
  BY <1>1, <1>2, ReturnShape

\* The process dies and is started again.
LEMMA CrashShape ==
    ASSUME Shape, Crash
    PROVE  Shape'
<1>1. up' = FALSE /\ crashes' = crashes - 1 /\ crashes > 0
      /\ references' = [f \in Files |-> Absent] /\ registry' = [k \in Keys |-> Absent]
      /\ UNCHANGED <<faults, stored>>
  BY DEF Crash
<1>2. \/ UNCHANGED <<storage, metadata>>
      \/ \E g \in Goroutines :
            /\ pc[g] = "writing" /\ UNCHANGED metadata
            /\ \E data \in {Cut, Current(g).data} :
                  storage' = [storage EXCEPT ![Current(g).key] = data]
      \/ \E g \in Goroutines :
            /\ pc[g] \in {"encoding", "rewriting"} /\ UNCHANGED storage
            /\ \E m \in Fragments(references[call[g].file]) \cup {references[call[g].file]} :
                  metadata' = [metadata EXCEPT ![call[g].file] = m]
  BY DEF Crash, disk
<1>3. MapsOK'
  <2>1. crashes' \in Nat /\ up' \in BOOLEAN
    <3>1. crashes' \in Nat
      BY <1>1 DEF Shape, MapsOK
    <3>2. up' \in BOOLEAN
      BY <1>1
    <3> QED
      BY <3>1, <3>2
  <2>2. CASE UNCHANGED <<storage, metadata>>
    BY <1>1, <2>1, <2>2 DEF Shape, MapsOK
  <2>3. ASSUME NEW g \in Goroutines, pc[g] = "writing", UNCHANGED metadata,
               NEW data \in {Cut, Current(g).data},
               storage' = [storage EXCEPT ![Current(g).key] = data]
        PROVE  MapsOK'
    <3>1. data \in Data \cup {Absent, Cut}
      BY <2>3, CurrentType
    <3> QED
      BY <1>1, <2>1, <2>3, <3>1 DEF Shape, MapsOK
  <2>4. ASSUME NEW g \in Goroutines, pc[g] \in {"encoding", "rewriting"}, UNCHANGED storage,
               NEW m \in Fragments(references[call[g].file]) \cup {references[call[g].file]},
               metadata' = [metadata EXCEPT ![call[g].file] = m]
        PROVE  MapsOK'
    <3>1. m = Broken \/ m \in Seq(ChunkOf(call[g].file))
      BY <2>4, EncodedType
    <3> QED
      BY <1>1, <2>1, <2>4, <3>1 DEF Shape, MapsOK
  <2> QED
    BY <1>2, <2>2, <2>3, <2>4
<1>4. LocalsOK'
  BY DEF Crash, LocalsOK, Labels, CallType, Idle
<1>5. ASSUME NEW g \in Goroutines PROVE TaskOK(g)'
  BY CallsAssumption, EmptySeq DEF Crash, TaskOK, StoreLabels, ReadLabels
<1> QED
  BY <1>3, <1>4, <1>5 DEF Shape

\* The registry made of metadata has each chunk under its key.
LEMMA RestoredType ==
    ASSUME Shape, NEW known \in SUBSET Decoded, NEW k \in Keys
    PROVE  \/ Restored(known)[k] = Absent
           \/ Restored(known)[k] \in ChunkType /\ Restored(known)[k].key = k
<1> SUFFICES ASSUME ~\A f \in known : k \notin KeysOf(metadata[f])
             PROVE  Restored(known)[k] \in ChunkType /\ Restored(known)[k].key = k
  BY DEF Restored
<1> DEFINE f   == CHOOSE h \in known : k \in KeysOf(metadata[h])
           ref == metadata[f]
           T   == {i \in 1 .. Len(ref) : ref[i].key = k}
<1>1. f \in known /\ k \in KeysOf(ref)
  OBVIOUS
<1>2. Restored(known)[k] = ref[Max(T)]
  BY DEF Restored
<1> HIDE DEF f
<1>3. ref \in Seq(ChunkOf(f))
  BY <1>1 DEF Decoded, Shape, MapsOK
<1> HIDE DEF ref
<1>4. Len(ref) \in Nat /\ T \in SUBSET (1 .. Len(ref)) /\ T # {}
  BY <1>1, <1>3, LenProperties DEF KeysOf
<1>5. Max(T) \in T
  BY <1>4, LastPosition
<1>6. Max(T) \in 1 .. Len(ref) /\ ref[Max(T)].key = k
  BY <1>5
<1>7. ref[Max(T)] \in ChunkOf(f)
  BY <1>3, <1>6, ElementOfSeq
<1> QED
  BY <1>2, <1>6, <1>7 DEF ChunkOf

LEMMA BootstrapShape ==
    ASSUME Shape, Bootstrap
    PROVE  Shape'
<1>1. ~up /\ up' = TRUE /\ UNCHANGED <<lock, pc, call, chunks, next, found, left, crashes, stored>>
  BY DEF Bootstrap, local
<1>2. PICK kept \in SUBSET Orphans, stuck \in SUBSET Keys, stay \in SUBSET Orphans :
        LET moved == Orphans \ kept
            gone  == UNION {KeysOf(metadata[f]) : f \in moved}
            known == Decoded \ moved
        IN  /\ stuck \subseteq {k \in gone : storage[k] # Absent} /\ stay \subseteq moved
            /\ \/ kept \cup stay \cup stuck = {} /\ UNCHANGED faults
               \/ /\ \/ Cardinality(kept) + Cardinality(stay) + Cardinality(stuck) = 1
                     \/ kept = Orphans /\ kept # {}
                  /\ Fault
            /\ references' = [f \in Files |-> IF f \in known THEN metadata[f] ELSE Absent]
            /\ registry' = Restored(known)
            /\ storage' = [k \in Keys |-> IF k \in gone \ stuck THEN Absent ELSE storage[k]]
            /\ metadata' = [f \in Files |-> IF f \in moved \ stay THEN Absent ELSE metadata[f]]
  BY DEF Bootstrap
<1> DEFINE known == Decoded \ (Orphans \ kept)
<1>3. known \in SUBSET Decoded /\ registry' = Restored(known)
      /\ references' = [f \in Files |-> IF f \in known THEN metadata[f] ELSE Absent]
  BY <1>2
<1>4. \A f \in known : f \in Files /\ metadata[f] \in Seq(ChunkOf(f))
  BY DEF Decoded, Shape, MapsOK
<1> HIDE DEF known
<1>5. DOMAIN registry' = Keys
      /\ \A k \in Keys : registry'[k] = Absent \/ (registry'[k] \in ChunkType /\ registry'[k].key = k)
  <2>1. DOMAIN registry' = Keys
    BY <1>3 DEF Restored
  <2> QED
    BY <1>3, <2>1, RestoredType
<1>6. DOMAIN references' = Files
      /\ \A f \in Files : references'[f] = Absent \/ references'[f] \in Seq(ChunkOf(f))
  BY <1>3, <1>4
<1>7. storage' \in [Keys -> Data \cup {Absent, Cut}]
  <2>1. PICK G : storage' = [k \in Keys |-> IF k \in G THEN Absent ELSE storage[k]]
    BY <1>2
  <2> QED
    BY <2>1 DEF Shape, MapsOK
<1>8. DOMAIN metadata' = Files
      /\ \A f \in Files : metadata'[f] \in {Absent, Broken} \/ metadata'[f] \in Seq(ChunkOf(f))
  <2>1. PICK M : metadata' = [f \in Files |-> IF f \in M THEN Absent ELSE metadata[f]]
    BY <1>2
  <2> QED
    BY <2>1 DEF Shape, MapsOK
<1>9. faults' \in Nat /\ crashes' \in Nat /\ up' \in BOOLEAN /\ stored' \subseteq Files
  BY <1>1, <1>2 DEF Shape, MapsOK, Fault
<1>10. MapsOK'
  BY <1>5, <1>6, <1>7, <1>8, <1>9 DEF MapsOK
<1>11. LocalsOK'
  BY <1>1 DEF Shape, LocalsOK
<1>12. ASSUME NEW g \in Goroutines PROVE TaskOK(g)'
  BY <1>1 DEF Shape, TaskOK, StoreLabels, ReadLabels
<1> QED
  BY <1>10, <1>11, <1>12 DEF Shape

LEMMA StepShape == Caution /\ Shape /\ [Next]_vars => Shape'
<1> SUFFICES ASSUME Caution, Shape, [Next]_vars PROVE Shape'
  OBVIOUS
<1>1. CASE UNCHANGED vars
  BY <1>1, UnchangedShape
<1>2. CASE Crash
  BY <1>2, CrashShape
<1>3. CASE Bootstrap
  BY <1>3, BootstrapShape
<1>4. ASSUME NEW g \in Goroutines, Call(g) PROVE Shape'
  <2>1. ASSUME NEW u \in Uploads, Store(g, u[1], u[2]) PROVE Shape'
    <3>1. u = <<u[1], u[2]>>
      BY CallsAssumption
    <3> QED
      BY <2>1, <3>1, StoreShape
  <2> QED
    BY <1>4, <2>1, ReadShape, StoreKeyShape, SweepBeginShape, RewriteShape DEF Call
<1>5. ASSUME NEW g \in Goroutines, Step(g) PROVE Shape'
  BY <1>5, SourceFailsShape, StartsUndoShape, ChunkBeginShape, ChunkWrittenShape, ChunkFailsShape,
     UndoChunkShape, UndoDoneShape, MetaBeginShape, MetaRefusedShape, MetaWrittenShape,
     MetaFailsShape, ReaderShape, SweepChunkShape, SweepMetadataShape, SweepEndsShape,
     RewriteBeginShape, RewriteRefusedShape, RewriteWrittenShape, RewriteFailsShape,
     RewriteDoneShape DEF Step
<1> QED
  BY <1>1, <1>2, <1>3, <1>4, <1>5 DEF Next

LEMMA ShapeTyped == Shape => TypeOK
<1> SUFFICES ASSUME Shape PROVE TypeOK
  OBVIOUS
<1>1. \A f \in Files : Seq(ChunkOf(f)) \subseteq Seq(ChunkType)
  BY SeqMonotonic DEF ChunkOf
<1>2. ASSUME NEW g \in Goroutines
      PROVE  /\ (lock = g) <=> (pc[g] \in {"writing", "encoding", "cleaning"})
             /\ chunks[g] \in Seq(ChunkType) /\ left[g] \subseteq Keys \cup Files
             /\ found[g] = Absent \/ found[g] \in ChunkType
             /\ next[g] \in Nat /\ (pc[g] = "idle") = (call[g] = Idle)
  <2>1. LocalsOK /\ TaskOK(g)
    BY DEF Shape
  <2>2. pc[g] = "idle" <=> call[g] = Idle
    BY <2>1 DEF TaskOK, Idle
  <2>3. (pc[g] = "idle") = (call[g] = Idle)
    BY <2>2
  <2> QED
    BY <2>1, <2>3 DEF LocalsOK, TaskOK
<1> QED
  BY <1>1, <1>2 DEF Shape, MapsOK, TypeOK

\* The maps, the files and the calls have the form their readers rely on: a reference
\* of a file, in memory or on disk, only ever lists chunks of that file, whether
\* LoadAndStoreFile, WriteFileToDisk or BootstrapKeyStore put it there.
THEOREM ShapeInvariant == ASSUME Caution PROVE Spec => []Shape
<1>1. Init => Shape
  BY InitShape
<1>2. Shape /\ [Next]_vars => Shape'
  BY StepShape
<1> QED
  BY <1>1, <1>2, PTL DEF Spec

\* Every variable has a value of its kind, and ks.lock is held exactly by a goroutine
\* that writes a chunk, encodes metadata or cleans up.
THEOREM TypeCorrect == ASSUME Caution PROVE Spec => []TypeOK
BY ShapeInvariant, ShapeTyped, PTL

-----------------------------------------------------------------------------
(* What is stored stays whole.                                             *)

OwnKeys(f) == (KeysFor("load", f) \cup KeysFor("write", f)) \cap Keys

LEMMA OwnKey ==
    ASSUME NEW how, NEW f, <<how, f>> \in Uploads, NEW i \in 1 .. ChunkCount[f]
    PROVE  Key(how, f, i) \in OwnKeys(f)
BY PieceType DEF OwnKeys, KeysFor

LEMMA OwnKeysApart ==
    ASSUME NEW f, NEW g, f # g, NEW k \in OwnKeys(f)
    PROVE  k \notin OwnKeys(g) /\ k # NoKey
<1>1. PICK how \in {"load", "write"}, i \in 1 .. ChunkCount[f] : k = Key(how, f, i)
  BY DEF OwnKeys, KeysFor
<1> QED
  BY <1>1, KeysApart DEF OwnKeys

\* The maps and the disk have the same in them for file f after a step as before.
Same(f) ==
    /\ metadata'[f] = metadata[f] /\ references'[f] = references[f]
    /\ \A k \in OwnKeys(f) : storage'[k] = storage[k] /\ registry'[k] = registry[k]

LEMMA SafeStays ==
    ASSUME NEW f, Safe(f), Same(f), up' = up
    PROVE  Safe(f)'
<1>1. PICK how \in {"load", "write"} :
        /\ <<how, f>> \in Uploads
        /\ metadata[f] = Complete(how, f) /\ OnDisk(how, f)
        /\ up => references[f] = Complete(how, f) /\ InMemory(how, f)
  BY DEF Safe
<1>2. \A i \in 1 .. ChunkCount[f] : Key(how, f, i) \in OwnKeys(f)
  BY <1>1, OwnKey
<1>3. OnDisk(how, f)'
  BY <1>1, <1>2 DEF OnDisk, Same
<1>4. InMemory(how, f) => InMemory(how, f)'
  BY <1>2 DEF InMemory, Same
<1> QED
  BY <1>1, <1>3, <1>4 DEF Safe, Same

LEMMA SoundStays ==
    ASSUME NEW g, Sound(g), Same(call[g].file), call'[g].file = call[g].file
    PROVE  Sound(g)'
<1> DEFINE f == call[g].file
<1>1. PICK how \in {"load", "write"} :
        /\ <<how, f>> \in Uploads
        /\ references[f] = Complete(how, f) /\ OnDisk(how, f) /\ InMemory(how, f)
  BY DEF Sound
<1>2. \A i \in 1 .. ChunkCount[f] : Key(how, f, i) \in OwnKeys(f)
  BY <1>1, OwnKey
<1>3. OnDisk(how, f)' /\ InMemory(how, f)'
  BY <1>1, <1>2 DEF OnDisk, InMemory, Same
<1>4. references'[f] = Complete(how, f) /\ call'[g].file = f
  BY <1>1 DEF Same
<1> QED
  BY <1>1, <1>3, <1>4 DEF Sound

\* What a goroutine has stored so far is there after a step that at most clears the
\* registry.
LEMMA PartialStays ==
    ASSUME Shape, NEW g \in Goroutines, Storing(g), Partial(g), call[g].file \notin stored',
           pc'[g] = pc[g], chunks'[g] = chunks[g], next'[g] = next[g],
           call'[g].op = call[g].op, call'[g].file = call[g].file,
           \A k \in OwnKeys(call[g].file) :
              storage'[k] = storage[k] /\ (registry'[k] = registry[k] \/ registry'[k] = Absent)
    PROVE  Partial(g)'
<1> DEFINE f == call[g].file
           how == call[g].op
<1>1. <<how, f>> \in Uploads /\ chunks[g] \in Seq(ChunkType)
  BY DEF Shape, TaskOK, Storing, StoreLabels
<1>2. Len(chunks[g]) \in Nat /\ ChunkCount[f] \in Nat /\ Len(chunks[g]) <= ChunkCount[f]
  BY <1>1, LenProperties, CountAssumption, CallsAssumption DEF Partial
<1>3. \A i \in 1 .. Len(chunks[g]) : Key(how, f, i) \in OwnKeys(f)
  <2>1. \A i \in 1 .. Len(chunks[g]) : i \in 1 .. ChunkCount[f]
    BY <1>2
  <2> QED
    BY <1>1, <2>1, OwnKey
<1>4. call'[g].file = f /\ call'[g].op = how
  OBVIOUS
<1> HIDE DEF f, how
<1>5. \A i \in 1 .. Len(chunks[g]) :
         registry'[Key(how, f, i)] = registry[Key(how, f, i)] \/ registry'[Key(how, f, i)] = Absent
  BY <1>3 DEF f
<1>6. \A i \in 1 .. Len(chunks[g]) : storage'[Key(how, f, i)] = storage[Key(how, f, i)]
  BY <1>3 DEF f
<1> QED
  BY <1>4, <1>5, <1>6 DEF Partial, f, how

\* What a step of g has to see to for the files and the other goroutines to be as safe
\* as before.  It may touch the files in F0.
LEMMA SolidStep ==
    ASSUME Caution, Shape, Shape', Solid, NEW g \in Goroutines, OthersStay(g), up' = up,
           NEW F0,
           \A f \in Files \ F0 : \A k \in OwnKeys(f) :
              storage'[k] = storage[k] /\ (registry'[k] = registry[k] \/ registry'[k] = Absent),
           (lock = g /\ stored' = {}) \/ (\A f \in Files \ F0 : Same(f)),
           \A f \in F0 : f \in stored' => Safe(f)',
           stored' \subseteq stored \cup F0, stored' \subseteq stored \/ lock = g \/ Rewriting,
           \A h \in Goroutines : h # g /\ Storing(h) => call[h].file \notin F0,
           Storing(g)' => Partial(g)',
           \A h \in Goroutines : h # g /\ Storing(h) /\ Storing(g)' => call[h].file # call'[g].file,
           pc'[g] = "encoding" => Sound(g)',
           pc'[g] = "rewriting" => call'[g].file \notin stored' /\ (call'[g].sure => Sound(g)'),
           pc'[g] = "cleaning" => stored' = {} /\ (call'[g].op = ".toml" => left'[g] = {})
    PROVE  Solid'
<1>1. ASSUME NEW h \in Goroutines, h # g
      PROVE  /\ Storing(h)' <=> Storing(h)
             /\ pc'[h] = pc[h] /\ call'[h].file = call[h].file
  BY <1>1 DEF OthersStay, Storing
<1>2. Exclusive'
  BY <1>1 DEF Solid, Exclusive
<1>3. ASSUME NEW f \in stored' PROVE Safe(f)'
  <2>1. CASE f \in F0
    BY <1>3, <2>1
  <2>2. CASE f \notin F0
    <3>1. f \in stored /\ f \in Files /\ Safe(f) /\ stored' # {}
      BY <1>3, <2>2 DEF Shape, MapsOK, Solid
    <3>2. Same(f)
      BY <2>2, <3>1
    <3> QED
      BY <3>1, <3>2, SafeStays
  <2> QED
    BY <2>1, <2>2
<1>4. ASSUME NEW h \in Goroutines, h # g, Storing(h)
      PROVE  call[h].file \in Files \ F0 /\ call[h].file \notin stored'
  <2>1. call[h].file \in Files /\ call[h].file \notin stored
    <3>1. <<call[h].op, call[h].file>> \in Uploads
      BY <1>4 DEF Shape, TaskOK, Storing, StoreLabels
    <3>2. call[h].file \notin stored
      BY <1>4 DEF Solid, Partial
    <3> QED
      BY <3>1, <3>2, CallsAssumption
  <2> QED
    BY <1>4, <2>1
<1>5. ASSUME NEW h \in Goroutines, Storing(h)' PROVE Partial(h)'
  <2>1. CASE h = g
    BY <1>5, <2>1
  <2>2. CASE h # g
    <3>1. Storing(h) /\ Partial(h) /\ call[h].file \in Files \ F0 /\ call[h].file \notin stored'
      BY <1>1, <1>4, <1>5, <2>2 DEF Solid
    <3>2. \A k \in OwnKeys(call[h].file) :
             storage'[k] = storage[k] /\ (registry'[k] = registry[k] \/ registry'[k] = Absent)
      BY <3>1
    <3>3. pc'[h] = pc[h] /\ chunks'[h] = chunks[h] /\ next'[h] = next[h]
          /\ call'[h].op = call[h].op /\ call'[h].file = call[h].file
      BY <2>2 DEF OthersStay
    <3> QED
      BY <3>1, <3>2, <3>3, PartialStays
  <2> QED
    BY <2>1, <2>2
<1>6. ASSUME NEW h \in Goroutines, pc'[h] = "encoding" PROVE Sound(h)'
  <2>1. CASE h = g
    BY <1>6, <2>1
  <2>2. CASE h # g
    <3>1. pc[h] = "encoding" /\ Storing(h) /\ lock = h
      BY <1>1, <1>6, <2>2 DEF Storing, Shape, TaskOK
    <3>2. Sound(h) /\ Same(call[h].file)
      BY <1>4, <2>2, <3>1 DEF Solid
    <3> QED
      BY <1>1, <2>2, <3>2, SoundStays
  <2> QED
    BY <2>1, <2>2
<1>7. ASSUME NEW h \in Goroutines, pc'[h] = "rewriting"
      PROVE  call'[h].file \notin stored' /\ (call'[h].sure => Sound(h)')
  <2>1. h = g
    BY <1>1, <1>7, RewritesAlone
  <2> QED
    BY <1>7, <2>1
<1>8. ASSUME NEW h \in Goroutines, pc'[h] = "cleaning"
      PROVE  stored' = {} /\ (call'[h].op = ".toml" => left'[h] = {})
  <2>1. CASE h = g
    BY <1>8, <2>1
  <2>2. CASE h # g
    <3>1. pc[h] = "cleaning" /\ lock = h /\ stored = {} /\ ~Rewriting
          /\ (call[h].op = ".toml" => left[h] = {})
      BY <1>1, <1>8, <2>2 DEF Shape, TaskOK, Solid, Sweeping, Caution
    <3>2. call'[h].op = call[h].op /\ left'[h] = left[h]
      BY <2>2 DEF OthersStay
    <3>3. stored' \subseteq stored
      BY <2>2, <3>1
    <3> QED
      BY <3>1, <3>2, <3>3
  <2> QED
    BY <2>1, <2>2
<1> QED
  BY <1>2, <1>3, <1>5, <1>6, <1>7, <1>8 DEF Solid, Sweeping

\* A step that keeps the files of everybody and does not go on with a store, a cleanup
\* or a rewriting.
LEMMA QuietSolid ==
    ASSUME Caution, Shape, Shape', Solid, NEW g \in Goroutines, OthersStay(g), up' = up,
           \A f \in Files : Same(f), stored' = stored,
           pc'[g] \in {"idle", "recall", "lookup", "load", "rewrite"}
    PROVE  Solid'
<1> DEFINE F0 == {}
<1>1. \A f \in Files \ F0 : Same(f) /\ \A k \in OwnKeys(f) :
         storage'[k] = storage[k] /\ (registry'[k] = registry[k] \/ registry'[k] = Absent)
  BY DEF Same
<1>2. ~Storing(g)'
  BY DEF Storing
<1>3. stored' \subseteq stored \cup F0 /\ stored' \subseteq stored
  OBVIOUS
<1> HIDE DEF F0
<1>4. F0 = {}
  BY DEF F0
<1> QED
  BY <1>1, <1>2, <1>3, <1>4, SolidStep

LEMMA SameAll == UNCHANGED <<memory, disk>> => \A f \in Files : Same(f)
BY DEF Same, memory, disk

LEMMA InitSolid == Init => Solid
BY DEF Init, Solid, Exclusive, Sweeping, Storing

LEMMA UnchangedSolid == Shape /\ Solid /\ UNCHANGED vars => Solid'
<1> SUFFICES ASSUME Shape, Solid, UNCHANGED vars PROVE Solid'
  OBVIOUS
<1> USE DEF vars, memory, disk, local, world
<1>1. \A g \in Goroutines : Partial(g) => Partial(g)'
  BY DEF Partial
<1>2. \A g \in Goroutines : Sound(g) => Sound(g)'
  BY DEF Sound, OnDisk, InMemory
<1>3. \A f \in stored : Safe(f) => Safe(f)'
  BY DEF Safe, OnDisk, InMemory
<1>4. \A g \in Goroutines : Storing(g)' = Storing(g)
  BY DEF Storing
<1> QED
  BY <1>1, <1>2, <1>3, <1>4 DEF Solid, Exclusive, Sweeping

LEMMA ReturnSolid ==
    ASSUME Caution, Shape, Shape', Solid, NEW g \in Goroutines, Return(g),
           lock' = (IF lock = g THEN NoOne ELSE lock),
           UNCHANGED <<memory, disk, up, stored>>
    PROVE  Solid'
BY ReturnStep, SameAll, QuietSolid

LEMMA ReturnsSolid ==
    ASSUME Caution, Shape, Shape', Solid, NEW g \in Goroutines,
           SourceFails(g) \/ UndoDone(g) \/ ReadEnd(g) \/ SweepFails(g) \/ RewriteRefused(g)
           \/ RewriteDone(g)
    PROVE  Solid'
<1>1. Return(g) /\ UNCHANGED <<memory, disk, up, stored>>
  BY DEF SourceFails, UndoDone, ReadEnd, SweepFails, RewriteRefused, RewriteDone, world
<1>2. lock' = IF lock = g THEN NoOne ELSE lock
  BY DEF SourceFails, UndoDone, ReadEnd, SweepFails, RewriteRefused, RewriteDone, Shape, TaskOK
<1> QED
  BY <1>1, <1>2, ReturnSolid

LEMMA ReaderSolid ==
    ASSUME Caution, Shape, Shape', Solid, NEW g \in Goroutines, Recall(g) \/ Lookup(g) \/ Load(g)
    PROVE  Solid'
<1>1. UNCHANGED <<memory, lock, disk, world>> /\ pc[g] \in {"recall", "lookup", "load"}
  BY DEF Recall, Lookup, Load
<1>2. lock # g /\ LocalsOK /\ LocalsOK'
  BY <1>1 DEF Shape, TaskOK
<1>3. CASE Return(g)
  BY <1>1, <1>2, <1>3, ReturnSolid DEF world
<1>4. CASE ~Return(g)
  <2>1. OthersStay(g) /\ pc'[g] \in {"lookup", "load"}
    BY <1>1, <1>2, <1>4 DEF Recall, Lookup, Load, Goto, OthersStay, LocalsOK
  <2> QED
    BY <1>1, <2>1, SameAll, QuietSolid DEF world
<1> QED
  BY <1>3, <1>4

LEMMA ReadSolid ==
    ASSUME Caution, Shape, Shape', Solid, NEW g \in Goroutines, NEW f \in Files, Read(g, f)
    PROVE  Solid'
<1>1. /\ Begin(g, "read", f, "recall") /\ chunks' = chunks /\ lock' = lock
      /\ left' = left /\ left' \in [Goroutines -> SUBSET (Keys \cup Files)]
      /\ "recall" \in Labels /\ f \in Files \cup {Absent}
  BY DEF Shape, LocalsOK, Read, Labels, ReadLabels
<1>2. OthersStay(g) /\ pc'[g] = "recall"
  BY <1>1, BeginStep
<1>3. UNCHANGED <<memory, disk, up, stored>>
  BY DEF Read, world
<1> QED
  BY <1>2, <1>3, SameAll, QuietSolid

LEMMA RewriteSolid ==
    ASSUME Caution, Shape, Shape', Solid, NEW g \in Goroutines, Rewrite(g)
    PROVE  Solid'
<1>1. /\ Begin(g, "rewrite", Absent, "rewrite") /\ chunks' = chunks /\ lock' = lock
      /\ left' \in [Goroutines -> SUBSET (Keys \cup Files)]
      /\ \A h \in Goroutines : h # g => left'[h] = left[h]
      /\ "rewrite" \in Labels /\ Absent \in Files \cup {Absent}
  BY DEF Shape, LocalsOK, Rewrite, Labels
<1>2. OthersStay(g) /\ pc'[g] = "rewrite"
  BY <1>1, BeginStep
<1>3. UNCHANGED <<memory, disk, up, stored>>
  BY DEF Rewrite, world
<1> QED
  BY <1>2, <1>3, SameAll, QuietSolid

LEMMA StoreKeySolid ==
    ASSUME Caution, Shape, Shape', Solid, NEW g \in Goroutines, NEW k \in NetKeys, StoreKey(g, k)
    PROVE  Solid'
<1> DEFINE c == Chunk(k, Absent, FALSE)
<1> HIDE DEF c
<1>1. registry' = [registry EXCEPT ![k] = c] /\ pc[g] = "idle"
      /\ UNCHANGED <<references, lock, disk, pc, call, chunks, next, found, left, up, stored>>
  BY DEF StoreKey, c, local, world
<1>2. ASSUME NEW f \in Files PROVE Same(f)
  <2>1. k \notin OwnKeys(f)
    BY TokensAssumption DEF OwnKeys
  <2>2. \A j \in OwnKeys(f) : registry'[j] = registry[j]
    BY <1>1, <2>1 DEF Shape, MapsOK, OwnKeys
  <2> QED
    BY <1>1, <2>2 DEF Same, disk
<1>3. OthersStay(g)
  BY <1>1 DEF OthersStay
<1> QED
  BY <1>1, <1>2, <1>3, QuietSolid

LEMMA StoreSolid ==
    ASSUME Caution, Shape, Shape', Solid, NEW g \in Goroutines, NEW how, NEW f,
           <<how, f>> \in Uploads, Store(g, how, f)
    PROVE  Solid'
<1>1. how \in {"load", "write"} /\ f \in Files /\ ChunkCount[f] \in Nat \ {0}
  BY CallsAssumption, CountAssumption
<1>2. /\ Begin(g, how, f, "chunk") /\ chunks' = chunks /\ lock' = lock
      /\ left' = left /\ left' \in [Goroutines -> SUBSET (Keys \cup Files)]
      /\ "chunk" \in Labels /\ f \in Files \cup {Absent}
  BY <1>1 DEF Shape, LocalsOK, Store, Labels, StoreLabels
<1>3. OthersStay(g) /\ pc'[g] = "chunk" /\ call'[g].op = how /\ call'[g].file = f
      /\ chunks'[g] = <<>> /\ next'[g] = 1
  BY <1>1, <1>2, BeginStep
<1>4. UNCHANGED <<memory, disk, up, stored>>
  BY DEF Store, world
<1>5. f \notin stored /\ \A h \in Goroutines : Storing(h) => call[h].file # f
  BY DEF Store, Caution
<1>6. Partial(g)'
  <2>1. Len(<<>>) = 0
    OBVIOUS
  <2> QED
    BY <1>1, <1>3, <1>4, <1>5, <2>1 DEF Partial
<1>7. \A x \in Files : Same(x)
  BY <1>4, SameAll
<1>8. \A x \in Files : \A k \in OwnKeys(x) :
         storage'[k] = storage[k] /\ (registry'[k] = registry[k] \/ registry'[k] = Absent)
  BY <1>7 DEF Same
<1> DEFINE F0 == {}
<1>9. Files \ F0 = Files /\ stored' \subseteq stored \cup F0 /\ stored' \subseteq stored
      /\ \A x : x \notin F0
  BY <1>4
<1> HIDE DEF F0
<1> QED
  BY <1>3, <1>4, <1>5, <1>6, <1>7, <1>8, <1>9, SolidStep

\* A store that is given up.
LEMMA UndoSolid ==
    ASSUME Caution, Shape, Shape', Solid, NEW g \in Goroutines, StartUndo(g), Storing(g),
           lock' = (IF lock = g THEN NoOne ELSE lock), up' = up, stored' = stored,
           \A f \in Files : f # call[g].file => Same(f)
    PROVE  Solid'
<1> DEFINE F0 == {call[g].file}
<1>1. OthersStay(g) /\ pc'[g] = "undo" /\ UNCHANGED <<call, chunks>>
  BY UndoStep
<1>2. Partial(g) /\ call[g].file \notin stored
  BY DEF Solid, Partial
<1>3. Partial(g)'
  BY <1>1, <1>2 DEF Partial
<1>4. \A x \in Files \ F0 : Same(x) /\ \A k \in OwnKeys(x) :
         storage'[k] = storage[k] /\ (registry'[k] = registry[k] \/ registry'[k] = Absent)
  BY DEF Same
<1>5. \A h \in Goroutines : h # g /\ Storing(h) => call[h].file \notin F0
  BY DEF Solid, Exclusive
<1>6. \A h \in Goroutines : h # g /\ Storing(h) => call[h].file # call'[g].file
  BY <1>1, <1>5
<1>7. stored' \subseteq stored \cup F0 /\ stored' \subseteq stored /\ \A f \in F0 : f \notin stored'
  BY <1>2
<1> HIDE DEF F0
<1> QED
  BY <1>1, <1>3, <1>4, <1>5, <1>6, <1>7, SolidStep

LEMMA StartsUndoSolid ==
    ASSUME Caution, Shape, Shape', Solid, NEW g \in Goroutines,
           SourceChanged(g) \/ ChunkRefused(g) \/ MetaMissing(g)
    PROVE  Solid'
<1>1. StartUndo(g) /\ pc[g] \in {"chunk", "meta"} /\ UNCHANGED <<memory, disk, lock, up, stored>>
  BY DEF SourceChanged, ChunkRefused, MetaMissing, world
<1>2. Storing(g) /\ lock # g
  BY <1>1 DEF Storing, Shape, TaskOK
<1> QED
  BY <1>1, <1>2, SameAll, UndoSolid

\* A step of a store that goes on.
LEMMA OwnStep ==
    ASSUME Caution, Shape, Shape', Solid, NEW g \in Goroutines, Storing(g), OthersStay(g),
           up' = up, stored' = stored, call'[g].file = call[g].file,
           \A f \in Files : f # call[g].file => Same(f),
           Partial(g)', pc'[g] = "encoding" => Sound(g)', pc'[g] \in StoreLabels
    PROVE  Solid'
<1> DEFINE F0 == {call[g].file}
<1>1. call[g].file \notin stored
  BY DEF Solid, Partial
<1>2. \A x \in Files \ F0 : Same(x) /\ \A k \in OwnKeys(x) :
         storage'[k] = storage[k] /\ (registry'[k] = registry[k] \/ registry'[k] = Absent)
  BY DEF Same
<1>3. \A h \in Goroutines : h # g /\ Storing(h) => call[h].file \notin F0
  BY DEF Solid, Exclusive
<1>4. \A h \in Goroutines : h # g /\ Storing(h) => call[h].file # call'[g].file
  BY <1>3
<1>5. stored' \subseteq stored \cup F0 /\ stored' \subseteq stored /\ \A f \in F0 : f \notin stored'
  BY <1>1
<1>6. pc'[g] # "rewriting" /\ pc'[g] # "cleaning"
  BY DEF StoreLabels
<1> HIDE DEF F0
<1> QED
  BY <1>2, <1>3, <1>4, <1>5, <1>6, SolidStep

\* A change under a key of one file is none for the other files.
LEMMA OthersSame ==
    ASSUME Shape, NEW f0, NEW k \in OwnKeys(f0), UNCHANGED <<references, metadata>>,
           storage' = storage \/ \E v : storage' = [storage EXCEPT ![k] = v],
           registry' = registry \/ \E v : registry' = [registry EXCEPT ![k] = v]
    PROVE  \A f \in Files : f # f0 => Same(f)
<1> SUFFICES ASSUME NEW f \in Files, f # f0 PROVE Same(f)
  OBVIOUS
<1>1. \A j \in OwnKeys(f) : j # k /\ j \in Keys
  BY OwnKeysApart DEF OwnKeys
<1>2. \A j \in OwnKeys(f) : storage'[j] = storage[j]
  BY <1>1 DEF Shape, MapsOK
<1>3. \A j \in OwnKeys(f) : registry'[j] = registry[j]
  BY <1>1 DEF Shape, MapsOK
<1> QED
  BY <1>2, <1>3 DEF Same

\* What goroutine g has stored so far, in words the steps below can use.
LEMMA PartialFacts ==
    ASSUME Caution, Shape, Solid, NEW g \in Goroutines, Storing(g)
    PROVE  /\ <<call[g].op, call[g].file>> \in Uploads /\ call[g].file \in Files
           /\ ChunkCount[call[g].file] \in Nat /\ chunks[g] \in Seq(ChunkType)
           /\ Len(chunks[g]) \in Nat /\ Len(chunks[g]) <= ChunkCount[call[g].file]
           /\ next[g] \in Nat /\ Partial(g)
           /\ \A i \in 1 .. Len(chunks[g]) :
                 /\ chunks[g][i] = Piece(call[g].op, call[g].file, i)
                 /\ chunks[g][i].key = Key(call[g].op, call[g].file, i)
                 /\ Key(call[g].op, call[g].file, i) \in OwnKeys(call[g].file)
<1> DEFINE f == call[g].file
           how == call[g].op
<1>1. <<how, f>> \in Uploads /\ chunks[g] \in Seq(ChunkType)
  BY DEF Shape, TaskOK, Storing, StoreLabels
<1>2. f \in Files /\ ChunkCount[f] \in Nat /\ Len(chunks[g]) \in Nat
  BY <1>1, CallsAssumption, CountAssumption, LenProperties
<1>3. Partial(g)
  BY DEF Solid
<1>4. Len(chunks[g]) <= ChunkCount[f]
      /\ \A i \in 1 .. Len(chunks[g]) : chunks[g][i] = Piece(how, f, i)
  BY <1>3 DEF Partial
<1>5. ASSUME NEW i \in 1 .. Len(chunks[g])
      PROVE  Piece(how, f, i).key = Key(how, f, i) /\ Key(how, f, i) \in OwnKeys(f)
  <2>1. i \in 1 .. ChunkCount[f]
    BY <1>2, <1>4
  <2> QED
    BY <1>1, <2>1, PieceType, OwnKey
<1>6. next[g] \in Nat
  BY DEF Shape, LocalsOK
<1> QED
  BY <1>1, <1>2, <1>3, <1>4, <1>5, <1>6

LEMMA CurrentOwn ==
    ASSUME Caution, Shape, Solid, NEW g \in Goroutines, pc[g] \in {"chunk", "writing"}
    PROVE  /\ next[g] = Len(chunks[g]) + 1 /\ next[g] \in 1 .. ChunkCount[call[g].file]
           /\ Current(g).key \in OwnKeys(call[g].file)
           /\ \A i \in 1 .. Len(chunks[g]) : Key(call[g].op, call[g].file, i) # Current(g).key
<1>1. Storing(g)
  BY DEF Storing
<1>2. next[g] = Len(chunks[g]) + 1 /\ next[g] \in 1 .. ChunkCount[call[g].file]
  <2>1. next[g] = Len(chunks[g]) + 1
    <3>1. Partial(g)
      BY <1>1, PartialFacts
    <3> QED
      BY <3>1 DEF Partial
  <2>2. next[g] \in 1 .. ChunkCount[call[g].file]
    BY DEF Shape, TaskOK
  <2> QED
    BY <2>1, <2>2
<1>3. Current(g).key = Key(call[g].op, call[g].file, next[g])
  BY CurrentType
<1>4. Current(g).key \in OwnKeys(call[g].file)
  <2>1. <<call[g].op, call[g].file>> \in Uploads
    BY <1>1, PartialFacts
  <2> QED
    BY <1>2, <1>3, <2>1, OwnKey
<1>5. ASSUME NEW i \in 1 .. Len(chunks[g])
      PROVE  Key(call[g].op, call[g].file, i) # Current(g).key
  <2>1. Len(chunks[g]) \in Nat /\ call[g].file \in Files /\ Len(chunks[g]) <= ChunkCount[call[g].file]
        /\ ChunkCount[call[g].file] \in Nat
    BY <1>1, PartialFacts
  <2>2. i \in 1 .. ChunkCount[call[g].file] /\ i # next[g]
    BY <1>2, <2>1
  <2> QED
    BY <1>2, <1>3, <2>1, <2>2, KeysOwn
<1> QED
  BY <1>2, <1>4, <1>5

LEMMA ChunkBeginSolid ==
    ASSUME Caution, Shape, Shape', Solid, NEW g \in Goroutines, ChunkBegin(g)
    PROVE  Solid'
<1>1. pc[g] = "chunk" /\ lock = NoOne /\ lock' = g /\ pc' = [pc EXCEPT ![g] = "writing"]
      /\ UNCHANGED <<references, registry, metadata, call, chunks, next, found, left, up, stored>>
      /\ storage' = [storage EXCEPT ![Current(g).key] = Cut]
  BY DEF ChunkBegin, Goto, memory, local, world
<1>2. Storing(g) /\ OthersStay(g) /\ pc'[g] = "writing"
  BY <1>1, CallsAssumption DEF Storing, Shape, LocalsOK, OthersStay
<1>3. \A f \in Files : f # call[g].file => Same(f)
  BY <1>1, CurrentOwn, OthersSame
<1>4. Partial(g)'
  <2>1. \A i \in 1 .. Len(chunks[g]) : storage'[Key(call[g].op, call[g].file, i)]
                                         = storage[Key(call[g].op, call[g].file, i)]
    <3>1. \A i \in 1 .. Len(chunks[g]) : Key(call[g].op, call[g].file, i) \in Keys
      BY <1>2, PartialFacts DEF OwnKeys
    <3> QED
      BY <1>1, <3>1, CurrentOwn DEF Shape, MapsOK
  <2>2. Partial(g) /\ next[g] = Len(chunks[g]) + 1
    BY <1>1, <1>2, PartialFacts, CurrentOwn
  <2> QED
    BY <1>1, <1>2, <2>1, <2>2 DEF Partial
<1> QED
  BY <1>1, <1>2, <1>3, <1>4, OwnStep DEF StoreLabels

LEMMA ChunkFailsSolid ==
    ASSUME Caution, Shape, Shape', Solid, NEW g \in Goroutines, ChunkFails(g)
    PROVE  Solid'
<1>1. pc[g] = "writing" /\ lock' = NoOne /\ StartUndo(g)
      /\ UNCHANGED <<references, registry, metadata, up, stored>>
  BY DEF ChunkFails, memory
<1>2. \E data : storage' = [storage EXCEPT ![Current(g).key] = data]
  BY DEF ChunkFails
<1>3. \A f \in Files : f # call[g].file => Same(f)
  BY <1>1, <1>2, CurrentOwn, OthersSame
<1>4. Storing(g) /\ lock = g
  BY <1>1 DEF Storing, Shape, TaskOK
<1> QED
  BY <1>1, <1>3, <1>4, UndoSolid

LEMMA ChunkWrittenSolid ==
    ASSUME Caution, Shape, Shape', Solid, NEW g \in Goroutines, ChunkWritten(g)
    PROVE  Solid'
<1> DEFINE c == Current(g)
           f == call[g].file
           how == call[g].op
           n == Len(chunks[g])
           label == IF next[g] = ChunkCount[f] THEN "meta" ELSE "chunk"
<1>1. pc[g] = "writing" /\ lock' = NoOne /\ pc' = [pc EXCEPT ![g] = label]
      /\ UNCHANGED <<references, metadata, call, found, left, up, stored>>
      /\ storage' = [storage EXCEPT ![c.key] = c.data]
      /\ registry' = [registry EXCEPT ![c.key] = c]
      /\ chunks' = [chunks EXCEPT ![g] = Append(@, c)]
      /\ next' = [next EXCEPT ![g] = @ + 1]
  BY DEF ChunkWritten, Goto, world
<1>2. c = Piece(how, f, next[g]) /\ c \in ChunkType
      /\ c.key = Key(how, f, next[g]) /\ c.data = <<f, next[g]>>
  BY <1>1, CurrentType
<1>3. Storing(g)
  BY <1>1 DEF Storing
<1>4. /\ next[g] = n + 1 /\ next[g] \in 1 .. ChunkCount[f] /\ c.key \in OwnKeys(f)
      /\ \A i \in 1 .. n : Key(how, f, i) # c.key
  BY <1>1, CurrentOwn
<1>5. /\ n \in Nat /\ ChunkCount[f] \in Nat /\ chunks[g] \in Seq(ChunkType) /\ Partial(g)
      /\ \A i \in 1 .. n : chunks[g][i] = Piece(how, f, i) /\ Key(how, f, i) \in Keys
  BY <1>3, PartialFacts DEF OwnKeys
<1> HIDE DEF c
<1>6. \A x \in Files : x # f => Same(x)
  BY <1>1, <1>4, OthersSame
<1>7. label \in {"meta", "chunk"} /\ (label = "chunk" => next[g] # ChunkCount[f])
      /\ (label = "meta" => next[g] = ChunkCount[f])
  OBVIOUS
<1> HIDE DEF label
<1>8. lock = g /\ LocalsOK
  BY <1>1 DEF Shape, TaskOK
<1>9. OthersStay(g) /\ pc'[g] = label /\ chunks'[g] = Append(chunks[g], c)
      /\ next'[g] = next[g] + 1 /\ call' = call
  BY <1>1, <1>8, CallsAssumption DEF LocalsOK, OthersStay
<1>10. /\ Len(chunks'[g]) = n + 1
       /\ \A i \in 1 .. n : chunks'[g][i] = chunks[g][i]
       /\ chunks'[g][n + 1] = c
  BY <1>2, <1>5, <1>9, AppendProperties
<1>11. /\ \A i \in 1 .. n : registry'[Key(how, f, i)] = registry[Key(how, f, i)]
                            /\ storage'[Key(how, f, i)] = storage[Key(how, f, i)]
       /\ registry'[c.key] = c /\ storage'[c.key] = c.data
  <2>1. c.key \in Keys /\ DOMAIN registry = Keys /\ storage \in [Keys -> Data \cup {Absent, Cut}]
    BY <1>4 DEF OwnKeys, Shape, MapsOK
  <2> QED
    BY <1>1, <1>4, <1>5, <2>1
<1>12. Partial(g)'
  <2> HIDE DEF f, how, n
  <2>1. f \notin stored'
    BY <1>1, <1>5 DEF Partial, f
  <2>2. Len(chunks'[g]) <= ChunkCount[f]
    BY <1>4, <1>5, <1>10
  <2>3. \A i \in 1 .. Len(chunks'[g]) : i \in 1 .. n \/ i = n + 1
    BY <1>5, <1>10
  <2>4. \A i \in 1 .. Len(chunks'[g]) : chunks'[g][i] = Piece(how, f, i)
    BY <1>2, <1>4, <1>5, <1>10, <2>3
  <2>5. ASSUME NEW i \in 1 .. Len(chunks'[g]), registry'[Key(how, f, i)] # Absent
        PROVE  registry'[Key(how, f, i)] = Piece(how, f, i) /\ storage'[Key(how, f, i)] = <<f, i>>
    <3>1. CASE i \in 1 .. n
      <4>1. registry[Key(how, f, i)] = Piece(how, f, i) /\ storage[Key(how, f, i)] = <<f, i>>
        BY <1>1, <1>5, <1>11, <2>5, <3>1 DEF Partial, f, how, n
      <4> QED
        BY <1>11, <3>1, <4>1
    <3>2. CASE i = n + 1
      BY <1>2, <1>4, <1>11, <3>2
    <3> QED
      BY <2>3, <3>1, <3>2
  <2>6. pc'[g] = "chunk" => next'[g] = Len(chunks'[g]) + 1
    BY <1>4, <1>9, <1>10
  <2>7. pc'[g] = "meta" => Len(chunks'[g]) = ChunkCount[f]
    BY <1>4, <1>7, <1>9, <1>10
  <2>8. pc'[g] \in {"meta", "chunk"} /\ call'[g].file = f /\ call'[g].op = how
    BY <1>7, <1>9 DEF f, how
  <2> QED
    BY <2>1, <2>2, <2>4, <2>5, <2>6, <2>7, <2>8 DEF Partial
<1>13. pc'[g] \in StoreLabels /\ pc'[g] # "encoding" /\ call'[g].file = call[g].file
  BY <1>7, <1>9 DEF StoreLabels
<1> QED
  BY <1>1, <1>3, <1>6, <1>9, <1>12, <1>13, OwnStep

LEMMA UndoChunkSolid ==
    ASSUME Caution, Shape, Shape', Solid, NEW g \in Goroutines, UndoChunk(g)
    PROVE  Solid'
<1> DEFINE k == chunks[g][next[g]].key
<1>1. pc[g] = "undo" /\ next' = [next EXCEPT ![g] = @ + 1] /\ next[g] <= Len(chunks[g])
      /\ UNCHANGED <<references, lock, metadata, pc, call, chunks, found, left, up, stored>>
      /\ (storage' = storage \/ \E v : storage' = [storage EXCEPT ![k] = v])
      /\ (registry' = registry \/ \E v : registry' = [registry EXCEPT ![k] = v])
  BY DEF UndoChunk
<1>2. Storing(g)
  BY <1>1 DEF Storing
<1>3. k \in OwnKeys(call[g].file) /\ Partial(g)
  <2>1. next[g] \in Nat /\ next[g] >= 1 /\ Len(chunks[g]) \in Nat
    BY <1>1, <1>2, PartialFacts DEF Shape, TaskOK
  <2>2. next[g] \in 1 .. Len(chunks[g])
    BY <1>1, <2>1
  <2> QED
    BY <1>2, <2>2, PartialFacts
<1> HIDE DEF k
<1>4. \A f \in Files : f # call[g].file => Same(f)
  BY <1>1, <1>3, OthersSame
<1>5. OthersStay(g)
  BY <1>1 DEF Shape, LocalsOK, OthersStay
<1>6. Partial(g)'
  BY <1>1, <1>3 DEF Partial
<1> QED
  BY <1>1, <1>2, <1>4, <1>5, <1>6, OwnStep DEF StoreLabels

\* A change of what is known of one file only is none for the other files.
LEMMA OthersSameFile ==
    ASSUME Shape, NEW f0, UNCHANGED <<registry, storage>>,
           references' = references \/ \E v : references' = [references EXCEPT ![f0] = v],
           metadata' = metadata \/ \E v : metadata' = [metadata EXCEPT ![f0] = v]
    PROVE  \A f \in Files : f # f0 => Same(f)
BY DEF Same, Shape, MapsOK

\* When all chunks of a file are registered its reference is complete.
LEMMA LiveComplete ==
    ASSUME Caution, Shape, Solid, NEW g \in Goroutines, pc[g] = "meta", Registered(g)
    PROVE  LET f   == call[g].file
               how == call[g].op
           IN  /\ Live(g) = Complete(how, f) /\ OnDisk(how, f) /\ InMemory(how, f)
               /\ <<how, f>> \in Uploads /\ how \in {"load", "write"}
<1> DEFINE f == call[g].file
           how == call[g].op
<1>1. Storing(g)
  BY DEF Storing
<1>2. /\ <<how, f>> \in Uploads /\ Partial(g)
      /\ \A i \in 1 .. Len(chunks[g]) : chunks[g][i].key = Key(how, f, i)
  BY <1>1, PartialFacts
<1>3. Len(chunks[g]) = ChunkCount[f]
  BY <1>2 DEF Partial
<1>4. \A i \in 1 .. ChunkCount[f] :
         /\ registry[chunks[g][i].key] = Piece(how, f, i)
         /\ registry[Key(how, f, i)] = Piece(how, f, i)
         /\ storage[Key(how, f, i)] = <<f, i>>
  BY <1>2, <1>3 DEF Partial, Registered
<1>5. Live(g) = Complete(how, f)
  BY <1>3, <1>4 DEF Live, Complete
<1>6. OnDisk(how, f) /\ InMemory(how, f)
  BY <1>4 DEF OnDisk, InMemory
<1> QED
  BY <1>2, <1>5, <1>6, PieceType, CallsAssumption

LEMMA MetaBeginSolid ==
    ASSUME Caution, Shape, Shape', Solid, NEW g \in Goroutines, MetaBegin(g)
    PROVE  Solid'
<1> DEFINE f == call[g].file
           how == call[g].op
<1>1. pc[g] = "meta" /\ lock = NoOne /\ lock' = g /\ Registered(g)
      /\ pc' = [pc EXCEPT ![g] = "encoding"]
      /\ references' = [references EXCEPT ![f] = Live(g)]
      /\ metadata' = [metadata EXCEPT ![f] = <<>>]
      /\ UNCHANGED <<registry, storage, call, chunks, next, found, left, up, stored>>
  BY DEF MetaBegin, Goto, local, world
<1>2. Storing(g) /\ OthersStay(g) /\ pc'[g] = "encoding"
  BY <1>1, CallsAssumption DEF Storing, Shape, LocalsOK, OthersStay
<1>3. \A x \in Files : x # f => Same(x)
  BY <1>1, OthersSameFile
<1>4. Live(g) = Complete(how, f) /\ OnDisk(how, f) /\ InMemory(how, f)
      /\ <<how, f>> \in Uploads /\ how \in {"load", "write"}
  BY <1>1, LiveComplete
<1>5. references'[f] = Complete(how, f)
  BY <1>1, <1>4, CallsAssumption DEF Shape, MapsOK
<1>6. Sound(g)'
  <2>1. OnDisk(how, f)' /\ InMemory(how, f)'
    BY <1>1, <1>4 DEF OnDisk, InMemory
  <2> QED
    BY <1>1, <1>4, <1>5, <2>1 DEF Sound
<1>7. Partial(g)'
  <2>1. Partial(g)
    BY <1>2, PartialFacts
  <2> QED
    BY <1>1, <1>2, <2>1 DEF Partial
<1> QED
  BY <1>1, <1>2, <1>3, <1>6, <1>7, OwnStep DEF StoreLabels

LEMMA MetaEndsSolid ==
    ASSUME Caution, Shape, Shape', Solid, NEW g \in Goroutines, MetaRefused(g) \/ MetaFails(g)
    PROVE  Solid'
<1> DEFINE f == call[g].file
<1>1. pc[g] \in {"meta", "encoding"} /\ StartUndo(g) /\ UNCHANGED <<registry, storage, up, stored>>
  BY DEF MetaRefused, MetaFails, memory, disk
<1>2. references' = references \/ \E v : references' = [references EXCEPT ![f] = v]
  BY DEF MetaRefused, MetaFails, memory
<1>3. metadata' = metadata \/ \E v : metadata' = [metadata EXCEPT ![f] = v]
  BY DEF MetaRefused, MetaFails, disk
<1>4. \A x \in Files : x # f => Same(x)
  BY <1>1, <1>2, <1>3, OthersSameFile
<1>5. Storing(g) /\ lock' = IF lock = g THEN NoOne ELSE lock
  BY <1>1 DEF Storing, Shape, TaskOK, MetaRefused, MetaFails
<1> QED
  BY <1>1, <1>4, <1>5, UndoSolid

LEMMA MetaWrittenSolid ==
    ASSUME Caution, Shape, Shape', Solid, NEW g \in Goroutines, MetaWritten(g)
    PROVE  Solid'
<1>0. PICK f : f = call[g].file
  OBVIOUS
<1> DEFINE F0 == {f}
<1>1. pc[g] = "encoding" /\ lock' = NoOne /\ Return(g) /\ stored' = stored \cup {f}
      /\ metadata' = [metadata EXCEPT ![f] = references[f]]
      /\ UNCHANGED <<references, registry, storage, up>>
  BY <1>0 DEF MetaWritten, memory
<1>2. lock = g /\ Storing(g) /\ Sound(g) /\ f \in Files
  BY <1>0, <1>1, EncodedType DEF Shape, TaskOK, Storing, Solid
<1>3. OthersStay(g) /\ pc'[g] = "idle"
  BY <1>1, <1>2, ReturnStep
<1>4. \A x \in Files \ F0 : Same(x) /\ \A k \in OwnKeys(x) :
         storage'[k] = storage[k] /\ (registry'[k] = registry[k] \/ registry'[k] = Absent)
  BY <1>1, OthersSameFile DEF Same
<1>5. Safe(f)'
  <2>1. PICK how \in {"load", "write"} :
          /\ <<how, f>> \in Uploads
          /\ references[f] = Complete(how, f) /\ OnDisk(how, f) /\ InMemory(how, f)
    BY <1>0, <1>2 DEF Sound
  <2>2. metadata'[f] = Complete(how, f) /\ references'[f] = Complete(how, f)
    BY <1>1, <1>2, <2>1 DEF Shape, MapsOK
  <2>3. OnDisk(how, f)' /\ InMemory(how, f)'
    BY <1>1, <2>1 DEF OnDisk, InMemory
  <2> QED
    BY <2>1, <2>2, <2>3 DEF Safe
<1>6. \A h \in Goroutines : h # g /\ Storing(h) => call[h].file \notin F0
  BY <1>0, <1>2 DEF Solid, Exclusive
<1>7. ~Storing(g)'
  BY <1>3 DEF Storing
<1>8. stored' \subseteq stored \cup F0 /\ \A x \in F0 : x \in stored' => Safe(x)'
  BY <1>1, <1>5
<1> HIDE DEF F0
<1> QED
  BY <1>1, <1>2, <1>3, <1>4, <1>6, <1>7, <1>8, SolidStep

\* The steps of a cleanup.
LEMMA SweepBeginSolid ==
    ASSUME Caution, Shape, Shape', Solid, NEW g \in Goroutines, NEW what \in Sweeps,
           SweepBegin(g, what)
    PROVE  Solid'
<1>1. what \in {"all", ".kdht", ".toml"}
  BY CallsAssumption
<1>2. /\ Begin(g, what, Absent, "cleaning") /\ chunks' = chunks /\ up' = up
      /\ left' \in [Goroutines -> SUBSET (Keys \cup Files)] /\ lock = NoOne /\ lock' = g
      /\ left'[g] = Swept(what) /\ \A h \in Goroutines : h # g => left'[h] = left[h]
      /\ "cleaning" \in Labels /\ Absent \in Files \cup {Absent}
  <2>1. Swept(what) \in SUBSET Keys /\ Swept(what) \in SUBSET (Keys \cup Files)
    BY DEF Swept
  <2> QED
    BY <2>1 DEF Shape, LocalsOK, SweepBegin, Labels
<1>3. OthersStay(g) /\ pc'[g] = "cleaning" /\ call'[g].op = what
  BY <1>1, <1>2, BeginStep
<1>4. UNCHANGED <<memory, disk>> /\ stored' = {}
  BY DEF SweepBegin
<1>5. \A x \in Files : Same(x)
  BY <1>4, SameAll
<1>6. what = ".toml" => left'[g] = {}
  BY <1>2 DEF Swept
<1> DEFINE F0 == {}
<1>7. /\ \A x \in Files \ F0 : Same(x) /\ \A k \in OwnKeys(x) :
            storage'[k] = storage[k] /\ (registry'[k] = registry[k] \/ registry'[k] = Absent)
      /\ \A x : x \notin F0
  BY <1>5 DEF Same
<1>8. ~Storing(g)' /\ stored' \subseteq stored /\ stored' \subseteq stored \cup F0
  BY <1>3, <1>4 DEF Storing
<1> HIDE DEF F0
<1> QED
  BY <1>2, <1>3, <1>4, <1>6, <1>7, <1>8, SolidStep

LEMMA SweepChunkSolid ==
    ASSUME Caution, Shape, Shape', Solid, NEW g \in Goroutines, SweepChunk(g)
    PROVE  Solid'
<1>1. pc[g] = "cleaning" /\ left[g] # {}
      /\ UNCHANGED <<references, registry, lock, metadata, pc, call, chunks, next, found, up,
                     stored>>
      /\ left' = [left EXCEPT ![g] = left'[g]]
  BY DEF SweepChunk, memory, world, Shape, LocalsOK
<1>2. call[g].op \in Sweeps /\ call[g].op # ".toml" /\ stored = {} /\ lock = g
  BY <1>1 DEF Shape, TaskOK, Solid, Sweeping
<1>3. \A h \in Goroutines : h = g
  BY <1>2 DEF Caution
<1>4. OthersStay(g)
  BY <1>3 DEF OthersStay
<1>5. ~Storing(g)'
  BY <1>1 DEF Storing
<1>6. stored' = {} /\ stored' \subseteq stored /\ pc'[g] = "cleaning" /\ call'[g].op # ".toml"
  BY <1>1, <1>2
<1> QED
  BY <1>1, <1>2, <1>3, <1>4, <1>5, <1>6, SolidStep

LEMMA SweepMetadataSolid ==
    ASSUME Caution, Shape, Shape', Solid, NEW g \in Goroutines, SweepMetadata(g)
    PROVE  Solid'
<1>1. pc[g] = "cleaning" /\ left[g] = {}
      /\ UNCHANGED <<references, registry, lock, storage, pc, call, chunks, next, found, left, up,
                     stored>>
  BY DEF SweepMetadata, memory, local, world
<1>2. lock = g /\ stored' = {}
  BY <1>1 DEF Shape, TaskOK, Solid, Sweeping
<1>3. OthersStay(g) /\ ~Storing(g)'
  BY <1>1 DEF OthersStay, Storing
<1> DEFINE F0 == {}
<1>4. /\ \A x \in Files \ F0 : \A k \in OwnKeys(x) :
            storage'[k] = storage[k] /\ (registry'[k] = registry[k] \/ registry'[k] = Absent)
      /\ \A x : x \notin F0
      /\ stored' \subseteq stored \cup F0 /\ stored' \subseteq stored
  BY <1>1
<1> HIDE DEF F0
<1> QED
  BY <1>1, <1>2, <1>3, <1>4, SolidStep

LEMMA SweepDoneSolid ==
    ASSUME Caution, Shape, Shape', Solid, NEW g \in Goroutines, SweepDone(g)
    PROVE  Solid'
<1>1. pc[g] = "cleaning" /\ lock' = NoOne /\ Return(g) /\ UNCHANGED <<storage, metadata, up, stored>>
      /\ registry' = [k \in Keys |-> Absent]
  BY DEF SweepDone, disk, world
<1>2. lock = g /\ stored' = {}
  BY <1>1 DEF Shape, TaskOK, Solid, Sweeping
<1>3. OthersStay(g) /\ pc'[g] = "idle"
  BY <1>1, <1>2, ReturnStep
<1> DEFINE F0 == {}
<1>4. /\ \A x \in Files \ F0 : \A k \in OwnKeys(x) :
            storage'[k] = storage[k] /\ (registry'[k] = registry[k] \/ registry'[k] = Absent)
      /\ \A x : x \notin F0
      /\ stored' \subseteq stored \cup F0 /\ stored' \subseteq stored
  BY <1>1 DEF OwnKeys
<1>5. ~Storing(g)'
  BY <1>3 DEF Storing
<1> HIDE DEF F0
<1> QED
  BY <1>1, <1>2, <1>3, <1>4, <1>5, SolidStep

\* A step of a rewriting, which is alone, on one file.
LEMMA RewriteStep ==
    ASSUME Caution, Shape, Shape', Solid, NEW g \in Goroutines, pc[g] \in {"rewrite", "rewriting"},
           OthersStay(g), UNCHANGED <<references, registry, storage, up>>, NEW f \in Files,
           \E v : metadata' = [metadata EXCEPT ![f] = v],
           stored' \subseteq stored \cup {f}, f \in stored' => Safe(f)',
           pc'[g] \in {"idle", "rewrite", "rewriting"},
           pc'[g] = "rewriting" => call'[g].file \notin stored' /\ (call'[g].sure => Sound(g)')
    PROVE  Solid'
<1> DEFINE F0 == {f}
<1>1. \A x \in Files \ F0 : Same(x) /\ \A k \in OwnKeys(x) :
         storage'[k] = storage[k] /\ (registry'[k] = registry[k] \/ registry'[k] = Absent)
  BY OthersSameFile DEF Same
<1>2. \A h \in Goroutines : h = g
  BY RewritesAlone
<1>3. Rewriting /\ ~Storing(g)' /\ pc'[g] # "encoding" /\ pc'[g] # "cleaning"
  BY DEF Shape, TaskOK, Storing
<1>4. stored' \subseteq stored \cup F0 /\ \A x \in F0 : x \in stored' => Safe(x)'
  OBVIOUS
<1> HIDE DEF F0
<1> QED
  BY <1>1, <1>2, <1>3, <1>4, SolidStep

LEMMA RewriteBeginSolid ==
    ASSUME Caution, Shape, Shape', Solid, NEW g \in Goroutines, RewriteBegin(g)
    PROVE  Solid'
<1>1. pc[g] = "rewrite" /\ pc' = [pc EXCEPT ![g] = "rewriting"]
      /\ UNCHANGED <<references, registry, lock, storage, chunks, next, found, up>>
  BY DEF RewriteBegin, Goto, memory
<1>2. PICK f \in left[g] :
         /\ metadata' = [metadata EXCEPT ![f] = <<>>]
         /\ call' = [call EXCEPT ![g] = [op |-> "rewrite", file |-> f, sure |-> f \in stored]]
         /\ stored' = stored \ {f}
  BY DEF RewriteBegin
<1>3. f \in Files /\ up
  BY <1>1 DEF Shape, TaskOK
<1>4. pc'[g] = "rewriting" /\ call'[g].file = f /\ (call'[g].sure <=> f \in stored)
  <2> DEFINE b == f \in stored
  <2>1. b \in BOOLEAN /\ call' = [call EXCEPT ![g] = [op |-> "rewrite", file |-> f, sure |-> b]]
    BY <1>2
  <2> HIDE DEF b
  <2>2. call'[g].file = f /\ call'[g].sure = b /\ pc'[g] = "rewriting"
    BY <1>1, <2>1 DEF Shape, LocalsOK
  <2> QED
    BY <2>2 DEF b
<1>5. OthersStay(g)
  <2>1. \A h \in Goroutines : h = g
    BY <1>1, RewritesAlone
  <2> QED
    BY <2>1 DEF OthersStay
<1>6. ASSUME f \in stored PROVE Sound(g)'
  <2>1. PICK how \in {"load", "write"} :
          /\ <<how, f>> \in Uploads
          /\ references[f] = Complete(how, f) /\ OnDisk(how, f) /\ InMemory(how, f)
    BY <1>3, <1>6 DEF Solid, Safe
  <2>2. OnDisk(how, f)' /\ InMemory(how, f)' /\ references'[f] = Complete(how, f)
    BY <1>1, <2>1 DEF OnDisk, InMemory
  <2> QED
    BY <1>4, <2>1, <2>2 DEF Sound
<1>7. f \notin stored' /\ stored' \subseteq stored \cup {f}
  BY <1>2
<1> QED
  BY <1>1, <1>2, <1>3, <1>4, <1>5, <1>6, <1>7, RewriteStep

LEMMA RewriteWrittenSolid ==
    ASSUME Caution, Shape, Shape', Solid, NEW g \in Goroutines, RewriteWritten(g)
    PROVE  Solid'
<1>0. PICK f : f = call[g].file
  OBVIOUS
<1>1. pc[g] = "rewriting" /\ pc' = [pc EXCEPT ![g] = "rewrite"]
      /\ metadata' = [metadata EXCEPT ![f] = references[f]]
      /\ UNCHANGED <<references, registry, storage, up>>
  BY <1>0 DEF RewriteWritten, Goto, memory
<1>2. f \in Files /\ f \notin stored
  BY <1>0, <1>1, EncodedType DEF Solid
<1>3. (call[g].sure /\ stored' = stored \cup {f}) \/ stored' = stored
  BY <1>0 DEF RewriteWritten
<1>4. OthersStay(g) /\ pc'[g] = "rewrite"
  <2>1. \A h \in Goroutines : h = g
    BY <1>1, RewritesAlone
  <2> QED
    BY <1>1, <2>1 DEF OthersStay, Shape, LocalsOK
<1>5. ASSUME f \in stored' PROVE Safe(f)'
  <2>1. Sound(g)
    BY <1>1, <1>2, <1>3, <1>5 DEF Solid
  <2>2. PICK how \in {"load", "write"} :
          /\ <<how, f>> \in Uploads
          /\ references[f] = Complete(how, f) /\ OnDisk(how, f) /\ InMemory(how, f)
    BY <1>0, <2>1 DEF Sound
  <2>3. metadata'[f] = Complete(how, f) /\ references'[f] = Complete(how, f)
    BY <1>1, <1>2, <2>2 DEF Shape, MapsOK
  <2>4. OnDisk(how, f)' /\ InMemory(how, f)'
    BY <1>1, <2>2 DEF OnDisk, InMemory
  <2> QED
    BY <2>2, <2>3, <2>4 DEF Safe
<1>6. stored' \subseteq stored \cup {f}
  BY <1>3
<1> QED
  BY <1>1, <1>2, <1>4, <1>5, <1>6, RewriteStep

LEMMA RewriteFailsSolid ==
    ASSUME Caution, Shape, Shape', Solid, NEW g \in Goroutines, RewriteFails(g)
    PROVE  Solid'
<1>0. PICK f : f = call[g].file
  OBVIOUS
<1>1. pc[g] = "rewriting" /\ Return(g)
      /\ UNCHANGED <<references, registry, lock, storage, up, stored>>
      /\ \E v : metadata' = [metadata EXCEPT ![f] = v]
  BY <1>0 DEF RewriteFails, memory
<1>2. f \in Files /\ f \notin stored' /\ lock # g
  BY <1>0, <1>1, EncodedType DEF Solid, Shape, TaskOK
<1>3. OthersStay(g) /\ pc'[g] = "idle"
  BY <1>1, <1>2, ReturnStep
<1>4. stored' \subseteq stored \cup {f}
  BY <1>1
<1> QED
  BY <1>1, <1>2, <1>3, <1>4, RewriteStep

\* A crash leaves the files that are stored as they are: only a file that is being
\* written may be cut off, and that is none of them.
LEMMA CrashSolid ==
    ASSUME Caution, Shape, Solid, Crash
    PROVE  Solid'
<1>1. up' = FALSE /\ UNCHANGED stored /\ \A g \in Goroutines : pc'[g] = "idle"
  BY DEF Crash
<1>2. ASSUME NEW f \in stored
      PROVE  metadata'[f] = metadata[f] /\ \A k \in OwnKeys(f) : storage'[k] = storage[k]
  <2>0. f \in Files
    BY DEF Shape, MapsOK
  <2>1. CASE UNCHANGED disk
    BY <2>1 DEF disk
  <2>2. ASSUME NEW g \in Goroutines, pc[g] = "writing", UNCHANGED metadata, NEW data,
               storage' = [storage EXCEPT ![Current(g).key] = data]
        PROVE  metadata'[f] = metadata[f] /\ \A k \in OwnKeys(f) : storage'[k] = storage[k]
    <3>1. call[g].file # f
      BY <2>2 DEF Solid, Partial, Storing
    <3>2. \A k \in OwnKeys(f) : k # Current(g).key /\ k \in Keys
      BY <2>2, <3>1, CurrentOwn, OwnKeysApart DEF OwnKeys
    <3> QED
      BY <2>2, <3>2 DEF Shape, MapsOK
  <2>3. ASSUME NEW g \in Goroutines, pc[g] \in {"encoding", "rewriting"}, UNCHANGED storage, NEW m,
               metadata' = [metadata EXCEPT ![call[g].file] = m]
        PROVE  metadata'[f] = metadata[f] /\ \A k \in OwnKeys(f) : storage'[k] = storage[k]
    <3>1. call[g].file # f
      BY <2>3 DEF Solid, Partial, Storing
    <3> QED
      BY <2>0, <2>3, <3>1 DEF Shape, MapsOK
  <2> QED
    BY <2>1, <2>2, <2>3 DEF Crash
<1>3. ASSUME NEW f \in stored' PROVE Safe(f)'
  <2>1. PICK how \in {"load", "write"} :
          /\ <<how, f>> \in Uploads /\ metadata[f] = Complete(how, f) /\ OnDisk(how, f)
    BY <1>1, <1>3 DEF Solid, Safe
  <2>2. \A i \in 1 .. ChunkCount[f] : Key(how, f, i) \in OwnKeys(f)
    BY <2>1, OwnKey
  <2>3. OnDisk(how, f)' /\ metadata'[f] = Complete(how, f)
    BY <1>1, <1>2, <1>3, <2>1, <2>2 DEF OnDisk
  <2> QED
    BY <1>1, <2>1, <2>3 DEF Safe
<1> QED
  BY <1>1, <1>3 DEF Solid, Exclusive, Sweeping, Storing

\* A restart enters a complete reference into the registry chunk by chunk.
LEMMA RestoredComplete ==
    ASSUME Caution, Shape, NEW known \in SUBSET Decoded, NEW f \in known, NEW how,
           <<how, f>> \in Uploads, metadata[f] = Complete(how, f), NEW i \in 1 .. ChunkCount[f]
    PROVE  Restored(known)[Key(how, f, i)] = Piece(how, f, i)
<1> DEFINE k   == Key(how, f, i)
           ref == Complete(how, f)
           T   == {j \in 1 .. Len(ref) : ref[j].key = k}
           h   == CHOOSE x \in known : k \in KeysOf(metadata[x])
<1>1. /\ k \in Keys /\ k \in OwnKeys(f) /\ f \in Files
      /\ \A j \in 1 .. ChunkCount[f] : ref[j] = Piece(how, f, j) /\ ref[j].key = Key(how, f, j)
  BY PieceType, OwnKey DEF Complete
<1>2. Len(ref) = ChunkCount[f] /\ ChunkCount[f] \in Nat
  BY <1>1, CompleteType, CountAssumption
<1>3. k \in KeysOf(metadata[f])
  BY <1>1, <1>2 DEF KeysOf
<1> HIDE DEF k, ref
<1>4. h \in known /\ k \in KeysOf(metadata[h])
  BY <1>3
<1> HIDE DEF h
<1>5. h = f
  <2>1. metadata[h] \in Seq(ChunkOf(h)) /\ h \in Files
    BY <1>4 DEF Decoded, Shape, MapsOK
  <2>2. PICK j \in 1 .. Len(metadata[h]) : k = metadata[h][j].key
    BY <1>4 DEF KeysOf
  <2>3. metadata[h][j] \in ChunkOf(h)
    BY <2>1, <2>2, ElementOfSeq
  <2>4. k \in {NoKey} \cup OwnKeys(h)
    BY <2>2, <2>3 DEF ChunkOf, ChunkType, OwnKeys
  <2> QED
    BY <1>1, <2>4, OwnKeysApart
<1>6. Restored(known)[k] = ref[Max(T)]
  <2>1. Restored(known)[k] = metadata[h][Max({j \in 1 .. Len(metadata[h]) : metadata[h][j].key = k})]
    BY <1>1, <1>3 DEF Restored, h
  <2> QED
    BY <1>5, <2>1 DEF ref
<1>7. T = {i}
  <2>1. i \in T
    BY <1>1, <1>2 DEF k
  <2>2. ASSUME NEW j \in T PROVE j = i
    <3>1. j \in 1 .. ChunkCount[f] /\ Key(how, f, j) = Key(how, f, i)
      BY <1>1, <1>2, <2>2 DEF k
    <3> QED
      BY <1>1, <3>1, KeysOwn
  <2> QED
    BY <2>1, <2>2
<1>8. Max({i}) = i
  BY <1>2 DEF Max
<1> QED
  BY <1>1, <1>6, <1>7, <1>8 DEF k

LEMMA BootstrapSolid ==
    ASSUME Caution, Shape, Solid, Bootstrap
    PROVE  Solid'
<1>1. ~up /\ up' = TRUE /\ UNCHANGED <<lock, pc, call, chunks, next, found, left, stored>>
  BY DEF Bootstrap, local
<1>2. \A g \in Goroutines : pc'[g] = "idle"
  BY <1>1 DEF Shape, TaskOK
<1>a. PICK kept \in SUBSET Orphans, stuck \in SUBSET Keys, stay \in SUBSET Orphans :
        LET moved == Orphans \ kept
            gone  == UNION {KeysOf(metadata[f]) : f \in moved}
            known == Decoded \ moved
        IN  /\ stuck \subseteq {k \in gone : storage[k] # Absent} /\ stay \subseteq moved
            /\ \/ kept \cup stay \cup stuck = {} /\ UNCHANGED faults
               \/ /\ \/ Cardinality(kept) + Cardinality(stay) + Cardinality(stuck) = 1
                     \/ kept = Orphans /\ kept # {}
                  /\ Fault
            /\ references' = [f \in Files |-> IF f \in known THEN metadata[f] ELSE Absent]
            /\ registry' = Restored(known)
            /\ storage' = [k \in Keys |-> IF k \in gone \ stuck THEN Absent ELSE storage[k]]
            /\ metadata' = [f \in Files |-> IF f \in moved \ stay THEN Absent ELSE metadata[f]]
  BY DEF Bootstrap
<1> DEFINE moved == Orphans \ kept
           G     == (UNION {KeysOf(metadata[f]) : f \in moved}) \ stuck
           M     == moved \ stay
<1>3. /\ moved \in SUBSET Orphans
      /\ references' = [f \in Files |-> IF f \in Decoded \ moved THEN metadata[f] ELSE Absent]
      /\ registry' = Restored(Decoded \ moved)
      /\ storage' = [k \in Keys |-> IF k \in G THEN Absent ELSE storage[k]]
      /\ metadata' = [f \in Files |-> IF f \in M THEN Absent ELSE metadata[f]]
      /\ G \subseteq UNION {KeysOf(metadata[f]) : f \in moved} /\ M \subseteq moved
  <2>1. moved \in SUBSET Orphans /\ M \subseteq moved
        /\ G \subseteq UNION {KeysOf(metadata[f]) : f \in moved}
    OBVIOUS
  <2>2. /\ references' = [f \in Files |-> IF f \in Decoded \ moved THEN metadata[f] ELSE Absent]
        /\ registry' = Restored(Decoded \ moved)
    BY <1>a
  <2>3. metadata' = [f \in Files |-> IF f \in M THEN Absent ELSE metadata[f]]
    BY <1>a
  <2>4. storage' = [k \in Keys |-> IF k \in G THEN Absent ELSE storage[k]]
    BY <1>a
  <2> QED
    BY <2>1, <2>2, <2>3, <2>4
<1> HIDE DEF moved, G, M
<1>4. ASSUME NEW f \in stored' PROVE Safe(f)'
  <2>1. PICK how \in {"load", "write"} :
          /\ <<how, f>> \in Uploads /\ metadata[f] = Complete(how, f) /\ OnDisk(how, f)
    BY <1>1, <1>4 DEF Solid, Safe
  <2>2. f \in Files /\ f \in Decoded
    BY <2>1, CompleteType, CallsAssumption DEF Decoded
  <2>3. f \notin Orphans
    <3>1. ASSUME NEW k \in KeysOf(metadata[f]) PROVE storage[k] # Absent
      <4>1. PICK i \in 1 .. ChunkCount[f] : k = metadata[f][i].key
        BY <2>1, <3>1, CompleteType DEF KeysOf
      <4>2. k = Key(how, f, i)
        BY <2>1, <4>1, PieceType DEF Complete
      <4>3. storage[k] = <<f, i>> /\ <<f, i>> \in Data
        BY <2>1, <2>2, <4>2 DEF OnDisk, Data
      <4> QED
        BY <4>3, TokensAssumption
    <3> QED
      BY <3>1 DEF Orphans
  <2>4. f \notin moved /\ f \in Decoded \ moved
    BY <1>3, <2>2, <2>3
  <2>5. references'[f] = Complete(how, f) /\ metadata'[f] = Complete(how, f)
    BY <1>3, <2>1, <2>2, <2>4
  <2>6. ASSUME NEW i \in 1 .. ChunkCount[f] PROVE storage'[Key(how, f, i)] = <<f, i>>
    <3>1. Key(how, f, i) \in Keys /\ Key(how, f, i) \in OwnKeys(f)
      BY <2>1, OwnKey DEF OwnKeys
    <3>2. ASSUME Key(how, f, i) \in G PROVE FALSE
      <4>1. PICK h \in moved : Key(how, f, i) \in KeysOf(metadata[h])
        BY <1>3, <3>2
      <4>2. h \in Files /\ h # f /\ metadata[h] \in Seq(ChunkOf(h))
        BY <1>3, <2>4, <4>1 DEF Orphans, Decoded, Shape, MapsOK
      <4>3. PICK j \in 1 .. Len(metadata[h]) : Key(how, f, i) = metadata[h][j].key
        BY <4>1 DEF KeysOf
      <4>4. metadata[h][j] \in ChunkOf(h)
        BY <4>2, <4>3, ElementOfSeq
      <4>5. Key(how, f, i) \in {NoKey} \cup OwnKeys(h)
        BY <4>3, <4>4 DEF ChunkOf, ChunkType, OwnKeys
      <4> QED
        BY <3>1, <4>2, <4>5, OwnKeysApart
    <3> QED
      BY <1>3, <2>1, <3>1, <3>2 DEF OnDisk
  <2>7. OnDisk(how, f)'
    BY <2>6 DEF OnDisk
  <2>8. InMemory(how, f)'
    <3>1. Decoded \ moved \in SUBSET Decoded
      OBVIOUS
    <3> QED
      BY <1>3, <2>1, <2>4, <3>1, RestoredComplete DEF InMemory
  <2> QED
    BY <2>1, <2>5, <2>7, <2>8 DEF Safe
<1> QED
  BY <1>2, <1>4 DEF Solid, Exclusive, Sweeping, Storing

LEMMA StepSolid == Caution /\ Shape /\ Shape' /\ Solid /\ [Next]_vars => Solid'
<1> SUFFICES ASSUME Caution, Shape, Shape', Solid, [Next]_vars PROVE Solid'
  OBVIOUS
<1>1. CASE UNCHANGED vars
  BY <1>1, UnchangedSolid
<1>2. CASE Crash
  BY <1>2, CrashSolid
<1>3. CASE Bootstrap
  BY <1>3, BootstrapSolid
<1>4. ASSUME NEW g \in Goroutines, Call(g) PROVE Solid'
  <2>1. ASSUME NEW u \in Uploads, Store(g, u[1], u[2]) PROVE Solid'
    <3>1. u = <<u[1], u[2]>>
      BY CallsAssumption
    <3> QED
      BY <2>1, <3>1, StoreSolid
  <2> QED
    BY <1>4, <2>1, ReadSolid, StoreKeySolid, SweepBeginSolid, RewriteSolid DEF Call
<1>5. ASSUME NEW g \in Goroutines, Step(g) PROVE Solid'
  BY <1>5, ReturnsSolid, ReaderSolid, StartsUndoSolid, ChunkBeginSolid, ChunkWrittenSolid,
     ChunkFailsSolid, UndoChunkSolid, MetaBeginSolid, MetaEndsSolid, MetaWrittenSolid,
     SweepChunkSolid, SweepMetadataSolid, SweepDoneSolid, RewriteBeginSolid,
     RewriteWrittenSolid, RewriteFailsSolid DEF Step
<1> QED
  BY <1>1, <1>2, <1>3, <1>4, <1>5 DEF Next

\* The chunks of a stored file are on disk and in the registry under keys no other file
\* has, and a goroutine that stores, rewrites or cleans up keeps them there.
THEOREM SolidInvariant == ASSUME Caution PROVE Spec => []Solid
<1>1. Init => Solid
  BY InitSolid
<1>2. Shape /\ Shape' /\ Solid /\ [Next]_vars => Solid'
  BY StepSolid
<1> QED
  BY <1>1, <1>2, ShapeInvariant, PTL DEF Spec

LEMMA SafeFiles ==
    ASSUME Solid
    PROVE  DurableFiles /\ KnownFiles
<1> SUFFICES ASSUME NEW f \in stored
             PROVE  /\ metadata[f] \notin {Absent, Broken} /\ Whole(f, metadata[f])
                    /\ \A i \in 1 .. ChunkCount[f] : storage[metadata[f][i].key] = <<f, i>>
                    /\ up => /\ references[f] = metadata[f]
                             /\ \A i \in 1 .. ChunkCount[f] :
                                   registry[metadata[f][i].key] = metadata[f][i]
  BY DEF DurableFiles, KnownFiles
<1>1. PICK how \in {"load", "write"} :
        /\ <<how, f>> \in Uploads
        /\ metadata[f] = Complete(how, f) /\ OnDisk(how, f)
        /\ up => references[f] = Complete(how, f) /\ InMemory(how, f)
  BY DEF Solid, Safe
<1>2. ASSUME NEW i \in 1 .. ChunkCount[f]
      PROVE  /\ metadata[f][i] = Piece(how, f, i) /\ metadata[f][i].key = Key(how, f, i)
             /\ metadata[f][i].data = <<f, i>> /\ metadata[f][i].here
  BY <1>1, PieceType DEF Complete
<1>3. Len(metadata[f]) = ChunkCount[f] /\ metadata[f] \notin {Absent, Broken}
  BY <1>1, CompleteType
<1>4. Whole(f, metadata[f])
  BY <1>2, <1>3 DEF Whole
<1>5. \A i \in 1 .. ChunkCount[f] : storage[metadata[f][i].key] = <<f, i>>
  BY <1>1, <1>2 DEF OnDisk
<1>6. up => \A i \in 1 .. ChunkCount[f] : registry[metadata[f][i].key] = metadata[f][i]
  BY <1>1, <1>2 DEF InMemory
<1> QED
  BY <1>1, <1>3, <1>4, <1>5, <1>6

\* A file that LoadAndStoreFile or WriteFileToDisk stored and that was not cleaned up is
\* on disk as a whole, metadata and chunks, whatever fails and however often the process
\* dies, in a store used with Caution.
THEOREM FilesAreDurable == ASSUME Caution PROVE Spec => []DurableFiles
BY SolidInvariant, SafeFiles, PTL

\* The maps of a running store know every file that was stored: the reference is the one
\* of its metadata and each chunk is registered, also after a crash and the walk of
\* BootstrapKeyStore over what is on disk.
THEOREM FilesAreKnown == ASSUME Caution PROVE Spec => []KnownFiles
BY SolidInvariant, SafeFiles, PTL

-----------------------------------------------------------------------------
(* Reading a file that is stored.                                          *)

Reads(g) == call[g].op = "read" /\ call[g].sure

\* A goroutine that reads a file that stays stored has the reference that is in the
\* metadata, and what it has looked up is what the reference says.
AssuredOf(g) ==
    /\ pc[g] \in ReadLabels /\ call[g].file \in stored
    /\ pc[g] = "recall" => next[g] = 1
    /\ pc[g] # "recall" =>
          chunks[g] = metadata[call[g].file] /\ next[g] \in 1 .. ChunkCount[call[g].file] + 1
    /\ pc[g] = "load" =>
          next[g] <= ChunkCount[call[g].file] /\ found[g] = chunks[g][next[g]]

Assured == \A g \in Goroutines : Reads(g) => AssuredOf(g)

\* What is known of a stored file while the process runs.
LEMMA StoredFacts ==
    ASSUME Shape, Solid, up, NEW f \in stored
    PROVE  /\ f \in Files /\ ChunkCount[f] \in Nat \ {0}
           /\ metadata[f] # Absent /\ Len(metadata[f]) = ChunkCount[f]
           /\ references[f] = metadata[f]
           /\ \A i \in 1 .. ChunkCount[f] :
                 /\ metadata[f][i].data = <<f, i>> /\ metadata[f][i].here
                 /\ storage[metadata[f][i].key] = <<f, i>> /\ <<f, i>> # Absent
                 /\ registry[metadata[f][i].key] = metadata[f][i] /\ metadata[f][i] # Absent
<1>1. f \in Files /\ ChunkCount[f] \in Nat \ {0}
  BY CountAssumption DEF Shape, MapsOK
<1>2. PICK how \in {"load", "write"} :
        /\ <<how, f>> \in Uploads /\ metadata[f] = Complete(how, f)
  BY DEF Solid, Safe
<1>3. \A i \in 1 .. ChunkCount[f] : metadata[f][i] = Piece(how, f, i)
  BY <1>2 DEF Complete
<1>4. \A i \in 1 .. ChunkCount[f] : metadata[f][i] # Absent
  <2>1. ASSUME NEW i \in 1 .. ChunkCount[f] PROVE Piece(how, f, i) \in ChunkType
    BY <1>2, PieceType DEF ChunkOf
  <2> QED
    BY <1>3, <2>1, TokensAssumption
<1>5. \A i \in 1 .. ChunkCount[f] : <<f, i>> # Absent
  BY <1>1, TokensAssumption DEF Data
<1> QED
  BY <1>1, <1>4, <1>5, SafeFiles DEF DurableFiles, KnownFiles, Whole

\* A step of a goroutine writes no metadata of a file that is stored and stays so.
LEMMA MetadataKept ==
    ASSUME Caution, Shape, Solid, NEW g \in Goroutines, Call(g) \/ Step(g),
           NEW f \in stored, f \in stored'
    PROVE  metadata'[f] = metadata[f]
<1>1. CASE metadata' = metadata
  BY <1>1
<1>2. ASSUME NEW v, metadata' = [metadata EXCEPT ![call[g].file] = v],
             Storing(g) \/ pc[g] = "rewriting"
      PROVE  metadata'[f] = metadata[f]
  <2>1. call[g].file # f
    BY <1>2 DEF Solid, Partial
  <2> QED
    BY <1>2, <2>1 DEF Shape, MapsOK
<1>3. CASE SweepMetadata(g)
  BY <1>3 DEF SweepMetadata, Solid, Sweeping
<1>4. CASE RewriteBegin(g)
  BY <1>4 DEF RewriteBegin, Shape, MapsOK
<1>5. CASE MetaBegin(g) \/ MetaWritten(g) \/ MetaFails(g)
  BY <1>2, <1>5 DEF MetaBegin, MetaWritten, MetaFails, Storing
<1>6. CASE RewriteWritten(g) \/ RewriteFails(g)
  BY <1>2, <1>6 DEF RewriteWritten, RewriteFails
<1>7. CASE Call(g)
  BY <1>1, <1>7 DEF Call, Store, Read, StoreKey, SweepBegin, Rewrite, disk
<1>8. CASE \/ SourceFails(g) \/ SourceChanged(g)
           \/ ChunkBegin(g) \/ ChunkRefused(g) \/ ChunkWritten(g) \/ ChunkFails(g)
           \/ UndoChunk(g) \/ UndoDone(g) \/ MetaMissing(g) \/ MetaRefused(g)
           \/ Recall(g) \/ Lookup(g) \/ Load(g) \/ ReadEnd(g)
           \/ SweepChunk(g) \/ SweepFails(g) \/ SweepDone(g)
           \/ RewriteRefused(g) \/ RewriteDone(g)
  BY <1>1, <1>8 DEF SourceFails, SourceChanged, ChunkBegin, ChunkRefused, ChunkWritten,
     ChunkFails, UndoChunk, UndoDone, MetaMissing, MetaRefused, Recall, Lookup, Load, ReadEnd,
     SweepChunk, SweepFails, SweepDone, RewriteRefused, RewriteDone, disk
<1> QED
  BY <1>3, <1>4, <1>5, <1>6, <1>7, <1>8 DEF Step

\* Only a cleanup or a rewriting makes a stored file one that is not stored.
LEMMA StoredKept ==
    ASSUME NEW g \in Goroutines, Call(g) \/ Step(g)
    PROVE  \/ stored \subseteq stored'
           \/ \E what \in Sweeps : SweepBegin(g, what)
           \/ RewriteBegin(g)
<1>1. CASE Call(g)
  BY <1>1 DEF Call, Store, Read, StoreKey, Rewrite, world
<1>2. CASE Step(g)
  BY <1>2 DEF Step, SourceFails, SourceChanged, ChunkBegin, ChunkRefused, ChunkWritten,
     ChunkFails, UndoChunk, UndoDone, MetaMissing, MetaBegin, MetaRefused, MetaWritten, MetaFails,
     Recall, Lookup, Load, ReadEnd, SweepChunk, SweepMetadata, SweepFails, SweepDone,
     RewriteRefused, RewriteWritten, RewriteFails, RewriteDone, world
<1> QED
  BY <1>1, <1>2

\* A call of g ends no call of another goroutine and makes no other read a sure one.
LEMMA CallOthers ==
    ASSUME Shape, NEW g \in Goroutines, Call(g)
    PROVE  /\ OthersStay(g)
           /\ (\E what \in Sweeps : SweepBegin(g, what)) =>
                 \A h \in Goroutines : h # g => ~call'[h].sure
           /\ call'[g].op = "read" =>
                 \/ \E f \in Files : Read(g, f)
                 \/ \E k \in NetKeys : StoreKey(g, k)
<1> USE DEF Labels, StoreLabels, ReadLabels
<1>1. LocalsOK
  BY DEF Shape
<1>2. ASSUME NEW u \in Uploads, Store(g, u[1], u[2])
      PROVE  OthersStay(g) /\ call'[g].op # "read"
  <2>1. u[1] \in {"load", "write"} /\ u[2] \in Files \cup {Absent}
    BY CallsAssumption
  <2>2. Begin(g, u[1], u[2], "chunk") /\ chunks' = chunks /\ lock' = lock /\ left' = left
    BY <1>2 DEF Store
  <2> QED
    BY <1>1, <2>1, <2>2, BeginStep DEF LocalsOK
<1>3. ASSUME NEW f \in Files, Read(g, f) PROVE OthersStay(g)
  <2>1. Begin(g, "read", f, "recall") /\ chunks' = chunks /\ lock' = lock /\ left' = left
    BY <1>3 DEF Read
  <2> QED
    BY <1>1, <2>1, BeginStep DEF LocalsOK
<1>4. ASSUME NEW k \in NetKeys, StoreKey(g, k) PROVE OthersStay(g)
  BY <1>4 DEF StoreKey, OthersStay, local
<1>5. ASSUME NEW what \in Sweeps, SweepBegin(g, what)
      PROVE  OthersStay(g) /\ call'[g].op # "read" /\ \A h \in Goroutines : h # g => ~call'[h].sure
  <2>1. what \in {"all", ".kdht", ".toml"} /\ Swept(what) \subseteq Keys
    BY CallsAssumption DEF Swept
  <2>2. Begin(g, what, Absent, "cleaning") /\ chunks' = chunks /\ lock = NoOne /\ lock' = g
        /\ left' = [left EXCEPT ![g] = Swept(what)]
    BY <1>5 DEF SweepBegin
  <2>3. left' \in [Goroutines -> SUBSET (Keys \cup Files)]
        /\ \A h \in Goroutines : h # g => left'[h] = left[h]
    BY <1>1, <2>1, <2>2 DEF LocalsOK
  <2>4. OthersStay(g) /\ call'[g].op = what
    BY <2>1, <2>2, <2>3, BeginStep
  <2>5. ASSUME NEW h \in Goroutines, h # g PROVE ~call'[h].sure
    <3>1. call'[h] = [call[h] EXCEPT !.sure = @ /\ what \notin Sweeps] /\ call[h] \in CallType
      BY <1>1, <2>2, <2>5 DEF Begin, LocalsOK
    <3> QED
      BY <3>1 DEF CallType
  <2> QED
    BY <2>1, <2>4, <2>5
<1>6. ASSUME Rewrite(g) PROVE OthersStay(g) /\ call'[g].op # "read"
  <2> DEFINE S == {f \in Files : references[f] # Absent}
  <2>1. Begin(g, "rewrite", Absent, "rewrite") /\ chunks' = chunks /\ lock' = lock
        /\ left' = [left EXCEPT ![g] = S] /\ S \subseteq Files
    BY <1>6 DEF Rewrite
  <2> HIDE DEF S
  <2>2. left' \in [Goroutines -> SUBSET (Keys \cup Files)]
        /\ \A h \in Goroutines : h # g => left'[h] = left[h]
    BY <1>1, <2>1 DEF LocalsOK
  <2> QED
    BY <2>1, <2>2, BeginStep
<1>7. ASSUME NEW what \in Sweeps, SweepBegin(g, what), NEW k \in NetKeys, StoreKey(g, k)
      PROVE  FALSE
  BY <1>7, CallsAssumption DEF SweepBegin, StoreKey
<1>8. ASSUME NEW what \in Sweeps, SweepBegin(g, what)
      PROVE  \A h \in Goroutines : h # g => ~call'[h].sure
  BY <1>5, <1>8
<1>9. OthersStay(g)
  BY <1>2, <1>3, <1>4, <1>5, <1>6 DEF Call
<1>10. call'[g].op = "read" => (\E f \in Files : Read(g, f)) \/ (\E k \in NetKeys : StoreKey(g, k))
  BY <1>2, <1>5, <1>6 DEF Call
<1> QED
  BY <1>8, <1>9, <1>10

\* A step within a call changes nothing of the calls of the others.
LEMMA StepOthers ==
    ASSUME Shape, NEW g \in Goroutines, Step(g), NEW h \in Goroutines, h # g
    PROVE  /\ pc'[h] = pc[h] /\ call'[h] = call[h] /\ chunks'[h] = chunks[h]
           /\ next'[h] = next[h] /\ found'[h] = found[h]
<1>1. LocalsOK
  BY DEF Shape
<1>2. CASE Return(g)
  BY <1>1, <1>2 DEF LocalsOK, Return, Goto
<1>3. CASE StartUndo(g)
  BY <1>1, <1>3 DEF LocalsOK, StartUndo, Goto
<1>4. CASE \/ ChunkBegin(g) \/ ChunkWritten(g) \/ UndoChunk(g) \/ MetaBegin(g)
  BY <1>1, <1>4 DEF LocalsOK, ChunkBegin, ChunkWritten, UndoChunk, MetaBegin, Goto, local
<1>5. CASE Recall(g) \/ Lookup(g) \/ Load(g)
  BY <1>1, <1>2, <1>5 DEF LocalsOK, Recall, Lookup, Load, Goto
<1>6. CASE \/ SweepChunk(g) \/ SweepMetadata(g) \/ RewriteBegin(g) \/ RewriteWritten(g)
  BY <1>1, <1>6 DEF LocalsOK, SweepChunk, SweepMetadata, RewriteBegin, RewriteWritten, Goto, local
<1>7. Return(g) \/ StartUndo(g) \/ ChunkBegin(g) \/ ChunkWritten(g) \/ UndoChunk(g) \/ MetaBegin(g)
      \/ Recall(g) \/ Lookup(g) \/ Load(g) \/ SweepChunk(g) \/ SweepMetadata(g)
      \/ RewriteBegin(g) \/ RewriteWritten(g)
  BY DEF Step, SourceFails, SourceChanged, ChunkRefused, ChunkFails, UndoDone, MetaMissing,
     MetaRefused, MetaWritten, MetaFails, ReadEnd, SweepFails, SweepDone, RewriteRefused,
     RewriteFails, RewriteDone
<1> QED
  BY <1>2, <1>3, <1>4, <1>5, <1>6, <1>7

\* In a step of another goroutine a reader stays assured.
LEMMA OthersAssured ==
    ASSUME Caution, Shape, Solid, NEW g \in Goroutines, Call(g) \/ Step(g),
           NEW h \in Goroutines, h # g, Reads(h) => AssuredOf(h), Reads(h)'
    PROVE  AssuredOf(h)'
<1>1. /\ pc'[h] = pc[h] /\ chunks'[h] = chunks[h] /\ next'[h] = next[h] /\ found'[h] = found[h]
      /\ call'[h].op = call[h].op /\ call'[h].file = call[h].file
      /\ (call'[h].sure => call[h].sure)
  BY CallOthers, StepOthers DEF OthersStay
<1>2. AssuredOf(h)
  BY <1>1 DEF Reads
<1>3. ~\E what \in Sweeps : SweepBegin(g, what)
  <2>1. ASSUME NEW what \in Sweeps, SweepBegin(g, what) PROVE Call(g)
    BY <2>1 DEF Call
  <2> QED
    BY <2>1, CallOthers DEF Reads
<1>4. ~RewriteBegin(g)
  BY RewritesAlone DEF RewriteBegin
<1>5. stored \subseteq stored'
  BY <1>3, <1>4, StoredKept
<1>6. call[h].file \in stored /\ call[h].file \in stored'
  BY <1>2, <1>5 DEF AssuredOf
<1>7. metadata'[call[h].file] = metadata[call[h].file]
  BY <1>6, MetadataKept
<1> QED
  BY <1>1, <1>2, <1>6, <1>7 DEF AssuredOf

LEMMA IdleReads == Idle.op = "none" /\ Idle.sure = FALSE
BY DEF Idle

\* A step in which a goroutine goes on reading, or begins to, is one of these.
LEMMA ReadingStep ==
    ASSUME Shape, NEW g \in Goroutines, Call(g) \/ Step(g), Reads(g) => AssuredOf(g), Reads(g)'
    PROVE  \/ \E f \in Files : Read(g, f)
           \/ pc[g] \in ReadLabels /\ (Recall(g) \/ Lookup(g) \/ Load(g)) /\ ~Return(g)
<1>1. ASSUME NEW k \in NetKeys, StoreKey(g, k) PROVE FALSE
  <2>1. pc[g] = "idle" /\ call' = call
    BY <1>1 DEF StoreKey, local
  <2>2. call'[g] = Idle
    BY <2>1 DEF Shape, TaskOK
  <2> QED
    BY <2>2, IdleReads DEF Reads
<1>2. CASE Call(g)
  BY <1>1, <1>2, CallOthers DEF Reads
<1>3. CASE Step(g)
  <2>1. ~Return(g)
    BY IdleReads DEF Return, Reads, Shape, LocalsOK
  <2>2. ~RewriteBegin(g) /\ ~RewriteWritten(g)
    BY DEF RewriteBegin, RewriteWritten, Reads, Shape, LocalsOK
  <2>3. CASE \/ StartUndo(g) \/ ChunkBegin(g) \/ ChunkWritten(g) \/ UndoChunk(g) \/ MetaBegin(g)
             \/ SweepChunk(g) \/ SweepMetadata(g)
    <3>1. call' = call
      BY <2>3 DEF StartUndo, ChunkBegin, ChunkWritten, UndoChunk, MetaBegin, SweepChunk,
         SweepMetadata, local
    <3>2. pc[g] \in ReadLabels
      BY <3>1 DEF Reads, AssuredOf
    <3> QED
      BY <1>3, <2>1, <2>2, <3>2 DEF Step, ReadLabels, SourceFails, SourceChanged, ChunkBegin,
         ChunkRefused, ChunkWritten, ChunkFails, UndoChunk, UndoDone, MetaMissing, MetaBegin,
         MetaRefused, MetaWritten, MetaFails, ReadEnd, SweepChunk, SweepMetadata, SweepFails,
         SweepDone, RewriteRefused, RewriteFails, RewriteDone
  <2>4. CASE Recall(g) \/ Lookup(g) \/ Load(g)
    BY <2>1, <2>4 DEF Recall, Lookup, Load, ReadLabels
  <2> QED
    BY <1>3, <2>1, <2>2, <2>3, <2>4 DEF Step, SourceFails, SourceChanged, ChunkRefused, ChunkFails,
       UndoDone, MetaMissing, MetaRefused, MetaWritten, MetaFails, ReadEnd, SweepFails, SweepDone,
       RewriteRefused, RewriteFails, RewriteDone
<1> QED
  BY <1>2, <1>3

\* A sure read that begins, and every step it goes on with.
LEMMA ReaderAssured ==
    ASSUME Shape, Solid, NEW g \in Goroutines, Call(g) \/ Step(g),
           Reads(g) => AssuredOf(g), Reads(g)'
    PROVE  AssuredOf(g)'
<1>0. LocalsOK /\ TaskOK(g)
  BY DEF Shape
<1>1. ASSUME NEW f \in Files, Read(g, f) PROVE AssuredOf(g)'
  <2>1. /\ pc'[g] = "recall" /\ pc[g] = "idle" /\ next' = next /\ stored' = stored
        /\ call'[g] = [op |-> "read", file |-> f, sure |-> f \in stored]
    BY <1>0, <1>1 DEF Read, Begin, Goto, LocalsOK, world
  <2>2. next[g] = 1
    BY <1>0, <2>1 DEF TaskOK
  <2>3. f \in stored /\ call'[g].file = f
    <3> DEFINE b == f \in stored
    <3>1. call'[g] = [op |-> "read", file |-> f, sure |-> b]
      BY <2>1
    <3> HIDE DEF b
    <3>2. call'[g].sure = b /\ call'[g].file = f
      BY <3>1
    <3> QED
      BY <3>2 DEF Reads, b
  <2> QED
    BY <2>1, <2>2, <2>3 DEF AssuredOf, ReadLabels
<1>2. ASSUME pc[g] \in ReadLabels, ~Return(g), Recall(g) \/ Lookup(g) \/ Load(g)
      PROVE  AssuredOf(g)'
  <2> DEFINE f == call[g].file
             m == metadata[f]
  <2>1. UNCHANGED <<call, memory, disk, world>> /\ AssuredOf(g) /\ f \in stored /\ up
    <3>1. call' = call
      BY <1>2 DEF Recall, Lookup, Load
    <3>2. UNCHANGED <<memory, disk, world>> /\ up
      BY <1>0, <1>2 DEF Recall, Lookup, Load, TaskOK, ReadLabels
    <3>3. AssuredOf(g)
      BY <3>1 DEF Reads
    <3> QED
      BY <3>1, <3>2, <3>3 DEF AssuredOf
  <2>2. /\ ChunkCount[f] \in Nat \ {0} /\ Len(m) = ChunkCount[f] /\ references[f] = m
        /\ \A i \in 1 .. ChunkCount[f] : registry[m[i].key] = m[i]
    BY <2>1, StoredFacts
  <2>3. call'[g].file = f /\ f \in stored' /\ metadata'[f] = m
    BY <2>1 DEF disk, world
  <2> HIDE DEF f, m
  <2>4. CASE Recall(g)
    <3>1. chunks' = [chunks EXCEPT ![g] = m] /\ pc' = [pc EXCEPT ![g] = "lookup"] /\ next' = next
          /\ pc[g] = "recall"
      BY <1>2, <2>2, <2>4 DEF Recall, Goto, f
    <3>2. chunks'[g] = m /\ pc'[g] = "lookup" /\ next'[g] = 1
      BY <1>0, <2>1, <3>1 DEF LocalsOK, AssuredOf
    <3> QED
      BY <2>2, <2>3, <3>2 DEF AssuredOf, ReadLabels
  <2>5. CASE Lookup(g)
    <3>1. pc[g] = "lookup" /\ next[g] <= Len(chunks[g])
          /\ found' = [found EXCEPT ![g] = registry[chunks[g][next[g]].key]]
          /\ pc' = [pc EXCEPT ![g] = "load"] /\ chunks' = chunks /\ next' = next
      BY <1>2, <2>5 DEF Lookup, Goto
    <3>2. chunks[g] = m /\ next[g] \in 1 .. ChunkCount[f] + 1
      BY <2>1, <3>1 DEF AssuredOf, f, m
    <3>3. next[g] \in 1 .. ChunkCount[f]
      BY <2>2, <3>1, <3>2
    <3>4. found'[g] = m[next[g]] /\ pc'[g] = "load"
      BY <1>0, <2>2, <3>1, <3>2, <3>3 DEF LocalsOK
    <3> QED
      BY <2>2, <2>3, <3>1, <3>2, <3>3, <3>4 DEF AssuredOf, ReadLabels
  <2>6. CASE Load(g)
    <3>1. pc[g] = "load" /\ next' = [next EXCEPT ![g] = @ + 1]
          /\ pc' = [pc EXCEPT ![g] = "lookup"] /\ chunks' = chunks
      BY <1>2, <2>6 DEF Load, Goto
    <3>2. chunks[g] = m /\ next[g] \in 1 .. ChunkCount[f] + 1 /\ next[g] <= ChunkCount[f]
      BY <2>1, <3>1 DEF AssuredOf, f, m
    <3>3. next'[g] = next[g] + 1 /\ pc'[g] = "lookup"
      BY <1>0, <3>1 DEF LocalsOK
    <3>4. next'[g] \in 1 .. ChunkCount[f] + 1
      BY <2>2, <3>2, <3>3
    <3> QED
      BY <2>3, <3>1, <3>2, <3>3, <3>4 DEF AssuredOf, ReadLabels
  <2> QED
    BY <1>2, <2>4, <2>5, <2>6
<1> QED
  BY <1>1, <1>2, ReadingStep

\* No goroutine is in a call before, or after, the process is started.
LEMMA NobodyReads ==
    ASSUME Shape, Crash \/ Bootstrap, NEW g \in Goroutines
    PROVE  ~Reads(g)'
<1>1. CASE Crash
  BY <1>1, IdleReads DEF Crash, Reads
<1>2. CASE Bootstrap
  <2>1. ~up /\ call' = call
    BY <1>2 DEF Bootstrap, local
  <2>2. call'[g] = Idle
    BY <2>1 DEF Shape, TaskOK
  <2> QED
    BY <2>2, IdleReads DEF Reads
<1> QED
  BY <1>1, <1>2

LEMMA StepAssured == Caution /\ Shape /\ Solid /\ Assured /\ [Next]_vars => Assured'
<1> SUFFICES ASSUME Caution, Shape, Solid, Assured, [Next]_vars, NEW h \in Goroutines, Reads(h)'
             PROVE  AssuredOf(h)'
  BY DEF Assured
<1>1. Reads(h) => AssuredOf(h)
  BY DEF Assured
<1>2. CASE UNCHANGED vars
  BY <1>1, <1>2 DEF vars, disk, local, world, Reads, AssuredOf
<1>3. ASSUME NEW g \in Goroutines, Call(g) \/ Step(g) PROVE AssuredOf(h)'
  BY <1>1, <1>3, OthersAssured, ReaderAssured
<1> QED
  BY <1>2, <1>3, NobodyReads DEF Next

THEOREM AssuredInvariant == ASSUME Caution PROVE Spec => []Assured
<1>1. Init => Assured
  BY IdleReads DEF Init, Assured, Reads
<1>2. Caution /\ Shape /\ Solid /\ Assured /\ [Next]_vars => Assured'
  BY StepAssured
<1> QED
  BY <1>1, <1>2, ShapeInvariant, SolidInvariant, PTL DEF Spec

\* An assured reader returns with what it asked for.
LEMMA ReaderEnds ==
    ASSUME Shape, Solid, NEW g \in Goroutines, Reads(g), AssuredOf(g), Step(g), call'[g] = Idle
    PROVE  Reassembled(g)
<1> DEFINE f == call[g].file
           m == metadata[f]
<1>1. pc[g] \in ReadLabels /\ up /\ f \in stored /\ next[g] \in Nat
  BY DEF AssuredOf, Shape, TaskOK, ReadLabels, LocalsOK
<1>2. Recall(g) \/ Lookup(g) \/ Load(g) \/ ReadEnd(g)
  BY <1>1 DEF Step, ReadLabels, SourceFails, SourceChanged, ChunkBegin, ChunkRefused, ChunkWritten,
     ChunkFails, UndoChunk, UndoDone, MetaMissing, MetaBegin, MetaRefused, MetaWritten, MetaFails,
     SweepChunk, SweepMetadata, SweepFails, SweepDone, RewriteBegin, RewriteRefused,
     RewriteWritten, RewriteFails, RewriteDone
<1>3. /\ ChunkCount[f] \in Nat \ {0} /\ Len(m) = ChunkCount[f] /\ references[f] = m /\ m # Absent
      /\ \A i \in 1 .. ChunkCount[f] :
            /\ m[i].data = <<f, i>> /\ m[i].here /\ storage[m[i].key] = <<f, i>> /\ <<f, i>> # Absent
            /\ registry[m[i].key] = m[i] /\ m[i] # Absent
  <2>1. up /\ f \in stored
    BY <1>1
  <2> HIDE DEF f
  <2> QED
    BY <2>1, StoredFacts
<1>4. call' # call
  <2>1. call[g] # Idle
    BY IdleReads DEF Reads
  <2> QED
    BY <2>1
<1>5. pc[g] # "recall" => chunks[g] = m /\ next[g] \in 1 .. ChunkCount[f] + 1
  BY DEF AssuredOf
<1>6. pc[g] = "load" => next[g] <= ChunkCount[f] /\ found[g] = chunks[g][next[g]]
  BY DEF AssuredOf
<1> HIDE DEF m
<1>7. ~Recall(g)
  BY <1>3, <1>4 DEF Recall
<1>8. ASSUME Lookup(g) PROVE FALSE
  <2>1. pc[g] = "lookup" /\ next[g] <= Len(chunks[g]) /\ registry[chunks[g][next[g]].key] = Absent
    BY <1>4, <1>8 DEF Lookup
  <2>2. chunks[g] = m /\ next[g] \in 1 .. ChunkCount[f]
    BY <1>1, <1>3, <1>5, <2>1
  <2> QED
    BY <1>3, <2>1, <2>2
<1>9. ASSUME Load(g) PROVE FALSE
  <2>1. pc[g] = "load" /\ ~Verified(g)
    BY <1>4, <1>9 DEF Load
  <2>2. chunks[g] = m /\ next[g] \in 1 .. ChunkCount[f] /\ found[g] = m[next[g]]
    BY <1>3, <1>5, <1>6, <2>1
  <2>3. /\ m[next[g]].here /\ storage[m[next[g]].key] = m[next[g]].data
        /\ storage[m[next[g]].key] # Absent
    BY <1>3, <2>2
  <2> QED
    BY <2>1, <2>2, <2>3 DEF Verified
<1>10. ASSUME ReadEnd(g) PROVE Reassembled(g)
  <2>1. chunks[g] = m /\ next[g] = ChunkCount[f] + 1
    <3>1. pc[g] = "lookup" /\ next[g] > Len(chunks[g])
      BY <1>10 DEF ReadEnd
    <3>2. chunks[g] = m /\ next[g] \in 1 .. ChunkCount[f] + 1
      BY <1>5, <3>1
    <3> QED
      BY <1>1, <1>3, <3>1, <3>2
  <2>2. [i \in 1 .. Len(m) |-> m[i].data] = Content(f)
    BY <1>3 DEF Content
  <2> QED
    BY <2>1, <2>2 DEF Reassembled
<1> QED
  BY <1>2, <1>7, <1>8, <1>9, <1>10

\* ReassembleFileFromDisk and CopyFileToPath, which lock the store once per chunk, return
\* a file that was stored when they began, whatever any number of other goroutines store,
\* fail to store and undo, read or clean up of metadata meanwhile.
THEOREM StoredFilesAreRead == ASSUME Caution PROVE Spec => ReadsFindStored
<1>1. ASSUME Shape, Solid, Assured, [Next]_vars, NEW g \in Goroutines,
             call[g].op = "read", call'[g] = Idle, up', ~Reassembled(g)
      PROVE  ~call[g].sure
  <2>1. SUFFICES ASSUME call[g].sure PROVE FALSE
    OBVIOUS
  <2>2. Reads(g) /\ AssuredOf(g)
    BY <1>1, <2>1 DEF Reads, Assured
  <2>3. call'[g].op # "read"
    BY <1>1, IdleReads
  <2>4. ~Crash /\ ~Bootstrap /\ ~UNCHANGED vars
    BY <1>1, <2>3 DEF Crash, Bootstrap, vars, local
  <2>5. PICK h \in Goroutines : Call(h) \/ Step(h)
    BY <1>1, <2>4 DEF Next
  <2>6. h = g
    BY <1>1, <2>3, <2>5, CallOthers, StepOthers DEF OthersStay
  <2>7. ~Call(g)
    <3>1. pc[g] # "idle"
      BY <2>2 DEF AssuredOf, ReadLabels
    <3> QED
      BY <3>1 DEF Call, Store, Read, StoreKey, SweepBegin, Rewrite, Begin
  <2> QED
    BY <1>1, <2>2, <2>5, <2>6, <2>7, ReaderEnds
<1>2. Shape /\ Solid /\ Assured /\ [Next]_vars =>
         [\A g \in Goroutines :
             (call[g].op = "read" /\ call'[g] = Idle /\ up' /\ ~Reassembled(g))
                => ~call[g].sure]_vars
  BY <1>1
<1> QED
  BY <1>2, ShapeInvariant, SolidInvariant, AssuredInvariant, PTL DEF Spec, ReadsFindStored

-----------------------------------------------------------------------------
(* What a restart leaves out.                                              *)

\* No chunk file has the name that belongs to the empty key.
NoKeyUnused == storage[NoKey] = Absent

LEMMA NoKeyUnusedStep == Shape /\ NoKeyUnused /\ [Next]_vars => NoKeyUnused'
<1> SUFFICES ASSUME Shape, NoKeyUnused, [Next]_vars PROVE storage'[NoKey] = Absent
  BY DEF NoKeyUnused
<1>0. NoKey \in Keys /\ storage[NoKey] = Absent /\ storage \in [Keys -> Data \cup {Absent, Cut}]
  BY DEF Keys, NoKeyUnused, Shape, MapsOK
<1>1. CASE storage' = storage
  BY <1>0, <1>1
<1>2. ASSUME NEW k, storage' = [storage EXCEPT ![k] = Absent] PROVE storage'[NoKey] = Absent
  BY <1>0, <1>2
<1>3. ASSUME NEW g \in Goroutines, pc[g] \in {"chunk", "writing"}, NEW v,
             storage' = [storage EXCEPT ![Current(g).key] = v]
      PROVE  storage'[NoKey] = Absent
  <2>1. Current(g).key # NoKey
    <3>1. Current(g).key = Key(call[g].op, call[g].file, next[g])
      BY <1>3, CurrentType
    <3> QED
      BY <3>1 DEF Key, NoKey
  <2> QED
    BY <1>0, <1>3, <2>1
<1>4. CASE Crash
  BY <1>1, <1>3, <1>4 DEF Crash, disk
<1>5. CASE Bootstrap
  <2>1. \E G : storage' = [k \in Keys |-> IF k \in G THEN Absent ELSE storage[k]]
    BY <1>5 DEF Bootstrap
  <2> QED
    BY <1>0, <2>1
<1>6. ASSUME NEW g \in Goroutines, Call(g) PROVE storage' = storage
  BY <1>6 DEF Call, Store, Read, StoreKey, SweepBegin, Rewrite, disk
<1>7. ASSUME NEW g \in Goroutines, Step(g) PROVE storage'[NoKey] = Absent
  <2>1. CASE ChunkBegin(g) \/ ChunkWritten(g) \/ ChunkFails(g)
    BY <1>3, <2>1 DEF ChunkBegin, ChunkWritten, ChunkFails
  <2>2. CASE UndoChunk(g) \/ SweepChunk(g)
    BY <1>1, <1>2, <2>2 DEF UndoChunk, SweepChunk
  <2>3. ChunkBegin(g) \/ ChunkWritten(g) \/ ChunkFails(g) \/ UndoChunk(g) \/ SweepChunk(g)
        \/ storage' = storage
    BY <1>7 DEF Step, SourceFails, SourceChanged, ChunkRefused, UndoDone, MetaMissing, MetaBegin,
       MetaRefused, MetaWritten, MetaFails, Recall, Lookup, Load, ReadEnd, SweepMetadata,
       SweepFails, SweepDone, RewriteBegin, RewriteRefused, RewriteWritten, RewriteFails,
       RewriteDone, disk
  <2> QED
    BY <1>1, <2>1, <2>2, <2>3
<1>8. CASE UNCHANGED vars
  BY <1>1, <1>8 DEF vars, disk
<1> QED
  BY <1>1, <1>4, <1>5, <1>6, <1>7, <1>8 DEF Next

LEMMA NoKeyUnusedInvariant == ASSUME Caution PROVE Spec => []NoKeyUnused
<1>1. Init => NoKeyUnused
  BY DEF Init, NoKeyUnused, Keys
<1>2. Shape /\ NoKeyUnused /\ [Next]_vars => NoKeyUnused'
  BY NoKeyUnusedStep
<1> QED
  BY <1>1, <1>2, ShapeInvariant, PTL DEF Spec

\* The keys that metadata names are its file's, or the empty one.
LEMMA KeysNamed ==
    ASSUME Shape, NEW f \in Decoded, NEW k \in KeysOf(metadata[f])
    PROVE  f \in Files /\ k \in Keys /\ k \in {NoKey} \cup OwnKeys(f)
<1>1. f \in Files /\ metadata[f] \in Seq(ChunkOf(f))
  BY DEF Decoded, Shape, MapsOK
<1>2. PICK i \in 1 .. Len(metadata[f]) : k = metadata[f][i].key
  BY DEF KeysOf
<1>3. metadata[f][i] \in ChunkOf(f)
  BY <1>1, <1>2, ElementOfSeq
<1> QED
  BY <1>1, <1>2, <1>3 DEF ChunkOf, ChunkType, OwnKeys

\* A chunk that known metadata names is registered.
LEMMA RestoredKnown ==
    ASSUME Shape, NEW known \in SUBSET Decoded, NEW f \in known, NEW k \in KeysOf(metadata[f])
    PROVE  Restored(known)[k] # Absent
<1> DEFINE h   == CHOOSE x \in known : k \in KeysOf(metadata[x])
           ref == metadata[h]
           T   == {i \in 1 .. Len(ref) : ref[i].key = k}
<1>1. h \in known /\ k \in KeysOf(ref)
  OBVIOUS
<1>2. k \in Keys
  BY KeysNamed
<1>3. Restored(known)[k] = ref[Max(T)]
  BY <1>2 DEF Restored
<1> HIDE DEF h
<1>4. ref \in Seq(ChunkOf(h))
  BY <1>1 DEF Decoded, Shape, MapsOK
<1> HIDE DEF ref
<1>5. Len(ref) \in Nat /\ T \in SUBSET (1 .. Len(ref)) /\ T # {}
  BY <1>1, <1>4, LenProperties DEF KeysOf
<1>6. Max(T) \in T
  BY <1>5, LastPosition
<1>7. ref[Max(T)] \in ChunkOf(h)
  BY <1>4, <1>6, ElementOfSeq
<1> QED
  BY <1>3, <1>7, TokensAssumption DEF ChunkOf

\* When BootstrapKeyStore starts the store and nothing fails, it leaves no reference with a
\* chunk whose file is missing: identifyOrphans finds every one of them, moving a file's
\* chunks away takes none from another file, and each chunk that is left is registered.
THEOREM RestartLeavesNoOrphans == ASSUME Caution PROVE Spec => NoOrphansLeft
<1>1. ASSUME Shape, NoKeyUnused, [Next]_vars, ~up, up', faults' = faults,
             NEW f \in Files, references'[f] # Absent, NEW k \in KeysOf(references'[f])
      PROVE  registry'[k] # Absent /\ storage'[k] # Absent
  <2> DEFINE gone == UNION {KeysOf(metadata[x]) : x \in Orphans}
  <2>1. Bootstrap
    <3>1. ASSUME NEW g \in Goroutines, Call(g) \/ Step(g) PROVE FALSE
      <4>1. Step(g) => pc[g] # "idle"
        BY DEF Step, SourceFails, SourceChanged, ChunkBegin, ChunkRefused, ChunkWritten,
           ChunkFails, UndoChunk, UndoDone, MetaMissing, MetaBegin, MetaRefused, MetaWritten,
           MetaFails, Recall, Lookup, Load, ReadEnd, SweepChunk, SweepMetadata, SweepFails,
           SweepDone, RewriteBegin, RewriteRefused, RewriteWritten, RewriteFails, RewriteDone
      <4>2. Call(g) => up
        BY DEF Call, Store, Read, StoreKey, SweepBegin, Rewrite, Begin
      <4> QED
        BY <1>1, <3>1, <4>1, <4>2 DEF Shape, TaskOK
    <3>2. ~Crash /\ ~UNCHANGED vars
      BY <1>1 DEF Crash, vars, world
    <3> QED
      BY <1>1, <3>1, <3>2 DEF Next
  <2>2. ~Fault
    BY <1>1 DEF Fault, Shape, MapsOK
  <2>3. /\ references' = [x \in Files |-> IF x \in Decoded \ Orphans THEN metadata[x] ELSE Absent]
        /\ registry' = Restored(Decoded \ Orphans)
        /\ storage' = [j \in Keys |-> IF j \in gone THEN Absent ELSE storage[j]]
    <3>1. PICK kept \in SUBSET Orphans, stuck \in SUBSET Keys, stay \in SUBSET Orphans :
            LET moved == Orphans \ kept
                lost  == UNION {KeysOf(metadata[x]) : x \in moved}
                known == Decoded \ moved
            IN  /\ stuck \subseteq {j \in lost : storage[j] # Absent} /\ stay \subseteq moved
                /\ \/ kept \cup stay \cup stuck = {} /\ UNCHANGED faults
                   \/ /\ \/ Cardinality(kept) + Cardinality(stay) + Cardinality(stuck) = 1
                         \/ kept = Orphans /\ kept # {}
                      /\ Fault
                /\ references' = [x \in Files |-> IF x \in known THEN metadata[x] ELSE Absent]
                /\ registry' = Restored(known)
                /\ storage' = [j \in Keys |-> IF j \in lost \ stuck THEN Absent ELSE storage[j]]
                /\ metadata' = [x \in Files |-> IF x \in moved \ stay THEN Absent ELSE metadata[x]]
      BY <2>1 DEF Bootstrap
    <3>2. kept = {} /\ stuck = {} /\ Orphans \ kept = Orphans
      BY <2>2, <3>1
    <3> QED
      BY <3>1, <3>2
  <2>4. f \in Decoded \ Orphans /\ references'[f] = metadata[f]
    BY <1>1, <2>3
  <2>5. k \in KeysOf(metadata[f]) /\ k \in Keys /\ k \in {NoKey} \cup OwnKeys(f)
    BY <1>1, <2>4, KeysNamed
  <2>6. storage[k] # Absent
    BY <2>4, <2>5 DEF Orphans
  <2>7. k \in OwnKeys(f)
    BY <1>1, <2>5, <2>6 DEF NoKeyUnused
  <2>8. k \notin gone
    <3>1. ASSUME NEW x \in Orphans, k \in KeysOf(metadata[x]) PROVE FALSE
      <4>1. x \in Decoded /\ x # f
        BY <2>4, <3>1 DEF Orphans
      <4>2. k \in {NoKey} \cup OwnKeys(x)
        BY <1>1, <3>1, <4>1, KeysNamed
      <4> QED
        BY <2>7, <4>1, <4>2, OwnKeysApart
    <3> QED
      BY <3>1
  <2>9. storage'[k] # Absent
    BY <2>3, <2>5, <2>6, <2>8
  <2>10. registry'[k] # Absent
    <3>1. Decoded \ Orphans \in SUBSET Decoded
      OBVIOUS
    <3> QED
      BY <1>1, <2>3, <2>4, <2>5, <3>1, RestoredKnown
  <2> QED
    BY <2>9, <2>10
<1>2. Shape /\ NoKeyUnused /\ [Next]_vars =>
         [(~up /\ up' /\ faults' = faults) =>
             \A f \in Files : references'[f] # Absent =>
                \A k \in KeysOf(references'[f]) :
                   registry'[k] # Absent /\ storage'[k] # Absent]_vars
  BY <1>1
<1> QED
  BY <1>2, ShapeInvariant, NoKeyUnusedInvariant, PTL DEF Spec, NoOrphansLeft

-----------------------------------------------------------------------------
(* Taking back what a failed call has stored.                              *)

\* Nothing but the first failure goes wrong: one operation fails, and no cleanup comes
\* between the chunks of a file.
Undisturbed ==
    /\ MaxFaults <= 1
    /\ \/ \A g \in Goroutines, h \in Goroutines : g = h
       \/ Sweeps = {}

\* What a goroutine has stored is there, but for what it has taken back already.
Kept(g) ==
    LET f   == call[g].file
        how == call[g].op
    IN  /\ \A i \in 1 .. Len(chunks[g]) : pc[g] # "undo" \/ i >= next[g] =>
              registry[Key(how, f, i)] = Piece(how, f, i) /\ storage[Key(how, f, i)] = <<f, i>>
        /\ pc[g] = "undo" => faults = 0
        /\ \A i \in 1 .. Len(chunks[g]) : pc[g] = "undo" /\ i < next[g] =>
              registry[Key(how, f, i)] = Absent /\ storage[Key(how, f, i)] = Absent

Undoable ==
    /\ faults \in {0, 1}
    /\ \A g \in Goroutines : Storing(g) => Kept(g)

LEMMA FaultsStep ==
    ASSUME NEW g \in Goroutines, Call(g) \/ Step(g)
    PROVE  faults' = faults \/ Fault
<1>1. CASE Call(g)
  BY <1>1 DEF Call, Store, Read, StoreKey, SweepBegin, Rewrite, world
<1>2. CASE Step(g)
  BY <1>2 DEF Step, SourceFails, SourceChanged, ChunkBegin, ChunkRefused, ChunkWritten,
     ChunkFails, UndoChunk, UndoDone, MetaMissing, MetaBegin, MetaRefused, MetaWritten, MetaFails,
     Recall, Lookup, Load, ReadEnd, SweepChunk, SweepMetadata, SweepFails, SweepDone,
     RewriteBegin, RewriteRefused, RewriteWritten, RewriteFails, RewriteDone, world
<1> QED
  BY <1>1, <1>2

LEMMA FewFaults == Undoable /\ (faults' = faults \/ Fault) =>
                      faults' \in {0, 1} /\ (faults = 0 => faults' = 0) /\ (Fault => faults' = 0)
BY DEF Undoable, Fault

\* A goroutine that does not clean up leaves the chunks of other goroutines' files alone.
LEMMA OthersKeys ==
    ASSUME Caution, Shape, Solid, NEW g \in Goroutines, Call(g) \/ Step(g), pc[g] # "cleaning",
           NEW h \in Goroutines, h # g, Storing(h), NEW k \in OwnKeys(call[h].file)
    PROVE  registry'[k] = registry[k] /\ storage'[k] = storage[k]
<1>0. k \in Keys /\ k \notin NetKeys
  <2>1. call[h].file \in Files
    BY PartialFacts
  <2> QED
    BY <2>1, TokensAssumption DEF OwnKeys
<1>1. CASE UNCHANGED <<registry, storage>>
  BY <1>1
<1>2. ASSUME Storing(g), NEW j \in OwnKeys(call[g].file), NEW v, NEW w,
             storage' = storage \/ storage' = [storage EXCEPT ![j] = v],
             registry' = registry \/ registry' = [registry EXCEPT ![j] = w]
      PROVE  registry'[k] = registry[k] /\ storage'[k] = storage[k]
  <2>1. call[g].file # call[h].file
    BY <1>2 DEF Solid, Exclusive
  <2>2. j # k
    BY <1>2, <2>1, OwnKeysApart
  <2> QED
    BY <1>0, <1>2, <2>2 DEF Shape, MapsOK
<1>3. CASE ChunkBegin(g) \/ ChunkWritten(g) \/ ChunkFails(g)
  <2>1. pc[g] \in {"chunk", "writing"} /\ Storing(g)
    BY <1>3 DEF ChunkBegin, ChunkWritten, ChunkFails, Storing
  <2>2. Current(g).key \in OwnKeys(call[g].file)
    BY <2>1, CurrentOwn
  <2>3. \E v : storage' = [storage EXCEPT ![Current(g).key] = v]
    BY <1>3 DEF ChunkBegin, ChunkWritten, ChunkFails
  <2>4. registry' = registry \/ \E w : registry' = [registry EXCEPT ![Current(g).key] = w]
    BY <1>3 DEF ChunkBegin, ChunkWritten, ChunkFails, memory
  <2> QED
    BY <1>2, <2>1, <2>2, <2>3, <2>4
<1>4. CASE UndoChunk(g)
  <2>1. Storing(g) /\ next[g] \in Nat /\ next[g] >= 1 /\ next[g] <= Len(chunks[g])
        /\ Len(chunks[g]) \in Nat
    BY <1>4, PartialFacts DEF UndoChunk, Storing, Shape, TaskOK
  <2>2. next[g] \in 1 .. Len(chunks[g])
    BY <2>1
  <2>3. chunks[g][next[g]].key \in OwnKeys(call[g].file)
    BY <2>1, <2>2, PartialFacts
  <2> DEFINE j == chunks[g][next[g]].key
  <2>4. \/ UNCHANGED <<registry, storage>>
        \/ storage' = [storage EXCEPT ![j] = Absent] /\ registry' = [registry EXCEPT ![j] = Absent]
    BY <1>4 DEF UndoChunk
  <2> HIDE DEF j
  <2>5. j \in OwnKeys(call[g].file)
    BY <2>3 DEF j
  <2> QED
    BY <1>2, <2>1, <2>4, <2>5
<1>5. ASSUME NEW j \in NetKeys, StoreKey(g, j)
      PROVE  registry'[k] = registry[k] /\ storage'[k] = storage[k]
  BY <1>0, <1>5 DEF StoreKey, Shape, MapsOK, disk
<1>6. CASE Call(g)
  BY <1>1, <1>5, <1>6 DEF Call, Store, Read, SweepBegin, Rewrite, memory, disk
<1>7. CASE Step(g)
  BY <1>1, <1>3, <1>4, <1>7 DEF Step, SourceFails, SourceChanged, ChunkRefused, UndoDone,
     MetaMissing, MetaBegin, MetaRefused, MetaWritten, MetaFails, Recall, Lookup, Load, ReadEnd,
     SweepChunk, SweepMetadata, SweepFails, SweepDone, RewriteBegin, RewriteRefused,
     RewriteWritten, RewriteFails, RewriteDone, memory, disk
<1> QED
  BY <1>6, <1>7

LEMMA OthersUndoable ==
    ASSUME Caution, Undisturbed, Shape, Solid, Undoable, NEW g \in Goroutines, Call(g) \/ Step(g),
           NEW h \in Goroutines, h # g, Storing(h)'
    PROVE  Kept(h)'
<1>1. /\ pc'[h] = pc[h] /\ chunks'[h] = chunks[h] /\ next'[h] = next[h]
      /\ call'[h].op = call[h].op /\ call'[h].file = call[h].file
  BY CallOthers, StepOthers DEF OthersStay
<1>2. Storing(h) /\ Kept(h)
  BY <1>1 DEF Storing, Undoable
<1>3. pc[g] # "cleaning"
  BY DEF Undisturbed, Shape, TaskOK
<1>4. faults = 0 => faults' = 0
  BY FaultsStep, FewFaults
<1> DEFINE f == call[h].file
           how == call[h].op
<1>5. ASSUME NEW i \in 1 .. Len(chunks[h])
      PROVE  /\ registry'[Key(how, f, i)] = registry[Key(how, f, i)]
             /\ storage'[Key(how, f, i)] = storage[Key(how, f, i)]
  <2>1. Key(how, f, i) \in OwnKeys(f)
    BY <1>2, PartialFacts
  <2> QED
    BY <1>2, <1>3, <2>1, OthersKeys
<1>6. call'[h].file = f /\ call'[h].op = how
  BY <1>1
<1> QED
  BY <1>1, <1>2, <1>4, <1>5, <1>6 DEF Kept

\* The first failure: all that the call has stored is still there.
LEMMA UndoBegins ==
    ASSUME Caution, Undisturbed, Shape, Solid, Undoable, NEW g \in Goroutines,
           \/ SourceChanged(g) \/ ChunkRefused(g) \/ ChunkFails(g) \/ MetaRefused(g) \/ MetaFails(g)
    PROVE  Kept(g)'
<1>1. /\ pc[g] \in {"chunk", "writing", "meta", "encoding"} /\ StartUndo(g) /\ Fault
      /\ registry' = registry
      /\ \/ storage' = storage
         \/ pc[g] = "writing" /\ \E v : storage' = [storage EXCEPT ![Current(g).key] = v]
  BY DEF SourceChanged, ChunkRefused, ChunkFails, MetaRefused, MetaFails, memory, disk
<1>2. Storing(g) /\ Kept(g) /\ pc[g] # "undo"
  BY <1>1 DEF Storing, Undoable
<1>3. pc'[g] = "undo" /\ next'[g] = 1 /\ UNCHANGED <<call, chunks>>
  BY <1>1 DEF StartUndo, Goto, Shape, LocalsOK
<1>4. faults' = 0
  BY <1>1, FewFaults
<1> DEFINE f == call[g].file
           how == call[g].op
<1>5. ASSUME NEW i \in 1 .. Len(chunks[g])
      PROVE  storage'[Key(how, f, i)] = storage[Key(how, f, i)]
  <2>1. Key(how, f, i) \in Keys /\ storage \in [Keys -> Data \cup {Absent, Cut}]
    BY <1>2, PartialFacts DEF OwnKeys, Shape, MapsOK
  <2>2. pc[g] = "writing" => Current(g).key # Key(how, f, i)
    BY CurrentOwn
  <2> QED
    BY <1>1, <2>1, <2>2
<1>6. Len(chunks[g]) \in Nat
  BY <1>2, PartialFacts
<1>7. \A i \in 1 .. Len(chunks[g]) : ~(i < 1)
  BY <1>6
<1>8. call'[g].file = f /\ call'[g].op = how /\ chunks'[g] = chunks[g]
  BY <1>3
<1>9. \A i \in 1 .. Len(chunks[g]) :
         registry[Key(how, f, i)] = Piece(how, f, i) /\ storage[Key(how, f, i)] = <<f, i>>
  BY <1>2 DEF Kept
<1> HIDE DEF f, how
<1> QED
  BY <1>1, <1>3, <1>4, <1>5, <1>7, <1>8, <1>9 DEF Kept

\* Nobody has removed a chunk of the file when its reference is made.
LEMMA NoneMissing ==
    ASSUME Caution, Shape, Solid, Undoable, NEW g \in Goroutines, pc[g] = "meta"
    PROVE  Registered(g)
<1>1. Storing(g) /\ Kept(g)
  BY DEF Storing, Undoable
<1>2. ASSUME NEW i \in 1 .. Len(chunks[g]) PROVE registry[chunks[g][i].key] # Absent
  <2>1. /\ chunks[g][i].key = Key(call[g].op, call[g].file, i)
        /\ chunks[g][i] = Piece(call[g].op, call[g].file, i) /\ chunks[g] \in Seq(ChunkType)
    BY <1>1, PartialFacts
  <2>2. registry[Key(call[g].op, call[g].file, i)] = Piece(call[g].op, call[g].file, i)
    BY <1>1 DEF Kept
  <2>3. chunks[g][i] \in ChunkType
    BY <2>1, ElementOfSeq
  <2> QED
    BY <2>1, <2>2, <2>3, TokensAssumption
<1> QED
  BY <1>2 DEF Registered

LEMMA ChunkUndoable ==
    ASSUME Caution, Shape, Solid, Undoable, NEW g \in Goroutines,
           ChunkBegin(g) \/ ChunkWritten(g)
    PROVE  Kept(g)'
<1> DEFINE f == call[g].file
           how == call[g].op
           n == Len(chunks[g])
           c == Current(g)
<1>1. pc[g] \in {"chunk", "writing"} /\ Storing(g) /\ Kept(g) /\ pc[g] # "undo"
  BY DEF ChunkBegin, ChunkWritten, Storing, Undoable
<1>2. /\ next[g] = n + 1 /\ next[g] \in 1 .. ChunkCount[f] /\ c.key \in Keys
      /\ \A i \in 1 .. n : Key(how, f, i) # c.key
  BY <1>1, CurrentOwn DEF OwnKeys
<1>3. n \in Nat /\ chunks[g] \in Seq(ChunkType) /\ \A i \in 1 .. n : Key(how, f, i) \in Keys
  BY <1>1, PartialFacts DEF OwnKeys
<1>4. c = Piece(how, f, next[g]) /\ c \in ChunkType
      /\ c.key = Key(how, f, next[g]) /\ c.data = <<f, next[g]>>
  BY <1>1, CurrentType
<1>5. \A i \in 1 .. n :
         registry[Key(how, f, i)] = Piece(how, f, i) /\ storage[Key(how, f, i)] = <<f, i>>
  BY <1>1 DEF Kept
<1>6. LocalsOK /\ DOMAIN registry = Keys /\ storage \in [Keys -> Data \cup {Absent, Cut}]
  BY DEF Shape, MapsOK
<1> HIDE DEF c, n
<1>7. CASE ChunkBegin(g)
  <2>1. storage' = [storage EXCEPT ![c.key] = Cut] /\ registry' = registry
        /\ pc'[g] = "writing" /\ chunks' = chunks /\ call' = call
    BY <1>6, <1>7 DEF ChunkBegin, Goto, LocalsOK, memory, local, c
  <2>2. \A i \in 1 .. n : storage'[Key(how, f, i)] = storage[Key(how, f, i)]
    BY <1>2, <1>3, <1>6, <2>1
  <2>3. Len(chunks'[g]) = n /\ call'[g].file = f /\ call'[g].op = how
    BY <2>1 DEF n
  <2> HIDE DEF f, how
  <2> QED
    BY <1>5, <2>1, <2>2, <2>3 DEF Kept
<1>8. CASE ChunkWritten(g)
  <2>1. /\ storage' = [storage EXCEPT ![c.key] = c.data]
        /\ registry' = [registry EXCEPT ![c.key] = c]
        /\ chunks'[g] = Append(chunks[g], c) /\ call' = call
    BY <1>6, <1>8 DEF ChunkWritten, LocalsOK, c
  <2>2. pc'[g] # "undo"
    <3>1. pc' = [pc EXCEPT ![g] = IF next[g] = ChunkCount[f] THEN "meta" ELSE "chunk"]
      BY <1>8 DEF ChunkWritten, Goto
    <3> QED
      BY <1>6, <3>1 DEF LocalsOK
  <2>3. Len(chunks'[g]) = n + 1
    BY <1>3, <1>4, <2>1, AppendProperties DEF n
  <2>4. ASSUME NEW i \in 1 .. n + 1
        PROVE  registry'[Key(how, f, i)] = Piece(how, f, i) /\ storage'[Key(how, f, i)] = <<f, i>>
    <3>1. CASE i = n + 1
      BY <1>2, <1>4, <1>6, <2>1, <3>1
    <3>2. CASE i \in 1 .. n
      BY <1>2, <1>3, <1>5, <1>6, <2>1, <3>2
    <3> QED
      BY <1>3, <3>1, <3>2
  <2>5. call'[g].file = f /\ call'[g].op = how
    BY <2>1
  <2> HIDE DEF f, how
  <2> QED
    BY <2>2, <2>3, <2>4, <2>5 DEF Kept
<1> QED
  BY <1>7, <1>8

\* A chunk that is taken back is one that is there.
LEMMA UndoChunkUndoable ==
    ASSUME Caution, Shape, Solid, Undoable, NEW g \in Goroutines, UndoChunk(g)
    PROVE  Kept(g)'
<1> DEFINE f == call[g].file
           how == call[g].op
           n == Len(chunks[g])
           i0 == next[g]
           k == Key(how, f, i0)
<1>1. pc[g] = "undo" /\ Storing(g) /\ Kept(g) /\ faults = 0 /\ ~Fault
  <2>1. pc[g] = "undo" /\ Storing(g)
    BY DEF UndoChunk, Storing
  <2>2. Kept(g)
    BY <2>1 DEF Undoable
  <2>3. faults = 0
    BY <2>1, <2>2 DEF Kept
  <2> QED
    BY <2>1, <2>2, <2>3 DEF Fault
<1>2. /\ n \in Nat /\ i0 \in 1 .. n /\ f \in Files /\ <<how, f>> \in Uploads
      /\ ChunkCount[f] \in Nat /\ n <= ChunkCount[f]
      /\ \A i \in 1 .. n : Key(how, f, i) \in Keys /\ chunks[g][i].key = Key(how, f, i)
  <2>1. i0 \in Nat /\ i0 >= 1 /\ i0 <= n /\ n \in Nat
    BY <1>1, PartialFacts DEF UndoChunk, Shape, TaskOK
  <2> QED
    BY <1>1, <2>1, PartialFacts DEF OwnKeys
<1>3. registry[k] = Piece(how, f, i0) /\ storage[k] = <<f, i0>>
  <2>1. i0 >= next[g]
    BY <1>2
  <2> QED
    BY <1>1, <1>2, <2>1 DEF Kept
<1>4. CanRemove(k)
  <2>1. i0 \in 1 .. ChunkCount[f]
    BY <1>2
  <2>2. Piece(how, f, i0) \in ChunkType /\ Piece(how, f, i0).here
    BY <1>2, <2>1, PieceType DEF ChunkOf
  <2>3. <<f, i0>> # Absent
    BY <1>2, <2>1, TokensAssumption DEF Data
  <2> QED
    BY <1>3, <2>2, <2>3, TokensAssumption DEF CanRemove
<1>5. /\ storage' = [storage EXCEPT ![k] = Absent] /\ registry' = [registry EXCEPT ![k] = Absent]
      /\ next' = [next EXCEPT ![g] = @ + 1] /\ faults' = faults
      /\ UNCHANGED <<pc, call, chunks>>
  <2>1. chunks[g][next[g]].key = k
    BY <1>2
  <2> HIDE DEF k
  <2> QED
    BY <1>1, <1>4, <2>1 DEF UndoChunk
<1>6. \A i \in 1 .. n : i # i0 => Key(how, f, i) # k
  <2>1. \A i \in 1 .. n : i \in 1 .. ChunkCount[f]
    BY <1>2
  <2> QED
    BY <1>2, <2>1, KeysOwn
<1>7. k \in Keys /\ DOMAIN registry = Keys /\ storage \in [Keys -> Data \cup {Absent, Cut}]
      /\ next'[g] = i0 + 1
  BY <1>2, <1>5 DEF Shape, MapsOK, LocalsOK
<1>8. \A i \in 1 .. n : i # i0 =>
         registry'[Key(how, f, i)] = registry[Key(how, f, i)]
         /\ storage'[Key(how, f, i)] = storage[Key(how, f, i)]
  BY <1>2, <1>5, <1>6, <1>7
<1>9. registry'[k] = Absent /\ storage'[k] = Absent
  BY <1>5, <1>7
<1>10. ASSUME NEW i \in 1 .. n, i >= i0 + 1
       PROVE  registry'[Key(how, f, i)] = Piece(how, f, i) /\ storage'[Key(how, f, i)] = <<f, i>>
  <2>1. i >= next[g] /\ i # i0
    BY <1>2, <1>10
  <2>2. registry[Key(how, f, i)] = Piece(how, f, i) /\ storage[Key(how, f, i)] = <<f, i>>
    BY <1>1, <2>1 DEF Kept
  <2> QED
    BY <1>8, <2>1, <2>2
<1>11. ASSUME NEW i \in 1 .. n, i < i0 + 1
       PROVE  registry'[Key(how, f, i)] = Absent /\ storage'[Key(how, f, i)] = Absent
  <2>1. CASE i = i0
    BY <1>9, <2>1
  <2>2. CASE i # i0
    <3>1. i < next[g]
      BY <1>2, <1>11, <2>2
    <3>2. registry[Key(how, f, i)] = Absent /\ storage[Key(how, f, i)] = Absent
      BY <1>1, <3>1 DEF Kept
    <3> QED
      BY <1>8, <2>2, <3>2
  <2> QED
    BY <2>1, <2>2
<1>12. /\ pc'[g] = "undo" /\ call'[g].file = f /\ call'[g].op = how /\ Len(chunks'[g]) = n
       /\ faults' = 0
  BY <1>1, <1>5
<1> HIDE DEF f, how, n, i0, k
<1> QED
  BY <1>7, <1>10, <1>11, <1>12 DEF Kept

LEMMA OwnUndoable ==
    ASSUME Caution, Undisturbed, Shape, Solid, Undoable, NEW g \in Goroutines, Call(g) \/ Step(g),
           Storing(g)'
    PROVE  Kept(g)'
<1>0. LocalsOK
  BY DEF Shape
<1>1. CASE Call(g)
  <2>1. PICK u \in Uploads : Store(g, u[1], u[2])
    <3>1. ASSUME NEW k \in NetKeys, StoreKey(g, k) PROVE FALSE
      BY <3>1 DEF StoreKey, Storing
    <3>2. \A op, f : ~Begin(g, op, f, "recall") /\ ~Begin(g, op, f, "cleaning")
                     /\ ~Begin(g, op, f, "rewrite")
      BY <1>0 DEF Begin, Goto, Storing, LocalsOK
    <3> QED
      BY <1>1, <3>1, <3>2 DEF Call, Read, SweepBegin, Rewrite
  <2>2. pc[g] = "idle" /\ chunks' = chunks /\ pc'[g] = "chunk"
    BY <1>0, <2>1 DEF Store, Begin, Goto, LocalsOK
  <2>3. chunks'[g] = <<>>
    BY <2>2 DEF Shape, TaskOK
  <2>4. Len(chunks'[g]) = 0
    BY <2>3
  <2> QED
    BY <2>2, <2>4 DEF Kept
<1>2. CASE Step(g)
  <2>1. ~Return(g)
    BY <1>0 DEF Return, Goto, Storing, LocalsOK
  <2>2. pc[g] \notin {"recall", "lookup", "load", "cleaning", "rewrite", "rewriting"}
    BY <1>0, <1>2, <2>1 DEF Step, Recall, Lookup, Load, ReadEnd, SweepChunk, SweepMetadata,
       SweepFails, SweepDone, RewriteBegin, RewriteRefused, RewriteWritten, RewriteFails,
       RewriteDone, Goto, Storing, LocalsOK, SourceFails, SourceChanged, ChunkBegin, ChunkRefused,
       ChunkWritten, ChunkFails, UndoChunk, UndoDone, MetaMissing, MetaBegin, MetaRefused,
       MetaWritten, MetaFails
  <2>3. ~MetaMissing(g)
    BY NoneMissing DEF MetaMissing
  <2>4. ASSUME MetaBegin(g) PROVE Kept(g)'
    <3>1. UNCHANGED <<registry, storage, call, chunks>> /\ pc[g] = "meta" /\ pc'[g] = "encoding"
      BY <1>0, <2>4 DEF MetaBegin, Goto, LocalsOK, local
    <3>2. Kept(g)
      BY <3>1 DEF Storing, Undoable
    <3> QED
      BY <3>1, <3>2 DEF Kept
  <2>5. \/ SourceChanged(g) \/ ChunkRefused(g) \/ ChunkFails(g) \/ MetaRefused(g) \/ MetaFails(g)
        \/ ChunkBegin(g) \/ ChunkWritten(g) \/ UndoChunk(g) \/ MetaBegin(g)
    BY <1>2, <2>1, <2>2, <2>3 DEF Step, SourceFails, UndoDone, MetaWritten, Recall, Lookup, Load,
       ReadEnd, SweepChunk, SweepMetadata, SweepFails, SweepDone, RewriteBegin, RewriteRefused,
       RewriteWritten, RewriteFails, RewriteDone
  <2> QED
    BY <2>4, <2>5, UndoBegins, ChunkUndoable, UndoChunkUndoable
<1> QED
  BY <1>1, <1>2

LEMMA StepUndoable ==
    Caution /\ Undisturbed /\ Shape /\ Solid /\ Undoable /\ [Next]_vars => Undoable'
<1> SUFFICES ASSUME Caution, Undisturbed, Shape, Solid, Undoable, [Next]_vars PROVE Undoable'
  OBVIOUS
<1>1. CASE UNCHANGED vars
  BY <1>1 DEF vars, memory, disk, local, world, Undoable, Storing, Kept
<1>2. CASE Crash \/ Bootstrap
  <2>1. \A g \in Goroutines : pc'[g] = "idle"
    BY <1>2 DEF Crash, Bootstrap, local, Shape, TaskOK
  <2>2. faults' = faults \/ Fault
    BY <1>2 DEF Crash, Bootstrap
  <2> QED
    BY <2>1, <2>2, FewFaults DEF Undoable, Storing
<1>3. ASSUME NEW g \in Goroutines, Call(g) \/ Step(g) PROVE Undoable'
  <2>1. \A h \in Goroutines : Storing(h)' => Kept(h)'
    BY <1>3, OthersUndoable, OwnUndoable
  <2>2. faults' \in {0, 1}
    BY <1>3, FaultsStep, FewFaults
  <2> QED
    BY <2>1, <2>2 DEF Undoable
<1> QED
  BY <1>1, <1>2, <1>3 DEF Next

THEOREM UndoableInvariant == ASSUME Caution, Undisturbed PROVE Spec => []Undoable
<1>1. Init => Undoable
  <2>1. MaxFaults \in {0, 1}
    BY BoundsAssumption DEF Undisturbed
  <2> QED
    BY <2>1 DEF Init, Undoable, Storing
<1>2. Shape /\ Solid /\ Undoable /\ [Next]_vars => Undoable'
  BY StepUndoable
<1> QED
  BY <1>1, <1>2, ShapeInvariant, SolidInvariant, PTL DEF Spec

\* Where one operation fails, a call that cannot store a file has taken back all the chunks
\* it had stored when it returns, from disk and from the registry, whatever other goroutines
\* store, fail to store and read in the meantime.
THEOREM FailedStoresAreUndone == ASSUME Caution, Undisturbed PROVE Spec => FailedStoreUndone
<1>1. ASSUME Shape, Solid, Undoable, [Next]_vars, NEW g \in Goroutines,
             pc[g] = "undo", pc'[g] = "idle", up', NEW i \in 1 .. Len(chunks[g])
      PROVE  registry'[chunks[g][i].key] = Absent /\ storage'[chunks[g][i].key] = Absent
  <2>1. up /\ LocalsOK
    BY <1>1 DEF Shape, TaskOK
  <2>2. PICK h \in Goroutines : Call(h) \/ Step(h)
    BY <1>1, <2>1 DEF Next, Crash, Bootstrap, vars
  <2>3. h = g
    BY <1>1, <2>2, CallOthers, StepOthers DEF OthersStay
  <2>4. UndoDone(g)
    <3>1. ~Call(g)
      BY <1>1 DEF Call, Store, Read, StoreKey, SweepBegin, Rewrite, Begin
    <3>2. ~UndoChunk(g)
      BY <1>1 DEF UndoChunk
    <3> QED
      BY <1>1, <2>2, <2>3, <3>1, <3>2 DEF Step, SourceFails, SourceChanged, ChunkBegin,
         ChunkRefused, ChunkWritten, ChunkFails, MetaMissing, MetaBegin, MetaRefused, MetaWritten,
         MetaFails, Recall, Lookup, Load, ReadEnd, SweepChunk, SweepMetadata, SweepFails,
         SweepDone, RewriteBegin, RewriteRefused, RewriteWritten, RewriteFails, RewriteDone
  <2>5. Storing(g) /\ Kept(g)
    BY <1>1 DEF Storing, Undoable
  <2>6. i < next[g]
    <3>1. next[g] \in Nat /\ Len(chunks[g]) \in Nat
      BY <2>5, PartialFacts, <1>1
    <3> QED
      BY <2>4, <3>1 DEF UndoDone
  <2>7. chunks[g][i].key = Key(call[g].op, call[g].file, i)
    BY <1>1, <2>5, PartialFacts
  <2>8. registry[chunks[g][i].key] = Absent /\ storage[chunks[g][i].key] = Absent
    BY <1>1, <2>5, <2>6, <2>7 DEF Kept
  <2> QED
    BY <2>4, <2>8 DEF UndoDone, memory, disk
<1>2. Shape /\ Solid /\ Undoable /\ [Next]_vars =>
         [\A g \in Goroutines :
             (pc[g] = "undo" /\ pc'[g] = "idle" /\ up')
                => \A i \in 1 .. Len(chunks[g]) :
                      registry'[chunks[g][i].key] = Absent
                      /\ storage'[chunks[g][i].key] = Absent]_vars
  BY <1>1
<1> QED
  BY <1>2, ShapeInvariant, SolidInvariant, UndoableInvariant, PTL DEF Spec, FailedStoreUndone

=============================================================================
