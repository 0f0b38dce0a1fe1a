------------------------------ MODULE KeyStore ------------------------------
(***************************************************************************)
(* The store that keeps files in chunks on disk (src/storage/key_store).    *)
(*                                                                         *)
(* In memory, references maps the hash of a file to the list of its chunks  *)
(* and registry maps the key of a chunk to where it is.  On disk there is a *)
(* file for every chunk and a metadata file for every reference.  ks.lock   *)
(* is taken once per chunk and once for the metadata, never for a whole     *)
(* file; reading a chunk file takes no lock.  Writing, moving and removing  *)
(* a file may fail, reading one that is there does not; the process may die *)
(* between any two steps, and BootstrapKeyStore starts it again.            *)
(*                                                                         *)
(* A file is its own hash and <<f, i>> is the data of its i-th chunk, as    *)
(* well as the hash of that data.                                           *)
(***************************************************************************)
EXTENDS Naturals, Sequences, FiniteSets, FiniteSetsExt

CONSTANTS
    Files,          \* the files there are, told apart by their hashes
    ChunkCount,     \* metadata.TotalChunks of each
    KeyWrap,        \* 256: the indices WriteFileToDisk tells apart in a key
    Uploads,        \* the calls that store: <<"load" or "write", file>>
    NetKeys,        \* the keys StoreKey is called with
    Sweeps,         \* the calls that clean up: "all", ".kdht", ".toml"
    Rewriting,      \* whether WriteAllReferencesToDisk is called
    Again,          \* whether a file is stored while it is stored already
    Goroutines,     \* the goroutines that call into the store
    MaxFaults,      \* bound: the disk operations that fail
    MaxCrashes,     \* bound: the times the process dies
    NoOne,          \* a lock nobody holds
    Absent,         \* no entry in a map, no file on disk
    Cut,            \* a chunk file that was truncated and not written to its end
    Broken          \* a metadata file that does not decode

ASSUME CountAssumption ==
    /\ ChunkCount \in [Files -> Nat \ {0}]
    /\ KeyWrap \in Nat \ {0}

ASSUME BoundsAssumption == MaxFaults \in Nat /\ MaxCrashes \in Nat

ASSUME CallsAssumption ==
    /\ Uploads \subseteq {"load", "write"} \X Files
    /\ Sweeps \subseteq {"all", ".kdht", ".toml"}
    /\ NoOne \notin Goroutines

VARIABLES
    references,     \* ks.references
    registry,       \* ks.registry
    lock,           \* the goroutine that holds ks.lock for writing, or NoOne
    storage,        \* the chunk files on disk
    metadata,       \* the metadata files on disk
    up,             \* whether the process runs
    pc,             \* where each goroutine is
    call,           \* the call it makes: [op, file] and, as history, whether it reads
                    \* a file that was stored when it began and not cleaned up since
    chunks,         \* its file.Chunks, as far as filled in
    next,           \* its loop index
    found,          \* GetDataFromDisk's local variable "chunk"
    left,           \* the keys, or files, that its loop has yet to visit
    faults,         \* the failures that may still happen
    crashes,        \* the crashes that may still happen
    stored          \* history: the files stored with success, and not cleaned up nor
                    \* being rewritten since

memory == <<references, registry>>
disk   == <<storage, metadata>>
local  == <<call, chunks, next, found, left>>
world  == <<up, faults, crashes, stored>>
vars   == <<memory, lock, disk, pc, local, world>>

-----------------------------------------------------------------------------

\* Mutant: the key depends on the index alone.
KeyOfIndex(how, f, i) == <<"word", i - 1>>

\* The keys are SHA-1 sums: of the hash and the index in 64 bits (updateKey), or
\* of the hash and byte(index) (WriteFileToDisk).
Key(how, f, i) == IF how = "load" THEN <<"word", f, i - 1>> ELSE <<"byte", f, (i - 1) % KeyWrap>>

KeysFor(how, f) == {Key(how, f, i) : i \in 1 .. ChunkCount[f]}

\* The key of a chunk whose metadata was cut off before it.
NoKey == <<"zero">>

Keys == {NoKey} \cup NetKeys \cup UNION {KeysFor(u[1], u[2]) : u \in Uploads}

\* A chunk's key, the hash of its data, and whether Location is its path on disk;
\* the Location of a chunk kept by StoreKey is empty.
Chunk(k, data, here) == [key |-> k, data |-> data, here |-> here]

Data == UNION {{<<f, i>> : i \in 1 .. ChunkCount[f]} : f \in Files}

ChunkType == [key : Keys, data : Data \cup {Absent}, here : BOOLEAN]

Content(f) == [i \in 1 .. ChunkCount[f] |-> <<f, i>>]

\* The constants that stand for something missing are no data and no list of chunks,
\* and no key of StoreKey is the key of a file's chunk.
ASSUME TokensAssumption ==
    /\ Absent \notin Data /\ Absent \notin ChunkType
    /\ Absent \notin Seq(ChunkType) /\ Broken \notin Seq(ChunkType)
    /\ \A f \in Files : NetKeys \cap (KeysFor("load", f) \cup KeysFor("write", f)) = {}

Idle == [op |-> "none", file |-> Absent, sure |-> FALSE]

Storing(g) == pc[g] \in {"chunk", "writing", "meta", "encoding", "undo"}

Goto(g, label) == pc' = [pc EXCEPT ![g] = label]

Return(g) ==
    /\ Goto(g, "idle")
    /\ call' = [call EXCEPT ![g] = Idle]
    /\ chunks' = [chunks EXCEPT ![g] = <<>>]
    /\ next' = [next EXCEPT ![g] = 1]
    /\ found' = [found EXCEPT ![g] = Absent]
    /\ left' = [left EXCEPT ![g] = {}]

Begin(g, op, f, label) ==
    /\ up /\ pc[g] = "idle"
    /\ Goto(g, label)
    /\ call' = [h \in Goroutines |->
                  IF h = g THEN [op |-> op, file |-> f, sure |-> op = "read" /\ f \in stored]
                  ELSE [call[h] EXCEPT !.sure = @ /\ op \notin Sweeps]]
    /\ UNCHANGED <<next, found>>

\* Something fails: one of the failures TLC may choose.
Fault == faults > 0 /\ faults' = faults - 1

\* The chunk a goroutine is storing.
Current(g) ==
    LET f == call[g].file
    IN  Chunk(Key(call[g].op, f, next[g]), <<f, next[g]>>, TRUE)

\* BootstrapKeyStore on an empty directory.
Init ==
    /\ references = [f \in Files |-> Absent]
    /\ registry = [k \in Keys |-> Absent]
    /\ lock = NoOne
    /\ storage = [k \in Keys |-> Absent]
    /\ metadata = [f \in Files |-> Absent]
    /\ up = TRUE
    /\ pc = [g \in Goroutines |-> "idle"]
    /\ call = [g \in Goroutines |-> Idle]
    /\ chunks = [g \in Goroutines |-> <<>>]
    /\ next = [g \in Goroutines |-> 1]
    /\ found = [g \in Goroutines |-> Absent]
    /\ left = [g \in Goroutines |-> {}]
    /\ faults = MaxFaults
    /\ crashes = MaxCrashes
    /\ stored = {}

-----------------------------------------------------------------------------
(* LoadAndStoreFile ("load") and WriteFileToDisk ("write").                *)

Store(g, how, f) ==
    /\ \/ Again
       \/ f \notin stored /\ \A h \in Goroutines : Storing(h) => call[h].file # f
    /\ Begin(g, how, f, "chunk")
    /\ UNCHANGED <<memory, lock, disk, chunks, left, world>>

\* The file being loaded cannot be read on: return at once, with no cleanup.
SourceFails(g) ==
    /\ pc[g] = "chunk" /\ call[g].op = "load" /\ Fault
    /\ Return(g)
    /\ UNCHANGED <<memory, lock, disk, up, crashes, stored>>

\* Mutant: the loop of the cleanup goes on with the index of the loop that failed.
UndoFromHere(g) ==
    /\ Goto(g, "undo")
    /\ UNCHANGED <<call, chunks, next, found, left>>

\* The first error: delete the chunks stored so far.
StartUndo(g) ==
    /\ Goto(g, "undo")
    /\ next' = [next EXCEPT ![g] = 1]
    /\ UNCHANGED <<call, chunks, found, left>>

\* All chunks are stored, but the file loaded has changed its size meanwhile.
SourceChanged(g) ==
    /\ pc[g] = "meta" /\ call[g].op = "load" /\ Fault
    /\ StartUndo(g)
    /\ UNCHANGED <<memory, lock, disk, up, crashes, stored>>

\* WriteChunkToDisk takes the lock; os.WriteFile truncates the file first.
ChunkBegin(g) ==
    /\ pc[g] = "chunk" /\ lock = NoOne
    /\ lock' = g
    /\ storage' = [storage EXCEPT ![Current(g).key] = Cut]
    /\ Goto(g, "writing")
    /\ UNCHANGED <<memory, metadata, local, world>>

\* The file cannot be opened.
ChunkRefused(g) ==
    /\ pc[g] = "chunk" /\ lock = NoOne /\ Fault
    /\ StartUndo(g)
    /\ UNCHANGED <<memory, lock, disk, up, crashes, stored>>

\* Written, read back and found right: registered.
ChunkWritten(g) ==
    /\ pc[g] = "writing"
    /\ LET c == Current(g)
       IN  /\ storage' = [storage EXCEPT ![c.key] = c.data]
           /\ registry' = [registry EXCEPT ![c.key] = c]
           /\ chunks' = [chunks EXCEPT ![g] = Append(@, c)]
    /\ lock' = NoOne
    /\ next' = [next EXCEPT ![g] = @ + 1]
    /\ Goto(g, IF next[g] = ChunkCount[call[g].file] THEN "meta" ELSE "chunk")
    /\ UNCHANGED <<references, metadata, call, found, left, world>>

\* Mutant: the early return forgets to unlock.
ChunkFailsLocked(g) ==
    /\ pc[g] = "writing" /\ Fault
    /\ storage' = [storage EXCEPT ![Current(g).key] = Cut]
    /\ StartUndo(g)
    /\ UNCHANGED <<memory, lock, metadata, up, crashes, stored>>

\* Not written to the end, or written but not verified.
ChunkFails(g) ==
    /\ pc[g] = "writing" /\ Fault
    /\ \E data \in {Cut, Current(g).data} : storage' = [storage EXCEPT ![Current(g).key] = data]
    /\ lock' = NoOne
    /\ StartUndo(g)
    /\ UNCHANGED <<memory, metadata, up, crashes, stored>>

\* The chunk is known, and os.Remove finds a file at its Location.
CanRemove(k) == IF registry[k] = Absent THEN FALSE ELSE registry[k].here /\ storage[k] # Absent

\* Mutant: a chunk that cannot be deleted is tried again.
UndoInsists(g) ==
    /\ pc[g] = "undo" /\ next[g] <= Len(chunks[g]) /\ lock = NoOne
    /\ LET k == chunks[g][next[g]].key
       IN  \/ /\ CanRemove(k)
              /\ storage' = [storage EXCEPT ![k] = Absent]
              /\ registry' = [registry EXCEPT ![k] = Absent]
              /\ next' = [next EXCEPT ![g] = @ + 1]
           \/ /\ ~CanRemove(k)
              /\ UNCHANGED <<storage, registry, next>>
    /\ UNCHANGED <<references, lock, metadata, pc, call, chunks, found, left, world>>

\* deleteDataFromDisk of one of the chunks stored; its errors are ignored.
UndoChunk(g) ==
    /\ pc[g] = "undo" /\ next[g] <= Len(chunks[g]) /\ lock = NoOne
    /\ next' = [next EXCEPT ![g] = @ + 1]
    /\ LET k == chunks[g][next[g]].key
       IN  \/ /\ CanRemove(k)
              /\ storage' = [storage EXCEPT ![k] = Absent]
              /\ registry' = [registry EXCEPT ![k] = Absent]
              /\ UNCHANGED faults
           \/ /\ ~CanRemove(k)
              /\ UNCHANGED <<storage, registry, faults>>
           \/ /\ CanRemove(k) /\ Fault
              /\ UNCHANGED <<storage, registry>>
    /\ UNCHANGED <<references, lock, metadata, pc, call, chunks, found, left, up, crashes, stored>>

UndoDone(g) ==
    /\ pc[g] = "undo" /\ next[g] > Len(chunks[g])
    /\ Return(g)
    /\ UNCHANGED <<memory, lock, disk, world>>

-----------------------------------------------------------------------------
(* updateReference.                                                        *)

Registered(g) == \A i \in 1 .. Len(chunks[g]) : registry[chunks[g][i].key] # Absent

\* The chunks of a file as the registry has them.
Live(g) == [i \in 1 .. Len(chunks[g]) |-> registry[chunks[g][i].key]]

\* Somebody removed a chunk in the meantime.
MetaMissing(g) ==
    /\ pc[g] = "meta" /\ lock = NoOne /\ ~Registered(g)
    /\ StartUndo(g)
    /\ UNCHANGED <<memory, lock, disk, world>>

\* The file is entered in memory first, then its metadata file is created.
MetaBegin(g) ==
    /\ pc[g] = "meta" /\ lock = NoOne /\ Registered(g)
    /\ lock' = g
    /\ references' = [references EXCEPT ![call[g].file] = Live(g)]
    /\ metadata' = [metadata EXCEPT ![call[g].file] = <<>>]
    /\ Goto(g, "encoding")
    /\ UNCHANGED <<registry, storage, local, world>>

\* The metadata file cannot be created.
MetaRefused(g) ==
    /\ pc[g] = "meta" /\ lock = NoOne /\ Registered(g) /\ Fault
    /\ references' = [references EXCEPT ![call[g].file] = Live(g)]
    /\ StartUndo(g)
    /\ UNCHANGED <<registry, lock, disk, up, crashes, stored>>

\* What an interrupted encoder leaves: text that does not decode, or that was cut
\* between two lines and decodes to some of the chunks, the last one maybe without
\* its DataHash, its Location, or even its Key.
Fragments(ref) ==
    LET Missing(c) == {Chunk(c.key, Absent, b) : b \in BOOLEAN}
                      \cup {Chunk(NoKey, Absent, FALSE)}
        Upto(n)    == SubSeq(ref, 1, n)
    IN  {Broken} \cup UNION {{Upto(n)} \cup {Append(Upto(n), c) : c \in Missing(ref[n + 1])} :
                               n \in 0 .. Len(ref) - 1}

MetaWritten(g) ==
    /\ pc[g] = "encoding"
    /\ metadata' = [metadata EXCEPT ![call[g].file] = references[call[g].file]]
    /\ lock' = NoOne
    /\ stored' = stored \cup {call[g].file}
    /\ Return(g)
    /\ UNCHANGED <<memory, storage, up, faults, crashes>>

MetaFails(g) ==
    /\ pc[g] = "encoding" /\ Fault
    /\ \E m \in Fragments(references[call[g].file]) :
          metadata' = [metadata EXCEPT ![call[g].file] = m]
    /\ lock' = NoOne
    /\ StartUndo(g)
    /\ UNCHANGED <<memory, storage, up, crashes, stored>>

-----------------------------------------------------------------------------
(* StoreKey, and ReassembleFileFromDisk or CopyFileToPath ("read").        *)

StoreKey(g, k) ==
    /\ up /\ pc[g] = "idle" /\ lock = NoOne
    /\ registry' = [registry EXCEPT ![k] = Chunk(k, Absent, FALSE)]
    /\ UNCHANGED <<references, lock, disk, pc, local, world>>

Read(g, f) ==
    /\ Begin(g, "read", f, "recall")
    /\ UNCHANGED <<memory, lock, disk, chunks, left, world>>

\* ReferenceFromMemory, which fails or returns a copy.
Recall(g) ==
    /\ pc[g] = "recall" /\ lock = NoOne
    /\ LET ref == references[call[g].file]
       IN  \/ ref = Absent /\ Return(g)
           \/ /\ ref # Absent
              /\ chunks' = [chunks EXCEPT ![g] = ref]
              /\ Goto(g, "lookup")
              /\ UNCHANGED <<call, next, found, left>>
    /\ UNCHANGED <<memory, lock, disk, world>>

\* The first half of GetDataFromDisk, under the read lock.
Lookup(g) ==
    /\ pc[g] = "lookup" /\ next[g] <= Len(chunks[g]) /\ lock = NoOne
    /\ LET c == registry[chunks[g][next[g]].key]
       IN  \/ c = Absent /\ Return(g)
           \/ /\ c # Absent
              /\ found' = [found EXCEPT ![g] = c]
              /\ Goto(g, "load")
              /\ UNCHANGED <<call, chunks, next, left>>
    /\ UNCHANGED <<memory, lock, disk, world>>

\* Mutant: every chunk is compared with the first one of the reference.
VerifiedFirst(g) ==
    /\ found[g].here /\ storage[found[g].key] # Absent
    /\ storage[found[g].key] = found[g].data
    /\ found[g].data = chunks[g][1].data

\* What the second half and its caller accept: the file at Location holds the data
\* both the chunk looked up and the reference have the hash of.
Verified(g) ==
    /\ found[g].here /\ storage[found[g].key] # Absent
    /\ storage[found[g].key] = found[g].data
    /\ found[g].data = chunks[g][next[g]].data

\* The second half, with no lock held.
Load(g) ==
    /\ pc[g] = "load"
    /\ \/ ~Verified(g) /\ Return(g)
       \/ /\ Verified(g)
          /\ next' = [next EXCEPT ![g] = @ + 1]
          /\ found' = [found EXCEPT ![g] = Absent]
          /\ Goto(g, "lookup")
          /\ UNCHANGED <<call, chunks, left>>
    /\ UNCHANGED <<memory, lock, disk, world>>

\* The size and the hash of what was put together are those of the file.
Reassembled(g) ==
    LET f == call[g].file
    IN  /\ next[g] = ChunkCount[f] + 1
        /\ [i \in 1 .. Len(chunks[g]) |-> chunks[g][i].data] = Content(f)

\* The end of the loop: the caller gets the file if Reassembled(g), or an error.
ReadEnd(g) ==
    /\ pc[g] = "lookup" /\ next[g] > Len(chunks[g])
    /\ Return(g)
    /\ UNCHANGED <<memory, lock, disk, world>>

-----------------------------------------------------------------------------
(* Cleanup ("all") and CleanupExtensions.  The lock is held throughout.    *)

\* The chunks a cleanup deletes the files of.
Swept(what) ==
    {k \in Keys : /\ registry[k] # Absent
                  /\ \/ what = "all"
                     \/ what = ".kdht" /\ registry[k].here}

\* Mutant: a cleanup does not take the lock.
SweepUnlocked(g, what) ==
    /\ lock = NoOne
    /\ Begin(g, what, Absent, "cleaning")
    /\ left' = [left EXCEPT ![g] = Swept(what)]
    /\ stored' = {}
    /\ UNCHANGED <<memory, lock, disk, chunks, up, faults, crashes>>

SweepBegin(g, what) ==
    /\ lock = NoOne
    /\ Begin(g, what, Absent, "cleaning")
    /\ lock' = g
    /\ left' = [left EXCEPT ![g] = Swept(what)]
    /\ stored' = {}
    /\ UNCHANGED <<memory, disk, chunks, up, faults, crashes>>

SweepChunk(g) ==
    /\ pc[g] = "cleaning"
    /\ \E k \in left[g] :
          /\ CanRemove(k)
          /\ storage' = [storage EXCEPT ![k] = Absent]
          /\ left' = [left EXCEPT ![g] = @ \ {k}]
    /\ UNCHANGED <<memory, lock, metadata, pc, call, chunks, next, found, world>>

MetadataLeft(g) == call[g].op # ".kdht" /\ \E f \in Files : metadata[f] # Absent

SweepMetadata(g) ==
    /\ pc[g] = "cleaning" /\ left[g] = {} /\ MetadataLeft(g)
    /\ \E f \in Files :
          /\ metadata[f] # Absent
          /\ metadata' = [metadata EXCEPT ![f] = Absent]
    /\ UNCHANGED <<memory, lock, storage, pc, local, world>>

\* The first file that cannot be removed ends the call; the maps stay as they are.
SweepFails(g) ==
    /\ pc[g] = "cleaning"
    /\ \/ /\ \E k \in left[g] : ~CanRemove(k)
          /\ UNCHANGED faults
       \/ /\ left[g] # {} \/ MetadataLeft(g)
          /\ Fault
    /\ lock' = NoOne
    /\ Return(g)
    /\ UNCHANGED <<memory, disk, up, crashes, stored>>

\* Mutant: the maps are not emptied.
SweepDoneRemembers(g) ==
    /\ pc[g] = "cleaning" /\ left[g] = {} /\ ~MetadataLeft(g)
    /\ lock' = NoOne
    /\ Return(g)
    /\ UNCHANGED <<memory, disk, world>>

SweepDone(g) ==
    /\ pc[g] = "cleaning" /\ left[g] = {} /\ ~MetadataLeft(g)
    /\ references' = [f \in Files |-> Absent]
    /\ registry' = [k \in Keys |-> Absent]
    /\ lock' = NoOne
    /\ Return(g)
    /\ UNCHANGED <<disk, world>>

-----------------------------------------------------------------------------
(* WriteAllReferencesToDisk.  It takes no lock.                            *)

Rewrite(g) ==
    /\ Rewriting
    /\ Begin(g, "rewrite", Absent, "rewrite")
    /\ left' = [left EXCEPT ![g] = {f \in Files : references[f] # Absent}]
    /\ UNCHANGED <<memory, lock, disk, chunks, world>>

\* The metadata file of the next reference is truncated.
RewriteBegin(g) ==
    /\ pc[g] = "rewrite"
    /\ \E f \in left[g] :
          /\ metadata' = [metadata EXCEPT ![f] = <<>>]
          /\ call' = [call EXCEPT ![g] = [op |-> "rewrite", file |-> f, sure |-> f \in stored]]
          /\ left' = [left EXCEPT ![g] = @ \ {f}]
          /\ stored' = stored \ {f}
    /\ Goto(g, "rewriting")
    /\ UNCHANGED <<memory, lock, storage, chunks, next, found, up, faults, crashes>>

RewriteRefused(g) ==
    /\ pc[g] = "rewrite" /\ left[g] # {} /\ Fault
    /\ Return(g)
    /\ UNCHANGED <<memory, lock, disk, up, crashes, stored>>

RewriteWritten(g) ==
    /\ pc[g] = "rewriting"
    /\ LET f == call[g].file
       IN  /\ metadata' = [metadata EXCEPT ![f] = references[f]]
           /\ stored' = IF call[g].sure THEN stored \cup {f} ELSE stored
    /\ call' = [call EXCEPT ![g] = [op |-> "rewrite", file |-> Absent, sure |-> FALSE]]
    /\ Goto(g, "rewrite")
    /\ UNCHANGED <<memory, lock, storage, chunks, next, found, left, up, faults, crashes>>

\* The first error ends the call; what has been written of the file stays.
RewriteFails(g) ==
    /\ pc[g] = "rewriting" /\ Fault
    /\ \E m \in Fragments(references[call[g].file]) :
          metadata' = [metadata EXCEPT ![call[g].file] = m]
    /\ Return(g)
    /\ UNCHANGED <<memory, lock, storage, up, crashes, stored>>

RewriteDone(g) ==
    /\ pc[g] = "rewrite" /\ left[g] = {}
    /\ Return(g)
    /\ UNCHANGED <<memory, lock, disk, world>>

-----------------------------------------------------------------------------
(* The process dies, and BootstrapKeyStore starts it again.                *)

\* A file being written is left as it is, or as far as it got.
Crash ==
    /\ up /\ crashes > 0
    /\ up' = FALSE
    /\ crashes' = crashes - 1
    /\ \/ /\ \A g \in Goroutines : pc[g] \notin {"writing", "encoding", "rewriting"}
          /\ UNCHANGED disk
       \/ \E g \in Goroutines :
             /\ pc[g] = "writing"
             /\ \E data \in {Cut, Current(g).data} :
                   storage' = [storage EXCEPT ![Current(g).key] = data]
             /\ UNCHANGED metadata
       \/ \E g \in Goroutines :
             /\ pc[g] \in {"encoding", "rewriting"}
             /\ LET ref == references[call[g].file]
                IN  \E m \in Fragments(ref) \cup {ref} :
                      metadata' = [metadata EXCEPT ![call[g].file] = m]
             /\ UNCHANGED storage
    /\ references' = [f \in Files |-> Absent]
    /\ registry' = [k \in Keys |-> Absent]
    /\ lock' = NoOne
    /\ pc' = [g \in Goroutines |-> "idle"]
    /\ call' = [g \in Goroutines |-> Idle]
    /\ chunks' = [g \in Goroutines |-> <<>>]
    /\ next' = [g \in Goroutines |-> 1]
    /\ found' = [g \in Goroutines |-> Absent]
    /\ left' = [g \in Goroutines |-> {}]
    /\ UNCHANGED <<faults, stored>>

\* The files whose metadata decodes, and the keys that metadata names.
Decoded == {f \in Files : metadata[f] \notin {Absent, Broken}}

KeysOf(ref) == {ref[i].key : i \in 1 .. Len(ref)}

\* Mutant: a file is an orphan only when all its chunks are missing.
OrphansBare == {f \in Decoded : \A k \in KeysOf(metadata[f]) : storage[k] = Absent}

\* Mutant: the test of a chunk's presence is inverted.
OrphansInverted == {f \in Decoded : \E k \in KeysOf(metadata[f]) : storage[k] # Absent}

\* identifyOrphans looks whether the file of every chunk exists, not what is in it.
Orphans == {f \in Decoded : \E k \in KeysOf(metadata[f]) : storage[k] = Absent}

\* Mutant: the last chunk of each reference is not registered.
RestoredButLast(known) ==
    [k \in Keys |->
        IF \A f \in known : k \notin {metadata[f][i].key : i \in 1 .. Len(metadata[f]) - 1}
        THEN Absent
        ELSE LET ref == metadata[CHOOSE f \in known : k \in KeysOf(metadata[f])]
             IN  ref[Max({i \in 1 .. Len(ref) : ref[i].key = k})]]

\* The registry made of the metadata of some files: of two chunks with one key, the
\* later one.
Restored(known) ==
    [k \in Keys |->
        IF \A f \in known : k \notin KeysOf(metadata[f])
        THEN Absent
        ELSE LET ref == metadata[CHOOSE f \in known : k \in KeysOf(metadata[f])]
             IN  ref[Max({i \in 1 .. Len(ref) : ref[i].key = k})]]

\* BootstrapKeyStore after a crash.  The orphans are moved away, but for those whose
\* directory cannot be made (kept; all of them when .orphans itself cannot) and the
\* files that cannot be moved (stuck and stay).  A crash in the middle is one before it: the next call does the rest.
Bootstrap ==
    /\ ~up
    /\ up' = TRUE
    /\ \E kept \in SUBSET Orphans, stuck \in SUBSET Keys, stay \in SUBSET Orphans :
          LET moved == Orphans \ kept
              gone  == UNION {KeysOf(metadata[f]) : f \in moved}
              known == Decoded \ moved
          IN  /\ stuck \subseteq {k \in gone : storage[k] # Absent} /\ stay \subseteq moved
              /\ \/ kept \cup stay \cup stuck = {} /\ UNCHANGED faults
                 \/ /\ \/ Cardinality(kept) + Cardinality(stay) + Cardinality(stuck) = 1
                       \/ kept = Orphans /\ kept # {}
                    /\ Fault
              /\ references' = [f \in Files |-> IF f \in known THEN metadata[f] ELSE Absent]
              /\ registry' = Restored(known)
              /\ storage' = [k \in Keys |-> IF k \in gone \ stuck THEN Absent ELSE storage[k]]
              /\ metadata' = [f \in Files |-> IF f \in moved \ stay THEN Absent ELSE metadata[f]]
    /\ UNCHANGED <<lock, pc, local, crashes, stored>>

-----------------------------------------------------------------------------

\* What a goroutine does next in the call it is in.
Step(g) ==
    \/ SourceFails(g) \/ SourceChanged(g)
    \/ ChunkBegin(g) \/ ChunkRefused(g) \/ ChunkWritten(g) \/ ChunkFails(g)
    \/ UndoChunk(g) \/ UndoDone(g)
    \/ MetaMissing(g) \/ MetaBegin(g) \/ MetaRefused(g) \/ MetaWritten(g) \/ MetaFails(g)
    \/ Recall(g) \/ Lookup(g) \/ Load(g) \/ ReadEnd(g)
    \/ SweepChunk(g) \/ SweepMetadata(g) \/ SweepFails(g) \/ SweepDone(g)
    \/ RewriteBegin(g) \/ RewriteRefused(g) \/ RewriteWritten(g) \/ RewriteFails(g)
    \/ RewriteDone(g)

Call(g) ==
    \/ \E u \in Uploads : Store(g, u[1], u[2])
    \/ \E f \in Files : Read(g, f)
    \/ \E k \in NetKeys : StoreKey(g, k)
    \/ \E what \in Sweeps : SweepBegin(g, what)
    \/ Rewrite(g)

Next == Crash \/ Bootstrap \/ \E g \in Goroutines : Call(g) \/ Step(g)

Spec == Init /\ [][Next]_vars

\* A goroutine in a call is scheduled, and a sync.RWMutex lets every waiter in.
FairSpec == Spec /\ \A g \in Goroutines : SF_vars(Step(g))

-----------------------------------------------------------------------------
(* Properties.                                                             *)

\* Every variable has a value of its kind, and ks.lock is held for writing exactly
\* by a goroutine that is writing a chunk, encoding metadata or cleaning up.
TypeOK ==
    /\ \A f \in Files : references[f] = Absent \/ references[f] \in Seq(ChunkType)
    /\ \A k \in Keys : registry[k] = Absent \/ registry[k] \in ChunkType
    /\ \A k \in Keys : storage[k] \in Data \cup {Absent, Cut}
    /\ \A f \in Files : metadata[f] \in {Absent, Broken} \/ metadata[f] \in Seq(ChunkType)
    /\ \A g \in Goroutines :
          /\ (lock = g) <=> (pc[g] \in {"writing", "encoding", "cleaning"})
          /\ chunks[g] \in Seq(ChunkType) /\ left[g] \subseteq Keys \cup Files
          /\ found[g] = Absent \/ found[g] \in ChunkType
          /\ next[g] \in Nat /\ (pc[g] = "idle") = (call[g] = Idle)
    /\ up \in BOOLEAN /\ faults \in Nat /\ crashes \in Nat /\ stored \subseteq Files

\* The reference a file has when it is stored one way or the other.
Whole(f, ref) ==
    /\ Len(ref) = ChunkCount[f]
    /\ \A i \in 1 .. Len(ref) : ref[i].data = <<f, i>> /\ ref[i].here

\* A file that was stored and not cleaned up is on disk, its metadata and every
\* chunk, whatever calls, failures and crashes come between: WriteFileToDisk and
\* LoadAndStoreFile write the metadata last and their cleanup deletes only what
\* the failed call itself has written.  WriteAllReferencesToDisk endangers one file
\* at a time, while it rewrites its metadata, and leaves it as it was when it succeeds.
DurableFiles ==
    \A f \in stored :
        /\ metadata[f] \notin {Absent, Broken}
        /\ Whole(f, metadata[f])
        /\ \A i \in 1 .. ChunkCount[f] : storage[metadata[f][i].key] = <<f, i>>

\* While the process runs, after a restart too, memory knows every stored file: its
\* reference is the one on disk and the registry has each of its chunks.
KnownFiles ==
    up => \A f \in stored :
              /\ references[f] = metadata[f]
              /\ \A i \in 1 .. ChunkCount[f] : registry[metadata[f][i].key] = metadata[f][i]

\* ReassembleFileFromDisk and CopyFileToPath, which hold no lock from one chunk to
\* the next, do not fail for a file that was stored before and is not cleaned up
\* meanwhile.
ReadsFindStored ==
    [][\A g \in Goroutines :
          (call[g].op = "read" /\ call'[g] = Idle /\ up' /\ ~Reassembled(g))
              => ~call[g].sure]_vars

\* Where nothing but the first failure goes wrong, a call that fails to store a file
\* has deleted every chunk it had stored by the time it returns, from disk and from
\* the registry.  (The chunk that failed keeps what was written of it.)
FailedStoreUndone ==
    [][\A g \in Goroutines :
          (pc[g] = "undo" /\ pc'[g] = "idle" /\ up')
              => \A i \in 1 .. Len(chunks[g]) :
                    registry'[chunks[g][i].key] = Absent /\ storage'[chunks[g][i].key] = Absent]_vars

\* After a restart in which nothing fails, every chunk that a reference in memory
\* names has a file on disk: what lost one, to a cleanup cut short or a failed
\* store, has been moved away as a whole.
NoOrphansLeft ==
    [][(~up /\ up' /\ faults' = faults) =>
          \A f \in Files : references'[f] # Absent =>
              \A k \in KeysOf(references'[f]) : registry'[k] # Absent /\ storage'[k] # Absent]_vars

\* What each goroutine is doing, as FileStore has it.
Task(g) ==
    CASE pc[g] = "idle"                                -> "none"
      [] pc[g] \in {"chunk", "writing", "meta", "undo"} -> "store"
      [] pc[g] = "encoding"                            -> "commit"
      [] pc[g] = "cleaning"                            ->
            IF left[g] = {} /\ ~MetadataLeft(g) THEN "cleaned" ELSE "clean"
      [] pc[g] = "rewrite" /\ left[g] = {}             -> "written"
      [] (pc[g] = "rewrite" /\ left[g] # {}) \/ pc[g] = "rewriting"
                                                       -> "rewrite"
      [] pc[g] \in {"recall", "lookup", "load"}         ->
            IF pc[g] = "lookup" /\ next[g] > Len(chunks[g]) /\ Reassembled(g) THEN "found" ELSE "read"

Subject(g) == IF Storing(g) \/ call[g].op = "read" THEN call[g].file ELSE Absent

\* A list of chunks is that of the file and all their files are right.
Stands(f, ref) == Whole(f, ref) /\ \A i \in 1 .. ChunkCount[f] : storage[ref[i].key] = <<f, i>>

Known ==
    {f \in Files :
        /\ references[f] # Absent /\ Stands(f, references[f])
        /\ \A i \in 1 .. ChunkCount[f] : registry[references[f][i].key] = references[f][i]}

Saved == {f \in Files : metadata[f] \notin {Absent, Broken} /\ Stands(f, metadata[f])}

(***************************************************************************)
(* Called by one goroutine, the store is a set of files: what can be read   *)
(* is what reads return, a restart brings back exactly the files that are   *)
(* whole on disk, and neither a failure nor a crash in a call about one     *)
(* file touches another.                                                    *)
(***************************************************************************)
Promised == INSTANCE FileStore WITH
    Callers <- Goroutines,
    None    <- Absent,
    known   <- Known,
    saved   <- Saved,
    task    <- [g \in Goroutines |-> Task(g)],
    file    <- [g \in Goroutines |-> Subject(g)]

Promise == Promised!Spec

\* Every call returns or dies with the process: none waits for ks.lock for ever.
CallsReturn == \A g \in Goroutines : pc[g] # "idle" ~> pc[g] = "idle"

=============================================================================
