# A verification of dps_net

dps_net is a small peer-to-peer network in Go: nodes find each other with Kademlia over UDP and keep
files in chunks on disk. This directory holds TLA+ modules translated from its source, TLC
configurations that check them on small instances, and TLAPS proofs of what holds for all instances.
Paths below are relative to the repository (`src/` here); line numbers are in `PROJECT.json`.

## The system

| Component | State | Operations | What makes it hard | What makes it correct |
|---|---|---|---|---|
| Identifiers (`api/kdht_utils.go`) | none | XOR distance, prefix length, bucket index, single bits, refresh target | masks and shifts over bytes | they compute what their definition on bits says; being closer is a total order |
| Routing table (`network/routing`) | slice of buckets under `rt.lock`; peers and `isFull` of each bucket under its own `b.lock` | `Update` (with `Split` and `Insert`), `Remove`, `ClosestK` | one goroutine per packet; `Update` releases `rt.lock` before it inserts; `ClosestK` reads peers without `b.lock` | the K closest contacts of each prefix length are known, each in its bucket, once, and lookups find them |
| RPC handlers (`network/routing/kademlia.go`) | the table's | `Ping`, `Store`, `Delete`, `Refresh`, `FindNode`, `FindValue` | as above | every request notes its sender, lookups answer with contacts |
| Network manager (`network/manager.go`, `dispatch.go`) | maps of peers, active contacts, application locks and handlers under `nm.lock`; receiver channel; servers | `RegisterService`, `DispatchRPC`, `Start`, `serve`, `Shutdown` | one goroutine per packet under a read lock; map writes under that read lock; a channel closed while another goroutine sends | what is registered is served; who is answered is noted; what a start has spawned ends after a stop |
| Lookup (`network/manager.go`) | a shortlist, the contacts queried | `Lookup` | parallel workers, replies after a timeout | it ends, with the nearest it was told of |
| RPC client (`network/invoke.go`) | none | `InvokeRPC` | lost and late datagrams | a reply updates the table; every call ends |
| Transport (`network/transport`) | UDP socket, context | `Start`, `Stop` | the reader blocks on an unbuffered channel | it ends when stopped |
| Node (`node/node.go`) | a network manager, a refresh loop | `Start`, `Stop`, `Ping`, `Join`, `Put`, `Get`, `RefreshBuckets` | retries, partial failures | a node that joined and those it found know each other |
| Key store (`storage/key_store`) | maps of references and chunks; chunk files and metadata files | store, read and reassemble files, cleanup, bootstrap after a restart | crashes between writes, failing writes, cleanup after failures | a stored file can be read back, also after a restart |
| Storage service (`storage/storage.go`, `storage/store`) | an earlier copy of the key store | as above | a lock taken twice | not modelled |
| Configuration, generated code, commands, plugins, tools | | | | not modelled |

A packet is read by the transport, handed over a channel to `serve`, which starts a goroutine that
dispatches it to a handler of the routing table, notes the sender once more and replies. Outgoing calls
(`InvokeRPC`) open a socket of their own and note who acknowledged a ping. `Join`, `Put` and
`RefreshBuckets` share `Lookup`. The key store is not wired to the network in this version. What is hard
to test in each part is listed line by line under `hazards` in `PROJECT.json`.

## The modules

| Module | What it is | Of which code |
|---|---|---|
| `NodeIDs` | identifiers as arrays of bits, distance, prefixes | `api/kdht_utils.go` |
| `NodeIDBytes` | the same functions byte by byte, with the single-bit ones and refresh targets; compared with `NodeIDs` | `api/kdht_utils.go` |
| `ContactSets` | contacts, and sets of them in place of slices sorted by distance | `network/routing/buckets.go` |
| `PeerClasses` | abstract specification of the table | – |
| `RoutingTable` | the table, its locks, the handlers that call it | `network/routing/*.go`, the calls of `network/manager.go` |
| `NetworkManager` | start, stop, the reader, `serve`, dispatch and registration, with panics and map races | `network/manager.go`, `dispatch.go`, `transport/*.go`, `Start` and `Stop` of `node/node.go` |
| `Lookup` | `Join`, `Put` and `RefreshBuckets`, the iterative lookup and the RPC client, on a network that loses and delays | `node/node.go`, `network/manager.go`, `network/invoke.go` |
| `FileStore` | abstract specification of the key store | – |
| `KeyStore` | the chunk store with failures, crashes and restarts | `storage/key_store/*.go` |
| `ChunkSizes` | how a file is cut into chunks | `storage/key_store/config.go`, `cache_write.go`, `disk_*.go` |
| `MCRoutingTable`, `MCRoutingCalls`, `MCNetworkManager`, `MCLookup`, `MCKeyStore` | constants for TLC | |
| `NodeIDByteProofs`, `ContactSetLemmas`, `RoutingTableProofs`, `NetworkManagerProofs`, `LookupProofs`, `KeyStoreProofs`, `KeyStoreRefinement`, `ChunkSizeProofs` | theorems | |

`NodeIDs` < `ContactSets` < `PeerClasses`, `RoutingTable` and `Lookup` by EXTENDS, each detailed module < its MC
module and its proof module; `MCKeyStore` puts `KeyStore` and `ChunkSizes` together, `RoutingTable` instantiates
`PeerClasses` (and `MCRoutingCalls` once more) and `KeyStore` instantiates `FileStore`. In `Lookup` a routing table is what `PeerClasses` says of
it: the set of the K closest contacts per prefix length. Definitions named *Mutant* in a comment are slips
the code could contain; nothing refers to them, and each makes one property fail when it takes the place
of the definition it stands before.

### RoutingTable and the code

- A goroutine is a packet being served. `Ping`, `Store`, `Delete` and `Refresh` do the same to the table
  (`Ping` in the module); `FindNode` and `FindValue` also look up. The second `Update` that `serve` makes
  after the dispatch is one more `Ping`. `Remove` has no caller in the program but belongs to the interface.
- Each step lies between two lock operations. A step that takes a lock and releases it before it touches
  anything else is one step with that lock free; `rt.lock` held across `Split`, `Remove` and `ClosestK`, and
  `b.lock` held during `Insert`, are variables.
- Buckets are named by kind and depth instead of by pointer: a depth is split once, and an old pointer keeps
  its name after the split has detached it.
- A slice of peers is always sorted by distance to the local node when `b.lock` is released, so a set stands
  for it. While an insert is in progress, `ClosestK`, which does not take `b.lock`, may see what `Torn`
  says: `slices.Delete` shifts contacts past it, the sort of a bucket of more than 12 swaps any two, so any of
  the contacts may be missed; the entry being replaced may be seen, its replacement or neither, and a nil.
  Contacts seen twice have no effect, identifiers are de-duplicated. A walk over one bucket is one step, so
  that it overlaps at most one insert into it; nothing is claimed of a bucket written to meanwhile. `isFull` is read without the lock too; it is written once per insert, and either
  value it can have then is the one before or after that write.
- `GetBucket`, `GetBucketSize` and printing change nothing and are left out.

### NetworkManager and the code

- What `Node.Start` spawns is indexed by the number of the start: the reader of the socket, `serve` and the
  refresh loop, the channel, the socket and its context. `receiver` and `udpServ` are the two fields of the
  manager, which a start overwrites. A start whose socket cannot be opened (`StartRefused`) still replaces the
  channel and still starts the refresh loop, because `Node.Start` does not look at the error.
- A stop is three steps and a last one: cancel, close the socket, close the channel, cancel `n.ctx`. Everything
  else may happen in between; the reader is then before its read, or past it and sending.
- The channel has no buffer, so handing over a packet is one step of two goroutines (`Receive`).
- `nm.lock` is held for writing by a registration (`lock`) and for reading by the packets in `Readers`, from the
  dispatch to the reply. What the ping of a refresh writes under `nm.lock` is one step with that lock free.
- A map write by a packet has a beginning and an end (`noting`). Two that overlap are a data race: the write may
  be lost, and the runtime may notice and abort, both of which the model allows.
- A packet is dispatched by lock, not by name: `router.RoutingService` and `routing.KademliaService` reach the same
  handlers if they are configured with the same lock, and a registration empties that entry first.
- `appHandlerRegistry` has an empty entry where the code has none; a request fails alike. Registrations the code
  refuses change nothing, so `Register` requires `Trusted`. Where the program registers a service, it has
  been compiled with it: two trusted services of one lock have the same methods (`SharedLocksAssumption`).
- Left out: datagrams that do not decode (the reader reads on), packets without a sender, on which `serve` panics
  (`manager.go:354`), the pings of `BootstrapPeers` between `nm.Start` and the refresh loop (`node.go:97-101`), what a handler does to the routing table,
  statistics, and `nm.active`, which is written where `nm.peers` is and never read.

### Lookup and the code

- One node calls, the others answer. Every node has a routing table, and serving a request updates it. An
  address belongs to one node, and `queried` is the set of contacts that have a worker.
- The shortlist is a bag, because it may list a contact more than once; its entries are numbered, so that
  sorting and cutting can be said with sets. A round is one step (sort, cut, compare, choose), since only late
  workers touch the shortlist besides, and those races are steps of their own (`RoundRaced`, `AppendsRace`):
  torn slices, lost entries, or a panic.
- A worker of an earlier round is held back by that round's mutex, not by this one's (`AppendsRace`). Each of the two
  appends contact by contact and may undo what the other did since it read the slice, so either reply may lose
  any of its entries but for what `Leftovers` says. Both replies did come in: the history variable `all` counts
  them whole, as `RoundRaced` does, and `raced` tells that some may be lost. Not shown is a contact that a
  race doubles, because the slice was copied in the middle of a swap; nothing is claimed of a raced shortlist.
- A deadline of a node that is not dead may pass before its answer; the request is then lost or served
  later (`strays`). Dead nodes always miss theirs.
- `Lookup` calls `FindNode` as `router.RoutingService`, and `InvokeRPC` updates the caller's table for
  `routing.KademliaService` only; so a node learns of others by pinging them, which is what `Join` and
  `RefreshBuckets` do with the result. Their configured locks are taken to be the same, or no ping of this
  program would be answered.
- `Put` passes a nil `*ACK` to be unmarshalled into, so the first reply panics (`PutPanics`). `Get` uses an
  identifier as an address and fails before it sends anything. `Join` pings a node three times even when it
  answers the first time, except the one it is given.
- This node may be in the shortlist and is then asked like any other.

### KeyStore and the code

- `references`, `registry` and `lock` are the fields of `KeyStore`; `storage` and `metadata` are the chunk
  files and metadata files on disk. A file stands for its hash, `<<f, i>>` for the data of its i-th chunk and
  for that data's hash: hashing is injective here. A chunk is its key, the hash of its data and whether its
  `Location` is its path (`here`); the other fields follow from these.
- `LoadAndStoreFile` (`"load"`) and `WriteFileToDisk` (`"write"`) share their steps: they differ in the key
  of a chunk and in the errors of the file that is read. Each chunk is one hold of the lock: begin (the
  file is truncated), then written and verified, or failed; the loop of the cleanup takes the lock per chunk.
- Reading (`ReassembleFileFromDisk`, `CopyFileToPath`) looks a chunk up under the read lock and reads its file
  with no lock. A reader holds the read lock for one step only, so it is not a variable.
- A crash may hit a file being written: a chunk file is cut or complete, a metadata file is one of
  `Fragments`: text that does not decode, or the beginning of the list. What was written before is kept: the
  process dies, not the machine. `BootstrapKeyStore` is one step: it runs alone, and one that dies in the
  middle is completed by the next, because a chunk that is missing stays missing.
- `MaxFaults` counts failures of writing, creating, moving and removing files. Reading back a file that is there
  does not fail.
- The content of a file being loaded does not change under the loader; its end may come early.
- `WriteAllReferencesToDisk` (`"rewrite"`) truncates and writes the metadata files one by one without the lock. A
  file whose metadata is truncated is not promised to be stored until it has been written again: history
  variable `stored` says so, and it is where a crash or a failure does lose a file. It runs in
  `keys_crash` only (`Rewriting`): concurrent with a store it races on the map, which the Go runtime aborts,
  and two writers of one file at different offsets leave the tail of the longer text.
- `ChunkSizes` gives the numbers of chunks in `MCKeyStore`. Its constants are scaled down there; the theorems
  about it hold for the real ones.
- `FileStore` is what a caller that has the store to itself sees: the files a read returns (`known`) and those that
  a restart brings back (`saved`). Two sets are needed, because memory and disk disagree after a failed
  call: metadata that could not be rewritten, a `.toml` cleanup that stopped half-way. In `KeyStore` both are computed from
  the maps and the disk, with no history variable, so `Promise` says of every call, failure and crash which
  files it may touch, that a read succeeds exactly when its file is known, that rewriting metadata saves what is
  known, and that `BootstrapKeyStore` finds what is on disk, all of it and nothing else. `DurableFiles` and
  `KnownFiles` follow the files a caller was told are stored instead, and also hold with several goroutines.
- Left out: `LoadAllFileMetadata`, which decodes into a nil pointer and so
  returns an error at the first metadata file with nothing changed; listing and printing.

## The runs

| Run | Question | Answer |
|---|---|---|
| `routing_concurrent` | Does the structure of the table survive every interleaving of updates, removals and lookups of two goroutines, and do inserts into settled buckets take effect? | yes, 1,004,000 states |
| `routing_calls` | Called by one goroutine, does the table of buckets implement `PeerClasses`: the K closest per prefix length, exact lookups, each call with its effect? Called by two, does every call return, also when the local node was removed and splits are refused? | yes, 280,000 states |
| `routing_lost_update` | Does a concurrent `Update` that returns nil take effect? | no: the bucket is split, or filled, between `rt.lock.Unlock` and `Insert` |
| `ids_bytes` | Do the byte-and-mask functions compute what `NodeIDs` defines, for every pair of identifiers of 2 bytes of 3 bits, and do refresh targets keep the prefix they are to keep? | yes |
| `ids_comments` | Does `ConfirmPrefix` compare prefixes, or does a refresh target for bucket k differ from this node in bit k? | no to both, for one and the same pair: `ConfirmPrefix` counts from the last bit, and the bit that is flipped is noise |
| `network_serving` | Over two starts and stops: is what is registered served, is everybody noted who is answered, do all goroutines end after a stop and all packets settle? | yes, if only because the process dies; 276,000 states |
| `network_shutdown` | Does a stop end without a panic? | no: the reader sends on the channel that `Shutdown` has closed |
| `lookup_join` | Do joins, puts and refreshes end; is the result the nearest of all that was said, unless late replies raced; do the two ends of a call know each other afterwards? | yes, 60,000 states |
| `lookup_closest` | Does `Lookup` return the K closest contacts it was told of? | no: a contact named twice takes the place of another |
| `keys_crash` | One goroutine, every cleanup, one failing operation, two crashes: does every stored file stay whole, known and readable; does a failed store take its chunks back; does a restart drop what lost a chunk; does the store implement `FileStore`? | yes |
| `keys_concurrent` | The same for two goroutines, with the cleanup of metadata; and do all calls return? | yes |
| `keys_store_again` | Is a stored file still readable after a second, failing, store of it? | no: the second call's cleanup deletes the chunks by key |

The last column's "no" are findings, with the words of the repository they disagree with in `PROJECT.json`.
More disagreements were met that no run asserts:

- `ClosestK` reads a bucket without its lock: it may return the nil contact that `slices.Delete` leaves behind the
  shortened slice (`Torn` has it), and miss a contact that was there before and after.
- A restart takes a file for "fully intact" when its metadata was cut off between two lines; a failed
  `updateReference` leaves the reference in memory. Reads of these files fail, as `Reassembled` says, and
  storing the file anew mends both.
- `CleanupExtensions(".kdht")` leaves the metadata. A failed store of one of these files may complete its chunks on
  disk, and then the next restart brings back a file that memory did not have; `FileStore` says so of `Clean`.
- `Cleanup` that stops half-way leaves removed chunks in the registry, so a call that is storing one of these
  files succeeds without it on disk. `keys_concurrent` therefore has the cleanup of metadata only.
- `WriteFileToDisk` hashes `byte(i)`: chunks i and i + 256 share a key and a path, and a file that has both
  cannot be read back. By `LongFilesHaveManyChunks` that is every file of more than 16 MB.
- `Put` panics when a peer answers. A node that is started again never refreshes, because its context stays
  cancelled. A second `Start` without a `Stop` fails on the port and replaces the channel under the
  first: its reader sends on a channel nobody closes.
- The configurations shipped name no lock for `router.RoutingService`, so `NewNetworkManager` fails with them.

### Bounds

- Identifiers of 3 bits, the local one 101: a table can split twice and has buckets of depth 0, 1 and 2, which
  are a settled, an intermediate and the last one. K = 2 fills a bucket with the local node and one peer, so
  both splits and evictions happen; the contacts include three peers of one bucket, which evict each
  other, and peers at two addresses, so that a refresh changes something. With K = 1 the local node alone
  would fill the last bucket.
- Two goroutines: every race in the table is between a writer and one other goroutine; locks are symmetric,
  and `routing_concurrent` uses that symmetry. The theorems below are for any number.
- `routing_calls` has behaviours of two kinds (`MCRoutingCalls`): goroutine `g2` may `Retire` before anything has
  happened, or not. If it does, one goroutine calls alone (`Alone`), because
  concurrent calls break the promise (`routing_lost_update`), with one contact more than K of a prefix length,
  to force an eviction: `PromiseAlone` is `Promise` of these behaviours. If not, two goroutines call, with three
  contacts, of which the local node may be removed: a liveness check has no use of symmetry and has to be smaller.
  `CallsReturn` is checked of both.
- `ids_comments` asks about two comments with one property: a state in which their disjunction is false refutes each.
- Files of two chunks and of one: two chunks give a "first chunk stored, second not" at every stage. One
  fault, because the runs ask what happens when one operation fails; two crashes, so that a restart's
  own work is exposed to a crash. Chunk counts come from files of 5 and 3 bytes with chunks of 4.
- `Again = FALSE` in the passing runs of the store: no file is stored that is stored already or being stored.
  `keys_store_again` shows why the caller has to see to that. `keys_concurrent` has the cleanup of metadata
  only, because cleanups that remove chunks break the promise when they fail.
  Keys given to `StoreKey` are not keys of chunks.

- `network_serving`: two starts, so that one follows a stop and can meet what is left of the first; two packets,
  because the races are between two; a registration of four kinds of service: the router's other name, a
  new one, one whose lock belongs to another name, one not configured. A start waits until the one before
  has drained (`Again = FALSE`), which the program's callers do by starting a node once. `network_shutdown`
  needs one packet and one start.
- `lookup_join`: 3 bits, K = 2, `Alpha` = 2, five other nodes of which one is dead, three of them in one class
  (more than K, so that tables evict), four arrangements of who knows whom. Two calls in a row, one missed
  deadline: two calls show what a stray of the first does to the second. `PingTries` is 3 as in the code, so
  that one missed deadline never exhausts it; `JoinIntegrates` says so with `MaxTimeouts < PingTries`.

### Fairness

The runs about the table and the store assume `SF(Step(g))` for every goroutine in a call, and nothing about calls being made or
the process dying or starting. Strong fairness stands for two things: the Go scheduler runs every
goroutine that can run, and `sync.Mutex` and `sync.RWMutex` do not starve a waiter (a mutex turns to its
starvation mode after a millisecond; a writer waiting for an `RWMutex` holds new readers back, and they
enter when it is done). `rt.lock` in `Update` is taken again after every split, which is where this is needed.

`network_serving` assumes weak fairness of every goroutine of a start, of every packet being served, of a stop
and of a registration that has begun; nothing of starts, stops, packets or new registrations. The refresh
loop is assumed to get back to its `select` and to see that `n.ctx` is done: each RPC in it has a deadline,
and `select` chooses at random between two cases that are ready. `lookup_join` assumes weak fairness of the
call as a whole: as long as one of its goroutines can go on, one does. Deadlines are among these steps, and
that the 3 seconds of a dead node pass is what ends a wait for it.

## The theorems

`RoutingTableProofs` proves, for every `KeyBits > 0`, `K > 0`, local identifier, finite set of contacts, set of
removable contacts, targets and goroutines (the named assumptions of `NodeIDs`, `ContactSets` and
`RoutingTable`), that each invariant of `routing_concurrent` and `SplitKeepsContacts` hold of `Spec`.

The argument has three layers, each an inductive invariant that uses those below:

1. `Shape`: types, `BucketOrder`, `LocksHeld`, with `CallsInPlace` (which call a goroutine at a place is making)
   and `SplitReady` (whoever is about to split holds `rt.lock` and its bucket is still the last one). The
   last two are what makes `BucketOrder` inductive: without `SplitReady` a split could replace a bucket that
   is no longer there.
2. `Contents`: `Placement`, identifiers distinct within a bucket, `SettledInsertsLand`, `LocalStays`, `Capacity`, with
   `SendersAreOthers` (nobody inserts the local node, so an insert never evicts it: it has distance 0).
   `UniqueIds` follows: a peer belongs to one attached bucket only, and is there once.
3. `Walks`: what a walk of `ClosestK` has collected lies in the buckets read, and has all of each bucket that
   nobody has written to since. `QuietContactsReturned` follows when the last bucket is read.

The same module proves that a table called by one goroutine implements `PeerClasses` (`TableRefinesPeerClasses`,
`Spec => Promise`), what `routing_calls` checks as `PromiseAlone`. `OneCaller` assumes three things. There is one goroutine: with two the promise is broken
(`routing_lost_update`). Nobody removes the local node, without which no bucket is split. And K > 1: TLC finds
that with K = 1 the local node alone fills the last bucket, which then evicts whoever is inserted. One
invariant more is needed, `Undisturbed`: the bucket that an insert or a removal has chosen is still the one
to choose, an insert never fills a bucket that had to be split, and a walk has collected just what the buckets
it has read hold. Then every step is one of `PeerClasses` or none, one lemma named `...Seen` per action:

- a split moves contacts between buckets and changes no class (`SplitKeepsTable`);
- an insert into a settled bucket sorts and cuts one class, which is all the bucket holds;
- an insert into the deepest bucket, which holds several classes and the local node, cuts nobody. Either it
  has room, or it is the last one possible, and then only contacts that share all bits but the last are
  left for it, of which there is one identifier;
- `ClosestK` answers with the K closest of all classes together.

Two theorems say how far Update's promise reaches, which `routing_lost_update` refutes for concurrent calls.
Called by one goroutine, every insert takes effect (`UpdatesTakeEffectAlone`). With any number of goroutines an insert
into a settled bucket does (`SettledUpdatesTakeEffect`): such a bucket is never detached and holds no other class. Only
inserts that chose the deepest bucket can be lost.

`ContactSetLemmas` proves that being closer to a target is a strict total order, which sorting by
`CompareXorDistance` relies on, that prefixes place identifiers, and what `Nearest` keeps: at most K contacts,
the closest ones, and the local node always.

`NodeIDByteProofs` proves the four invariants of `ids_bytes` for every number of bytes and of bits in a byte, so
for the 20 bytes of 8 bits of the program: what the other modules say of bits holds of the bytes. First,
that numbers below 2^n and their n bits determine each other, that the greater number is the one with
the first greater bit, and that each operator does to every bit what it says (`PowersExist` to
`ConstantBits`). No theorem of induction can be cited here, but that a set of numbers has a least element
follows from the well-foundedness of finite sets under inclusion, and that is enough (`LeastNumber`,
`Induction`). Then that the bits of an identifier are its bytes' places in order (`IndexOrder`, `BitsOfFacts`),
from which the searches (`PrefixFacts`, `RefFacts`), the orders (`DistancesAlwaysAgree`), single bits
(`OperationsFacts`) and refresh targets (`TargetFacts`) follow.

`NetworkManagerProofs` proves the invariants of `network_serving` for any packets, services and numbers of starts,
stops and registrations, under the assumptions of `NetworkManager`. Two inductive invariants carry them:

- `Guarded`: `nm.lock` keeps a registration and the packets apart (`Excluded`); the methods found under a lock are
  those of its services (`Provenance`); and the method of a packet that was sure of it is there, or is one the
  registration under way is about to put back (`SureThere`). `RegisteredStay` is not inductive without the
  last one: while an entry is being filled, a method is missing that was there before. `SharedLocksAssumption` is
  needed, and shows why: a service that took over the lock of another would take its methods away.
- `Ledger`: a packet past its map write has its sender in `nm.peers`, or the write overlapped another one; entries of
  `nm.peers` never go.

`LookupProofs` proves `TypeOK`, `TablesKeepUp`, `JoinIntegrates` and `ResultIsHead` for any nodes, tables, `K`, `Alpha`, calls and numbers
of missed deadlines. `Acquainted` says that what a node was told at least once stays known: an update can only
evict it for K nearer ones of its class, and those never become fewer (`NotedFacts`). `Joining` needs an
account of the deadlines: the tries left for a node and the deadlines missed so far together are at least
`PingTries` (`Enough`) until it has acknowledged one, so when the tries are used up it has, unless as many
deadlines were missed. `Pinging` and `Busy` say where pings and workers can be at all, and to whom.
`ResultIsHead` needs `Overdue`: a worker that outlives its round asked a live node that missed a deadline, so that
without missed deadlines no reply is late and nothing races. And it needs `Headed`: as long as nothing raced the sorting, the shortlist has the entries of all that was
heard but for some that K entries of the shortlist come before. Sorting by distance, equal contacts in the
order they were listed, is a strict total order of entries (`BeforeIsStrictOrder`), and among any finite set of
them the first K come before the rest (`KeptFirst`), so neither cutting the shortlist nor appending to it
afterwards (`HeadsFirst`, `HeadsAdding`) loses one of the K that come first of all. It follows that what
`lookup_closest` refutes holds of every result that lists nobody twice and was not raced (`ClosestUnlessRepeated`).

`KeyStoreProofs` proves every safety property of `KeyStore` for any files, chunks, goroutines, failures and
crashes of a store that is used with `Caution`: no file is stored twice, no file has so many chunks that `byte(i)`
repeats, and either one goroutine calls the store or no call removes chunks or rewrites metadata. Without each
of them something breaks: `keys_store_again`, the files of more than 256 chunks and the interrupted `Cleanup` above.
The second asks more than it has to: it counts the chunks of files stored by `LoadAndStoreFile` too, whose keys
do not repeat; `KeyWrap` occurs in no key of those, so for a store that only loads it can be as large as one likes.
`keys_crash` and `keys_concurrent` are the two kinds of instance it allows. There are two layers, from which `TypeOK`, `DurableFiles` and `KnownFiles` follow:

1. `Shape`: references list chunks of their own file only, whoever wrote them and wherever a crash cut them off;
   `TaskOK` says where a goroutine can be, with what call and whether it holds the lock.
2. `Solid`: a stored file is `Safe`, in one of the two ways of storing it (keys of the other way do not count).
   `Partial` is what makes that inductive: the chunks a goroutine has listed so far are on disk and in the registry
   unless a failure has emptied the registry of them, so that the metadata, once written, lists a whole file (`Sound`).
   `Exclusive` keeps two goroutines from storing one file. Keys of different files differ (`KeysApart`), and
   those of one file (`KeysOwn`, where the wrap of the index matters), so no write or removal for one chunk
   touches another. A restart keeps a safe file because it is not among the orphans it removes.

The properties of steps need one more invariant each. `ReadsFindStored`: a goroutine that reads a stored file has
copied the reference that is in the metadata, and what it has looked up is what the reference says (`Assured`); the lock
it does not hold from one chunk to the next is not needed, since a stored file's metadata is not written while it
stays stored (`MetadataKept`). `NoOrphansLeft`: no chunk file has the empty key's name (`NoKeyUnused`), so a
reference cut off before a key is an orphan, and the keys of two files differ, so moving one away leaves the other whole.
`FailedStoreUndone`, which is about a single failure, assumes `Undisturbed` as well: `MaxFaults` at most 1,
and no cleanup next to other goroutines. Then what a goroutine has stored is all there when it begins to
take it back and no removal fails (`Undoable`).

`KeyStoreRefinement` proves that a store called by one goroutine (`Alone`), with the same `Caution`, implements `FileStore`
(`Spec => Promise`): the initial state maps to the initial one and every step to a step of `FileStore` or to none,
one lemma named `...Seen` per action. It needs a third invariant, `Orderly`. Its parts: `Lists`, a chunk listed in a
reference is one of the file's own or has lost its hash, so that a list of the right length and hashes
has the right keys, in either way of storing; `Readers`, all chunks a reader has passed are still where
they were, so that what it has put together is a known file; `Visits`, a cleanup has on its list all it could
remove and rewriting all it has not saved, so that an empty list means what `Cleaned` and `Rewritten` say;
and `Operations`. The step that is not obvious is the restart (`RestartKeeps`, `RestartAddsNothing`): it must find exactly
`saved` although orphans share the disk with it, and its registry keeps one chunk per key.

`TokensAssumption` says that the model values of `KeyStore` are no data and no references, and that the keys given
to `StoreKey` are not keys of chunks.

`ChunkSizeProofs` proves for every file size what the two ways of storing a file rely on: chunks are not empty,
follow each other, end with the file, and their number fits its type; the size is 0 for an empty file only
(`ChunkSizeBounds`), for which the code divides by it.

Only model-checked: liveness (`CallsReturn`, `ShutdownDrains`, `PacketsSettle`), because TLAPS does not prove formulas
with fairness. Every safety property of every passing run is a theorem.

## Not modelled

- Configuration (a file read once), generated code, commands, plugins and tools: they have no state that others
  depend on.
- `storage/store` and `storage/storage.go`: an earlier copy of the key store behind a service that has functions
  without bodies and so does not compile. Its `StoreKey` takes `ks.lock` and calls `WriteChunkToDisk`, which
  takes it again: such a call never returns, and nor does any later one.
- Hex strings, hashes and random identifiers: conversions without state. `Get`, `LoadAllFileMetadata`, listing and
  printing: they change nothing.
- TCP: the field `tcpServ` is never set.

## Plan

1. Proofs: the conditions under which `StopIsGraceful` holds, and what a second store of a file keeps.
2. `storage/store`, when it compiles.
