# TLA+ models of the `us` storage core

This directory holds TLA+ models of the renter-side storage core of `us`. They cover
the metadata database (`renterutil` MetaDB, `src/unnamed/part_000` lines 1-458) and the
sector download session (`proto` Downloader, the same file from line 459 on), the
wallet's address and limbo helpers (`src/wallet/wallet.go`) and the `user serve`
command (`src/cmd/user/serve.go`). Every module is translated from the Go source.
The host, the network, the wallet's store, the user and the concurrent callers are
modelled as the environment.

## 1. Inventory

### Components and their state

| Component | Source | State it keeps | Operations |
|---|---|---|---|
| MetaDB interface and records | part_000:20-64 | — | DBBlob (chunk ids), DBChunk (shard-id slots, MinShards), DBShard (host, root) |
| EphemeralMetaDB | part_000:66-246 | `shards []DBShard`, `chunks []DBChunk`, `blobs map`, `refs map[uint64]int`, `meta map`, one mutex | AddShard, Shard, AddChunk, SetChunkShard, AddChunkAndShards, Chunk, AddBlob, Blob, DeleteBlob, ForEachBlob, UnreferencedSectors, AddMetadata, Metadata, Close |
| BoltMetaDB | part_000:248-458 | bolt buckets (shards, chunks, blobs, meta), NextSequence ids | the same interface, each mutating method one bolt Update; `DeleteBlob` keeps no refcounts and `UnreferencedSectors` returns nil (both marked TODO) |
| Downloader | part_000:459-643 | `conn` (may be nil), the contract revision (number, renter funds) in the ContractEditor, the host's settings | Sector, PartialSector (startRevision, funds check, download action, negotiateRevision, SyncWithHost, read sector, with reconnect-and-retry once), Close, HostKey, NewDownloader |
| Wallet helpers | src/wallet/wallet.go | none (pure functions over the Store's outputs and limbo transactions) | StandardAddress, CalculateUnlockHash, CalculateLimboOutputs; the Store and ChainStore interfaces |
| HTTP serving | src/cmd/user/serve.go | the contract set, the pseudo filesystem, the http.Server, the interrupt goroutine | serve, the interrupt goroutine, httpFS.Open, bufferedFile |
| Upload benchmark | src/renter/upload_test.go | — | a benchmark |

### How they interact

An upload creates shards (one per host sector), then a chunk listing the shard ids in
its slots, then a blob listing its chunks. Reference counts of shards let
`UnreferencedSectors` report which host sectors may be garbage-collected. A migration
re-uploads a shard and repoints a chunk slot with `SetChunkShard`. A retrieval reads
a chunk's shards with one Downloader session per host. Each session pays the host
with a revision of the file contract and must keep its revision in step with the
host's. The retrieval orchestration that glues these together lives outside `src/`.
Only its HTTP entry point (`serve.go`) is in the repository.

### What is hard

- **Metadb, interleaved clients.** `AddChunkAndShards` and `ForEachBlob` release the
  mutex between steps. So do migrations, which read a blob, upload and later call
  `SetChunkShard`. Deletes, migrations and the GC query run in between.
- **Metadb, reference counts.** The counts are maintained by hand in four places.
  Nothing ties them to the graph, so one missing increment or one stale decrement
  silently leaks or frees a sector.
- **Downloader, the payment protocol.** Every wire step can fail. The host may reject,
  stop after signing, or change its price between calls. The signature may be lost
  with the link. A disconnect triggers one reconnect and one retry of the whole call,
  including the payment.
- **Downloader, numeric edges.** uint32 wrap-around in the range check, and a
  price per sector versus a price per byte.
- **Wallet, orderings.** `CalculateLimboOutputs` claims the order of limbo
  transactions is irrelevant, including chains (one spends what another creates)
  and double spends. `StandardAddress` hand-builds a Merkle tree that must agree
  with the library's general hash.
- **serve, two goroutines.** The interrupt goroutine closes the server and then the
  filesystem, while serve's own goroutine returns as soon as `ListenAndServe` does
  and runs the deferred `contracts.Close`; the process exits when serve returns.

### What makes each component correct

- **Metadb:**
  - `UnreferencedSectors` never names a sector that a live chunk still points at
    (GC safety).
  - Reference counts never go negative.
  - Stored counts equal the counts recomputed from the live blob → chunk → shard graph.
- **Downloader:**
  - The renter only records revisions the host has signed.
  - The renter never pays more than the contract holds.
  - One call pays at most once.
  - The payment is proportional to the bytes asked for.
  - Only in-sector ranges are requested.
  - A nil connection is never used.
  - A connection with unread sector data is not reused.
- **Wallet:** the fast address path equals the general one for every input in limbo; limbo outputs are the
  reference set, each once, for every order.
- **Bolt metadb:** `AddChunkAndShards` either fails with nothing committed or
  returns the chunk it committed (spec 4.1 and 7).
- **serve:** Ctrl-C ends the command; the filesystem is closed before serve returns.

## 2. Modules

| Module | Models | Notes |
|---|---|---|
| `EphemeralMetaDB` | the in-memory MetaDB | one action per method; two clients for the multi-step methods |
| `BoltMetaDB` | the on-disk MetaDB | one action per bolt Update; the storage errors inside `AddChunkAndShards` as choices |
| `MCEphemeralMetaDB` | model values and client symmetry for TLC | |
| `Downloader` | one Downloader session against one host | host and link as environment actions |
| `Wallet` | the wallet helpers and the store they read | hashes as injective constructors |
| `MCWallet` | unlock conditions, keys, transaction ids, genesis output | |
| `Serve` | `serve`, its interrupt goroutine and the request handlers | weak fairness of the two goroutines |

### EphemeralMetaDB

- **State.**
  - `shards` is a sequence of hosts; a shard's id is its index and stands for its
    Merkle root.
  - `chunks` is a sequence of `[shards, minShards]`.
  - `blobs` and `meta` are Go maps, modelled as functions with a growing domain.
  - `refs` is a Go map. `MapGet` gives 0 for a missing key, and a write creates the
    key, as Go's `db.refs[id]--` does. `UnreferencedSectors` iterates over the
    existing keys, which matters.
- **Actions.**
  - Each mutex-held method is one action: `AddShard`, `AddChunk`, `SetChunkShard`,
    `AddBlob`, `DeleteBlob`, `AddMetadata`.
  - `AddChunkAndShards` is `ACSStart` / `ACSAddShard` / `ACSAddChunk` per client,
    because each inner call takes the lock separately.
  - `ForEachBlob` is `FEStart` (the sorted key snapshot under the lock) and then
    `FEVisit` / `FEEmpty` outside it.
  - The read methods are operators.
- **Caller inputs.** What callers can do is enumerated as the inputs of the actions:
  - `AddChunk` gets fresh shards.
  - `AddBlob` gets chunks not yet in a blob.
  - `SetChunkShard` gets a freshly uploaded shard for any slot of any chunk. A chunk
    whose blob was deleted is included: that is the migration racing a delete.
- **Ghost variables for the properties.**
  - `placed`: shards put in a chunk.
  - `attached`: chunks put in a blob.
  - `freed`: chunks of deleted blobs.

### Downloader

- **State.**
  - `conn` is `live`, `closed` or `nil`; `link` is the transport.
  - `unread` records that the host sent a sector that was not read.
  - `rev`/`funds` is the renter's revision; `hostRev`/`signed` is what the host signed.
  - `price` is the renter's copy of the host settings; `hostPrice` is the host's
    current price.
  - `call` is the stage of the current PartialSector call: offset, length, whether
    it already retried, and the proposed revision.
- **Actions.** `Begin` (PartialSector's entry and range check), `StartRevision`,
  `SendAction`, `Negotiate` (wire failure, rejection, or signature), `Sync`, `Read`
  and `Close`.
  - `Fail` is the error path of PartialSector: reconnect and retry once on a
    disconnect, or a failed redial that leaves `conn` nil, or return the error.
  - `LinkDrop` and `PriceChange` are the environment.
- **Abstractions.**
  - Byte contents are not modelled. The Merkle check is a fault of `Read`.
  - Deadlines are modelled as link drops.
  - `UintWidth` scales uint32 down to a 2-bit width, so that the wrap happens with
    sector size 2.

### BoltMetaDB

- **State.** The four buckets, abstracted like the in-memory backend (`shards`,
  `chunks`, `blobs`, `meta`), and `acsResult`, what the last `AddChunkAndShards`
  returned to its caller. There is no `refs`: the backend keeps no counts.
- **Actions.** Bolt runs one writer at a time, so every mutating method is one
  action: `AddShard`, `AddChunk`, `SetChunkShard`, `AddBlob` (a plain `Put`, so a
  live key is replaced), `DeleteBlob` (only the key is removed), `AddMetadata` and
  `AddChunkAndShards`. An Update commits when its function returns nil and rolls
  back otherwise. `AddChunkAndShards` chooses how many `addShard` calls succeed
  (`ShardsAdded`) and whether `addChunk` fails (`ChunkFails`), as the constant
  `FailPoints` allows. Its three outcomes follow lines 337-349: an `addShard` error
  hits `return nil`, so the shards added so far are committed and the zero chunk
  is returned with no error; an `addChunk` error rolls everything back and is
  returned; otherwise the shards and their chunk are committed together.
- **Not actions.** `UnreferencedSectors` is the empty set the code returns; the
  reads are View transactions and change nothing; `Close` is left out.
- **Fault model.** Bolt's `NextSequence` and `Put` fail only on conditions such as
  a closed or read-only transaction or an oversized key or value. So the failing
  path is rare, but the code's handling of it is what the run examines.

### Wallet

- **Hashes.** `Leaf(d)` and `Node(l, r)` stand for blake2b of a leaf and of a node;
  they are injective, which is all the properties need. `UnlockHash` is the
  library's Merkle root over the timelock, every key and the signature count.
  `StandardAddress` is the code's hand-built tree with its two precomputed leaves.
- **Store.** `outputs` (UnspentOutputs), `limbo` (LimboTransactions, a set: the
  store returns it in no fixed order) and `confirmed`. The environment broadcasts
  a transaction (`AddToLimbo`, spending at most one spendable output with the
  conditions of its address), confirms one whose parents are confirmed
  (`ApplyConsensusChange`, one atomic unit as `ProcessedConsensusChange`'s comment
  requires; the change is the `ProcessedConsensusChange` record `ProcessedChange`)
  or drops one (`RemoveFromLimbo`).
- **CalculateLimboOutputs** is translated loop for loop: the owned outputs of every
  transaction are appended first (`NewOutputsOf`, ids `SiacoinOutputID(t, i)` from
  0), then each owned input removes the first output with its parent id
  (`RemoveOutput`).

### Serve

- **State.** `pc` is serve's goroutine; `sigPc` and `stops` the interrupt goroutine;
  `open` the resources open (`contracts`, `pfs`, `srv`); `srvClosed` whether
  `srv.Close` ran; `interrupted`; `handler` the request handlers.
- **Actions.** `LoadContracts`, `NewFileSystem`, `Spawn`, `ListenAndServe`,
  `ServeReturns`, `DeferredClose` each with the code's error returns; `Exit` is
  serve's caller exiting. `Notify`, `Receive`, `StopStep` (srv.Close, then
  pfs.Close, `StopOrder`) are the goroutine. `Interrupt` is Ctrl-C: before
  `signal.Notify` Go's default action ends the process. `HandleOpen`/`HandleDone`
  are http.FileServer calling `httpFS.Open` and reading a `bufferedFile`.

## 3. Runs

| Run | Config | Expect | What it shows |
|---|---|---|---|
| metadb_core | MCEphemeralMetaDB.cfg | pass | TypeOK, UnreferencedSectorsSafe, GCSafe: `UnreferencedSectors` never reaches the id-0 lookup that panics, and with both upload paths, migrations racing deletes and two clients in multi-step calls, no sector a live chunk points at is ever reported unreferenced |
| metadb_acs_negative | MCEphemeralMetaDB_ACSNegative.cfg | violation | `AddChunkAndShards` never counts references, so a later replacement or delete drives counts to -1 |
| metadb_stale_migration | MCEphemeralMetaDB_StaleMigration.cfg | violation | `SetChunkShard` on a chunk of a deleted blob double-decrements the old shard and leaks the new one |
| dl_core | MCDownloader.cfg | pass | TypeOK, RenterHoldsSignedRevision, NoOverdraft across every fault the environment can inject |
| dl_double_payment | MCDownloader_DoublePayment.cfg | violation | a disconnect while reading the paid sector makes the retry pay again |
| dl_range_overflow | MCDownloader_RangeOverflow.cfg | violation | `offset+length` wraps and an out-of-sector range is sent |
| dl_nil_conn | MCDownloader_NilConn.cfg | violation | a failed redial leaves `d.conn` nil and the next call panics |
| dl_stream_desync | MCDownloader_StreamDesync.cfg | violation | a `SyncWithHost` error leaves the sector unread on a connection still in use |
| bolt_acs_swallowed_error | MCBoltMetaDB_SwallowedError.cfg | violation | an `addShard` error inside the bolt `AddChunkAndShards` is swallowed: the partial transaction commits and the caller gets chunk ID 0 with a nil error |
| wallet_core | MCWallet.cfg | pass | TypeOK, UnlockHashAgrees (for every input in limbo), LimboOutputsMatchReference over every order of the reachable limbo sets, chains and double spends included |
| serve_core | MCServe.cfg | pass | TypeOK and InterruptStopsServe (liveness) |
| serve_return_open_fs | MCServe_ReturnOpenFS.cfg | violation | serve returns with the filesystem open: on a listen error, and after an interrupt before the goroutine reaches `pfs.Close` |

The violation runs each check one property and are recorded as findings in
`PROJECT.json`. Mutants of the mapped definitions show that each property of the
passing runs can fail:

- GC safety is broken if `DeleteBlob` decrements the wrong chunk's slots.
- `UnreferencedSectorsSafe` is broken if `SetChunkShard` swaps its `--` and `++`.
- `NoOverdraft` is broken if funds are checked per byte.
- `RenterHoldsSignedRevision` is broken if a rejection is ignored.
- `UnlockHashAgrees` is broken if the fast path ignores the signature count;
  `LimboOutputsMatchReference` if inputs are removed in the same pass as outputs
  are added; `TypeOK` of Wallet if output indices start at 1.
- In Serve, never closing the server breaks `InterruptStopsServe`, and a third
  Close breaks `TypeOK`.

### Divergences seen but not given a run

Each is a single call against the spec; the runs are spent on the multi-step ones.

- `AddBlob` on a live key overwrites it in both backends (part_000:150, 365); spec
  4.1 says DuplicateKey.
- `AddChunk` does not validate m in either backend (part_000:98, 311, `uint8(m)`);
  spec 4.1 says InvalidParameters for m == 0 or m > n.
- The in-memory `AddChunkAndShards` is not atomic (part_000:117): other clients run
  between its shard and chunk steps. Its shards have no refs entry until then, so
  no reader in the repository goes wrong on them.
- The bolt `DeleteBlob` keeps no refcounts and its `UnreferencedSectors` returns
  nil (part_000:385, 402), as spec section 9 records.
- `partialSector` prices every download as a whole sector (part_000:585).
- `Sector` rejects a wrong Merkle root without closing `d.conn` (part_000:541);
  the spec's error taxonomy says integrity violations close the connection
  (`ReadBadSector` with `bad = "root"` in `Downloader`).

### Bounds

- **metadb_core:**
  - two clients (symmetric) and two blob keys;
  - one host: the properties do not look at hosts;
  - at most 4 shards and 2 chunks of 2 slots, and blobs of one chunk.
  - These bounds are enough for two overlapping `AddChunkAndShards` calls, a
    migration of each slot, a delete between a migration's read and its write, and
    a re-add. About 1.35M distinct states, checked in about a minute.
- **dl_core:**
  - sector size 2, offsets {0,1}, lengths {1,2}, prices {1,2}, funds for 3 sector
    payments;
  - 3 calls and 2 injected faults (the fault budget counts lost signatures and
    failed redials).
  - Every disjunct of every action fires, including retry after retry, a stop
    followed by a reconnect, and running out of funds.
- **bolt_acs_swallowed_error:** one key, one host, at most 3 shards and 2 chunks,
  `AddChunkAndShards` of width 2 with both failure points; the violation is three
  steps deep.
- **wallet_core:** two owned-key unlock conditions and three non-standard ones
  (timelock, two signatures, two keys), two transaction ids (symmetric), one
  genesis output, up to two outputs per transaction: enough for a chain (t2 spends
  t1's output), a double spend of the genesis output, a transaction with an owned
  and a foreign output (output index 1), and confirmation in either order. About
  28K distinct states; three transactions with two outputs each did not finish in
  ten minutes.
- **serve_core:** three handlers (no symmetry, because of the liveness property);
  every error return, and the interrupt at every step.

### Fairness and deadlock

`Serve` assumes weak fairness of serve's goroutine (`MainStep`) and the interrupt
goroutine (`SignalStep`): the Go scheduler runs every runnable goroutine. The
interrupt and the requests come from outside and are not fair. `serve_core` sets
`CHECK_DEADLOCK FALSE` because the process exits.

`Downloader` assumes no fairness and states no liveness property. Every
exchange of partialSector ends because of the deadline `extendDeadline` sets (line
570), and the model has no clock: assuming that deadline as fairness would make
"every call returns" hold by assumption, so it is not checked. The metadb, bolt and
wallet models check safety only. The Downloader
session ends after `MaxCalls` calls, or after `Close` or a panic, so `dl_core` sets
`CHECK_DEADLOCK FALSE`. The metadb model is checked for deadlock: `AddMetadata`, `ForEachBlob` and
`DeleteBlob` stay enabled after the id bounds are used up, just as these methods can
always be called. `Wallet`'s store stops once every transaction id is used
(`CHECK_DEADLOCK FALSE`).

## 4. Not modelled

- No refinement is checked. The in-memory backend does not implement the
  contract of spec 4.1: `AddBlob` replaces a live key, `AddChunk` accepts any m,
  and `AddChunkAndShards` is not atomic. A refinement check would fail on the first
  of these steps. Restricting the callers to the cases where it holds would hide
  exactly those cases.
- `BoltMetaDB.Close`, its reads, and crash durability: bolt makes each Update
  all-or-nothing on disk, and the code adds nothing to that.
- The retrieval orchestration is not in the repository at all: neither `src/` nor
  any other file holds it (`serve.go` is only its HTTP entry). A composed model of
  metadb and several Downloader sessions would restate the spec rather than model
  the program, so it is left out.
- `sectorBuffer.UnmarshalSia`'s header checks (part_000:481-507) are abstracted to
  a good or a bad frame. The unchecked total size (part_000:495), which lets extra
  bytes stay on the connection, is listed as a hazard without a property.
- The Sia encodings (`MarshalSia`/`UnmarshalSia` of the wallet records) are field
  lists handed to the Sia encoder, which is outside the repository; no property
  reads an encoding, so they are not modelled. The same holds for
  `StandardTransactionSignature` (a constant record) and the `SeedStore` and
  `WatchOnlyStore` interfaces, whose implementations are outside the repository.
- `HostKey` and the read methods are not actions: they change no state.
- Byte contents, Merkle roots and encryption are not modelled.
- Signatures are abstracted to "signed by the host".
- The upload benchmark has no state machine.
- blake2b is not modelled: hashes are injective constructors.
- What `PseudoFS` does when a handler reads after `pfs.Close` is outside the
  repository.
