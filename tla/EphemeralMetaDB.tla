--------------------------- MODULE EphemeralMetaDB ---------------------------
(***************************************************************************)
(* The in-memory MetaDB backend (EphemeralMetaDB in renterutil).          *)
(*                                                                         *)
(* Every exported method takes db.mu for its whole body, so it is one     *)
(* atomic action here, except the two methods that release the lock in    *)
(* the middle: AddChunkAndShards (one critical section per AddShard, then *)
(* one for the chunk) and ForEachBlob (the key snapshot is taken under    *)
(* the lock, the visitor runs outside it).  Those two are per-client      *)
(* multi-step processes with a program counter.                           *)
(*                                                                         *)
(* Data is abstracted to what the reference counts tell apart: a shard    *)
(* record is its host (its sector root is its id), a chunk is its slot    *)
(* list and threshold, a blob is its chunk list.                          *)
(***************************************************************************)
EXTENDS Naturals, Integers, Sequences, SequencesExt, FiniteSets

CONSTANTS
    Clients,        \* goroutines calling the db concurrently
    Keys,           \* blob keys; naturals, so that < is the byte order of sort.Strings
    Hosts,          \* host public keys
    MetaKeys,       \* keys of the metadata namespace
    MetaVals,       \* values of the metadata namespace
    SlotCounts,     \* values of n passed to AddChunk
    Thresholds,     \* values of m passed to AddChunk / AddChunkAndShards
    ACSWidths,      \* numbers of shards passed to AddChunkAndShards
    UploadOps,      \* how callers create chunks: "AddChunk", "AddChunkAndShards"
    KeyReuse,       \* whether callers call AddBlob with a key that is live
    MaxShards,      \* bound on shards allocated
    MaxChunks,      \* bound on chunks allocated
    MaxBlobChunks   \* bound on chunks per blob

ASSUME Keys \subseteq Nat /\ UploadOps \subseteq {"AddChunk", "AddChunkAndShards"}

VARIABLES
    shards,   \* db.shards: shard i has id i; the record is its host
    chunks,   \* db.chunks: chunk i has id i; [shards: Seq(shard id), minShards]
    blobs,    \* db.blobs: a Go map, DOMAIN = live keys, value = chunk ids
    refs,     \* db.refs: a Go map from shard id to count
    meta,     \* db.meta: a Go map
    pc,       \* per client: the multi-step call it is in, with its locals
    \* history variables, not program state
    placed,   \* shard ids ever written into a chunk slot
    attached, \* chunk ids ever given to AddBlob
    freed     \* chunk ids whose blob DeleteBlob removed

dbVars   == <<shards, chunks, blobs, refs, meta>>
histVars == <<placed, attached, freed>>
vars     == <<dbVars, pc, histVars>>

Idle == [op |-> "idle"]

(***************************************************************************)
(* Go map helpers: a missing entry reads as the zero value, a write adds  *)
(* the key.                                                                *)
(***************************************************************************)
MapGet(f, k) == IF k \in DOMAIN f THEN f[k] ELSE 0

MapPut(f, k, v) == [x \in DOMAIN f \cup {k} |-> IF x = k THEN v ELSE f[x]]

MapDelete(f, k) == [x \in DOMAIN f \ {k} |-> f[x]]

\* db.refs[k] += d
RefAdd(r, k, d) == MapPut(r, k, MapGet(r, k) + d)

(***************************************************************************)
(* Read-only methods, as operators on the state.                          *)
(***************************************************************************)
\* Blob: the record, or ErrKeyNotFound.
Blob(k) == IF k \in DOMAIN blobs THEN blobs[k] ELSE "ErrKeyNotFound"

\* Shard: db.shards[id-1] (an index panic for an unknown id).
Shard(id) == shards[id]

\* Chunk: panics on the unset id 0, else db.chunks[id-1].
Chunk(id) == IF id = 0 THEN "panic" ELSE chunks[id]

\* Metadata: the value, or ErrKeyNotFound.
Metadata(k) == IF k \in DOMAIN meta THEN meta[k] ELSE "ErrKeyNotFound"

\* UnreferencedSectors: every shard whose refs entry exists and is 0,
\* grouped by host; a pair <<host, root>> with root = shard id.
UnreferencedSectors ==
    {<<shards[sid], sid>> : sid \in {x \in DOMAIN refs : refs[x] = 0}}

\* The map lookup db.shards[sid-1] of UnreferencedSectors panics for sid 0
\* (the uint64 subtraction wraps).
UnreferencedSectorsPanics == 0 \in DOMAIN refs /\ refs[0] = 0

(***************************************************************************)
(* Atomic methods (the whole body under db.mu).                           *)
(***************************************************************************)
AddShard(h) ==
    /\ Len(shards) < MaxShards
    /\ shards' = Append(shards, h)
    /\ UNCHANGED <<chunks, blobs, refs, meta, pc, histVars>>

AddChunk(m, n) ==
    /\ Len(chunks) < MaxChunks
    /\ chunks' = Append(chunks, [shards |-> [i \in 1..n |-> 0],
                                 minShards |-> m % 256])
    /\ UNCHANGED <<shards, blobs, refs, meta, pc, histVars>>

\* Mutation of SetChunkShard: the ++ and -- swapped.
SetChunkShardSwapped(id, i, s) ==
    LET old == chunks[id].shards[i] IN
    /\ chunks' = [chunks EXCEPT ![id].shards[i] = s]
    /\ refs' = RefAdd(RefAdd(refs, old, 1), s, -1)
    /\ placed' = placed \cup {s}
    /\ UNCHANGED <<shards, blobs, meta, pc, attached, freed>>

\* The slot's old shard loses a reference and s gains one, in that order.
SetChunkShard(id, i, s) ==
    LET old == chunks[id].shards[i] IN
    /\ chunks' = [chunks EXCEPT ![id].shards[i] = s]
    /\ refs' = RefAdd(RefAdd(refs, old, -1), s, 1)
    /\ placed' = placed \cup {s}
    /\ UNCHANGED <<shards, blobs, meta, pc, attached, freed>>

\* Installs (or silently overwrites) the key; no reference count changes.
AddBlob(k, cs) ==
    /\ blobs' = MapPut(blobs, k, cs)
    /\ attached' = attached \cup ToSet(cs)
    /\ UNCHANGED <<shards, chunks, refs, meta, pc, placed, freed>>

\* Mutation of BlobSlots: the chunk ids decremented instead of shard ids.
BlobChunkIds(k) == blobs[k]

\* Mutation of BlobSlots: db.chunks[cid] for db.chunks[cid-1], the next
\* chunk's slots (none past the last chunk).
BlobSlotsNextChunk(k) ==
    FlattenSeq([j \in 1..Len(blobs[k]) |->
                  IF blobs[k][j] < Len(chunks) THEN chunks[blobs[k][j] + 1].shards
                  ELSE <<>>])

\* The shard ids DeleteBlob's loop visits: every slot of every chunk.
BlobSlots(k) == FlattenSeq([j \in 1..Len(blobs[k]) |-> chunks[blobs[k][j]].shards])

\* Every slot of every chunk of the blob loses one reference; then the key
\* is removed.  A missing key returns nil without a change (a stutter).
DeleteBlob(k) ==
    LET Dec(r, sid) == RefAdd(r, sid, -1) IN
    /\ k \in DOMAIN blobs
    /\ refs' = FoldLeft(Dec, refs, BlobSlots(k))
    /\ blobs' = MapDelete(blobs, k)
    /\ freed' = freed \cup ToSet(blobs[k])
    /\ UNCHANGED <<shards, chunks, meta, pc, placed, attached>>

AddMetadata(k, v) ==
    /\ meta' = MapPut(meta, k, v)
    /\ UNCHANGED <<shards, chunks, blobs, refs, pc, histVars>>

(***************************************************************************)
(* AddChunkAndShards: one AddShard call (its own critical section) per    *)
(* shard record, then the chunk is appended under the lock.  No reference *)
(* count is touched.                                                       *)
(***************************************************************************)
ACSStart(c, m, hs) ==
    /\ pc[c] = Idle
    /\ Len(shards) < MaxShards
    /\ shards' = Append(shards, Head(hs))
    /\ pc' = [pc EXCEPT ![c] = [op |-> "acs", m |-> m, todo |-> Tail(hs),
                                ids |-> <<Len(shards) + 1>>]]
    /\ UNCHANGED <<chunks, blobs, refs, meta, histVars>>

ACSAddShard(c) ==
    /\ pc[c].op = "acs"
    /\ pc[c].todo # <<>>
    /\ Len(shards) < MaxShards
    /\ shards' = Append(shards, Head(pc[c].todo))
    /\ pc' = [pc EXCEPT ![c].todo = Tail(@), ![c].ids = Append(@, Len(shards) + 1)]
    /\ UNCHANGED <<chunks, blobs, refs, meta, histVars>>

ACSAddChunk(c) ==
    /\ pc[c].op = "acs"
    /\ pc[c].todo = <<>>
    /\ Len(chunks) < MaxChunks
    /\ chunks' = Append(chunks, [shards |-> pc[c].ids, minShards |-> pc[c].m % 256])
    /\ placed' = placed \cup ToSet(pc[c].ids)
    /\ pc' = [pc EXCEPT ![c] = Idle]
    /\ UNCHANGED <<shards, blobs, refs, meta, attached, freed>>

(***************************************************************************)
(* ForEachBlob: the keys are copied under the lock, sorted, and then the  *)
(* visitor is called on each outside the lock; a visitor error ends the   *)
(* traversal and is returned.                                             *)
(***************************************************************************)
FEStart(c) ==
    /\ pc[c] = Idle
    /\ pc' = [pc EXCEPT ![c] = [op |-> "list",
                                todo |-> SetToSortSeq(DOMAIN blobs, <)]]
    /\ UNCHANGED <<dbVars, histVars>>

\* fn(key) returns nil (continue) or an error (stop).
FEVisit(c) ==
    /\ pc[c].op = "list"
    /\ pc[c].todo # <<>>
    /\ \E stop \in BOOLEAN :
         pc' = [pc EXCEPT ![c] = IF stop \/ Len(@.todo) = 1 THEN Idle
                                 ELSE [@ EXCEPT !.todo = Tail(@)]]
    /\ UNCHANGED <<dbVars, histVars>>

FEEmpty(c) ==
    /\ pc[c].op = "list"
    /\ pc[c].todo = <<>>
    /\ pc' = [pc EXCEPT ![c] = Idle]
    /\ UNCHANGED <<dbVars, histVars>>

(***************************************************************************)
(* The callers' inputs.  Shards handed to SetChunkShard are fresh uploads *)
(* (never placed before, not held by an in-flight AddChunkAndShards);     *)
(* chunks handed to AddBlob are fresh; a SetChunkShard may target any     *)
(* existing chunk, including one whose blob a concurrent DeleteBlob has    *)
(* already removed (a migration that read the blob before the delete).    *)
(***************************************************************************)
InFlight == UNION {ToSet(pc[c].ids) : c \in {x \in Clients : pc[x].op = "acs"}}

FreshShards == (1..Len(shards)) \ (placed \cup InFlight)

FreshChunks == (1..Len(chunks)) \ attached

BlobChunkLists ==
    {cs \in BoundedSeq(FreshChunks, MaxBlobChunks) :
        cs # <<>> /\ Cardinality(ToSet(cs)) = Len(cs)}

Init ==
    /\ shards = <<>>
    /\ chunks = <<>>
    /\ blobs = [k \in {} |-> <<>>]
    /\ refs = [s \in {} |-> 0]
    /\ meta = [k \in {} |-> CHOOSE v \in MetaVals : TRUE]
    /\ pc = [c \in Clients |-> Idle]
    /\ placed = {}
    /\ attached = {}
    /\ freed = {}

Next ==
    \/ \E h \in Hosts : AddShard(h)
    \/ "AddChunk" \in UploadOps /\ \E m \in Thresholds, n \in SlotCounts : AddChunk(m, n)
    \/ \E id \in 1..Len(chunks) : \E i \in 1..Len(chunks[id].shards) :
         \E s \in FreshShards : SetChunkShard(id, i, s)
    \/ \E k \in IF KeyReuse THEN Keys ELSE Keys \ DOMAIN blobs :
         \E cs \in BlobChunkLists : AddBlob(k, cs)
    \/ \E k \in Keys : DeleteBlob(k)
    \/ \E k \in MetaKeys, v \in MetaVals : AddMetadata(k, v)
    \/ \E c \in Clients :
         \/ "AddChunkAndShards" \in UploadOps /\
              \E m \in Thresholds, w \in ACSWidths :
                 \E hs \in [1..w -> Hosts] : ACSStart(c, m, hs)
         \/ ACSAddShard(c)
         \/ ACSAddChunk(c)
         \/ FEStart(c)
         \/ FEVisit(c)
         \/ FEEmpty(c)

Spec == Init /\ [][Next]_vars

(***************************************************************************)
(* Properties.                                                             *)
(***************************************************************************)
TypeOK ==
    /\ shards \in Seq(Hosts)
    /\ \A id \in 1..Len(chunks) :
         /\ chunks[id].shards \in Seq(0..Len(shards))
         /\ chunks[id].minShards \in 0..255
    /\ DOMAIN blobs \subseteq Keys
    /\ \A k \in DOMAIN blobs : blobs[k] \in Seq(1..Len(chunks))
    /\ DOMAIN refs \subseteq 0..Len(shards) /\ \A s \in DOMAIN refs : refs[s] \in Int
    /\ DOMAIN meta \subseteq MetaKeys /\ \A k \in DOMAIN meta : meta[k] \in MetaVals
    /\ placed \subseteq 1..Len(shards)
    /\ freed \subseteq attached /\ attached \subseteq 1..Len(chunks)

\* A chunk is live until DeleteBlob removes a blob that lists it.
LiveChunks == (1..Len(chunks)) \ freed

\* The chunk slots of live chunks that point at shard s.
LiveSlots(s) ==
    UNION {{<<id, i>> : i \in {j \in 1..Len(chunks[id].shards) :
                                  chunks[id].shards[j] = s}} : id \in LiveChunks}

(* GC safety: UnreferencedSectors never reports a sector that a live chunk *)
(* still points at -- a blob's data, or an upload in progress.  This is   *)
(* what SetChunkShard's decrement/increment pair and DeleteBlob's         *)
(* per-slot decrement together must guarantee, across migrations that    *)
(* race with deletes and chunks created by AddChunkAndShards.             *)
GCSafe ==
    \A pair \in UnreferencedSectors : LiveSlots(pair[2]) = {}

(* Reference counts never go negative (spec, ShardRecord/refcounts):      *)
(* checked for real shard ids; id 0 is the unset-slot sentinel.           *)
RefsNeverNegative ==
    \A s \in DOMAIN refs \ {0} : refs[s] >= 0

(* UnreferencedSectors never looks up the unset-slot id 0: the count of  *)
(* id 0 is only ever decremented (filling an unset slot, deleting a blob  *)
(* whose chunk still has one), so it never climbs back to 0, where the     *)
(* lookup db.shards[0-1] would panic.                                      *)
UnreferencedSectorsSafe ==
    ~UnreferencedSectorsPanics

(* The incrementally maintained count of every shard equals the count     *)
(* recomputed from the chunk graph: the number of live chunk slots that   *)
(* point at it.                                                           *)
RefsMatchGraph ==
    \A s \in 1..Len(shards) : MapGet(refs, s) = Cardinality(LiveSlots(s))

=============================================================================
