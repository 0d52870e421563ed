----------------------------- MODULE BoltMetaDB -----------------------------
(***************************************************************************)
(* The on-disk MetaDB backend (BoltMetaDB in renterutil).                 *)
(*                                                                         *)
(* Every mutating method is one bolt Update transaction.  Bolt runs one   *)
(* writer at a time, so each method is one atomic action here.  Update    *)
(* commits when its function returns nil; it rolls back when the function *)
(* returns an error, and that error reaches the caller.  Reads are View   *)
(* transactions and are left out: they change nothing.                    *)
(*                                                                         *)
(* The buckets hold the same graph as the in-memory backend, abstracted   *)
(* the same way: a shard is its host, a chunk is its slot list and        *)
(* threshold, a blob is its chunk list.  NextSequence gives ids 1, 2, ... *)
(* and a rolled-back transaction also rolls back the sequence, so the id  *)
(* of a record is its position.                                            *)
(*                                                                         *)
(* A bucket operation (NextSequence, Put) can fail.  Why it fails is      *)
(* abstracted: a set of failure points says which ones may.               *)
(***************************************************************************)
EXTENDS Naturals, Sequences, SequencesExt

CONSTANTS
    Keys,          \* blob keys
    Hosts,         \* host public keys
    MetaKeys,      \* keys of the meta bucket
    MetaVals,      \* values of the meta bucket
    SlotCounts,    \* values of n passed to AddChunk
    Thresholds,    \* values of m passed to AddChunk / AddChunkAndShards
    ACSWidths,     \* numbers of shards passed to AddChunkAndShards
    FailPoints,    \* which writes may fail: subset of {"addShard", "addChunk"}
    MaxShards,     \* bound on shards allocated
    MaxChunks,     \* bound on chunks allocated
    MaxBlobChunks  \* bound on chunks per blob

ASSUME FailPoints \subseteq {"addShard", "addChunk"}

VARIABLES
    shards,    \* the shards bucket: shard i has key i
    chunks,    \* the chunks bucket: chunk i has key i; [shards, minShards]
    blobs,     \* the blobs bucket: DOMAIN = keys, value = chunk ids
    meta,      \* the meta bucket
    acsResult  \* what the last AddChunkAndShards returned: [chunk, err]

vars == <<shards, chunks, blobs, meta, acsResult>>

\* No AddChunkAndShards has returned yet.
NoCall == [chunk |-> 0, err |-> "none"]

MapPut(f, k, v) == [x \in DOMAIN f \cup {k} |-> IF x = k THEN v ELSE f[x]]

\* UnreferencedSectors: "return nil, nil // TODO".
UnreferencedSectors == {}

(***************************************************************************)
(* Transactions that cannot fail in the model.                            *)
(***************************************************************************)
\* AddShard: addShard in its own Update.
AddShard(h) ==
    /\ Len(shards) < MaxShards
    /\ shards' = Append(shards, h)
    /\ UNCHANGED <<chunks, blobs, meta, acsResult>>

\* AddChunk: addChunk with n zero slots and MinShards uint8(m), unchecked.
AddChunk(m, n) ==
    /\ Len(chunks) < MaxChunks
    /\ chunks' = Append(chunks, [shards |-> [i \in 1..n |-> 0], minShards |-> m % 256])
    /\ UNCHANGED <<shards, blobs, meta, acsResult>>

\* SetChunkShard: the chunk is read, slot i overwritten and put back.  No
\* reference count exists to adjust.
SetChunkShard(id, i, s) ==
    /\ chunks' = [chunks EXCEPT ![id].shards[i] = s]
    /\ UNCHANGED <<shards, blobs, meta, acsResult>>

\* AddBlob: Put on the key, replacing a live blob without a word.
AddBlob(k, cs) ==
    /\ blobs' = MapPut(blobs, k, cs)
    /\ UNCHANGED <<shards, chunks, meta, acsResult>>

\* DeleteBlob: "TODO: refcounts"; only the key goes.  Deleting a missing
\* key is a successful no-op (a stutter).
DeleteBlob(k) ==
    /\ k \in DOMAIN blobs
    /\ blobs' = [x \in DOMAIN blobs \ {k} |-> blobs[x]]
    /\ UNCHANGED <<shards, chunks, meta, acsResult>>

AddMetadata(k, v) ==
    /\ meta' = MapPut(meta, k, v)
    /\ UNCHANGED <<shards, chunks, blobs, acsResult>>

(***************************************************************************)
(* AddChunkAndShards: one Update that adds each shard and then the chunk. *)
(* ok shards are added before addShard fails (ok = Len(hs): none fails).  *)
(*  - addShard fails: the loop's "return nil" ends the function with nil, *)
(*    so Update commits the shards added so far and the call returns the  *)
(*    zero DBChunk (ID 0) and a nil error;                                 *)
(*  - addChunk fails: its error is returned, Update rolls everything back *)
(*    and the caller gets the error;                                       *)
(*  - otherwise the shards and the chunk owning them are committed.       *)
(***************************************************************************)
AddChunkAndShards(m, hs, ok, chunkFails) ==
    /\ Len(shards) + Len(hs) <= MaxShards
    /\ Len(chunks) < MaxChunks
    /\ \/ /\ ok < Len(hs)
          /\ shards' = shards \o SubSeq(hs, 1, ok)
          /\ acsResult' = [chunk |-> 0, err |-> "nil"]
          /\ UNCHANGED chunks
       \/ /\ ok = Len(hs) /\ chunkFails
          /\ acsResult' = [chunk |-> 0, err |-> "error"]
          /\ UNCHANGED <<shards, chunks>>
       \/ /\ ok = Len(hs) /\ ~chunkFails
          /\ shards' = shards \o hs
          /\ chunks' = Append(chunks, [shards |-> [i \in 1..Len(hs) |-> Len(shards) + i],
                                       minShards |-> m % 256])
          /\ acsResult' = [chunk |-> Len(chunks) + 1, err |-> "nil"]
    /\ UNCHANGED <<blobs, meta>>

\* How many shards are added before addShard fails, and whether addChunk
\* fails, as the failure points allow.
ShardsAdded(w) == IF "addShard" \in FailPoints THEN 0..w ELSE {w}
ChunkFails     == IF "addChunk" \in FailPoints THEN BOOLEAN ELSE {FALSE}

Init ==
    /\ shards = <<>>
    /\ chunks = <<>>
    /\ blobs = [k \in {} |-> <<>>]
    /\ meta = [k \in {} |-> CHOOSE v \in MetaVals : TRUE]
    /\ acsResult = NoCall

Next ==
    \/ \E h \in Hosts : AddShard(h)
    \/ \E m \in Thresholds, n \in SlotCounts : AddChunk(m, n)
    \/ \E id \in 1..Len(chunks) : \E i \in 1..Len(chunks[id].shards) :
         \E s \in 1..Len(shards) : SetChunkShard(id, i, s)
    \/ \E k \in Keys : \E cs \in BoundedSeq(1..Len(chunks), MaxBlobChunks) :
         cs # <<>> /\ AddBlob(k, cs)
    \/ \E k \in Keys : DeleteBlob(k)
    \/ \E k \in MetaKeys, v \in MetaVals : AddMetadata(k, v)
    \/ \E m \in Thresholds, w \in ACSWidths : \E hs \in [1..w -> Hosts] :
         \E ok \in ShardsAdded(w), cf \in ChunkFails : AddChunkAndShards(m, hs, ok, cf)

Spec == Init /\ [][Next]_vars

(***************************************************************************)
(* Properties.                                                             *)
(***************************************************************************)
(* AddChunkAndShards never reports success without its chunk: when it    *)
(* returns a nil error, the chunk it returns is in the chunks bucket.     *)
(* Spec 4.1 asks the call to leave no orphan shards when it fails, and   *)
(* section 7 that a storage error is never silently swallowed.           *)
ACSSuccessStored ==
    acsResult.err = "nil" => acsResult.chunk \in 1..Len(chunks)

=============================================================================
