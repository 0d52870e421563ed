------------------------------- MODULE Wallet -------------------------------
(***************************************************************************)
(* The address and limbo helpers of package wallet (src/wallet/wallet.go) *)
(* and the store state they are applied to.                               *)
(*                                                                         *)
(* Hashes are modelled as an injective constructor: Leaf(d) stands for    *)
(* blake2b(0x00 | d) and Node(l, r) for blake2b(0x01 | l | r).  The two   *)
(* byte constants that StandardAddress precomputes are given by what the  *)
(* code's comments say they hash.  UnlockHash is the library's general    *)
(* UnlockConditions.UnlockHash (a Merkle root over timelock, every public *)
(* key and the signature count), which CalculateUnlockHash falls back on. *)
(*                                                                         *)
(* The store (the Store interface, implemented outside this repository)   *)
(* holds the owner's unspent outputs and the set of limbo transactions;   *)
(* LimboTransactions() returns them in no particular order.               *)
(***************************************************************************)
EXTENDS Naturals, Sequences, SequencesExt, FiniteSets

CONSTANTS
    UnlockConds,    \* the unlock conditions that occur: records [timelock, keys, sigs]
    OwnerConds,     \* the subset whose addresses the AddressOwner owns
    TxnIds,         \* transaction ids (model values)
    Genesis,        \* the owner's confirmed outputs at start: a sequence of [id, addr]
    MaxOutputs      \* bound on the outputs of one transaction

VARIABLES
    outputs,        \* Store.UnspentOutputs(): a sequence of [id, addr]
    limbo,          \* Store.LimboTransactions(), as a set
    confirmed       \* ids of transactions already applied by a consensus change

vars == <<outputs, limbo, confirmed>>

-----------------------------------------------------------------------------
(* Hashing and the library's UnlockHash.                                  *)

Leaf(d) == <<"leaf", d>>
Node(l, r) == <<"node", l, r>>

EncU64(n) == <<"u64", n>>

\* The largest power of two strictly below n (n > 1): the size of the left
\* subtree of a Merkle tree with n leaves.
LeftSize(n) == CHOOSE p \in {2^i : i \in 0..n} : p < n /\ n <= 2 * p

RECURSIVE MerkleRoot(_)
MerkleRoot(hs) ==
    IF Len(hs) = 1 THEN hs[1]
    ELSE LET k == LeftSize(Len(hs))
         IN  Node(MerkleRoot(SubSeq(hs, 1, k)), MerkleRoot(SubSeq(hs, k + 1, Len(hs))))

\* A public key leaf: specifier, length prefix and key bytes; the length is
\* fixed by the key, so the key stands for all three.
EncPK(pk) == <<"pk", pk>>

UnlockHash(uc) ==
    MerkleRoot(<<Leaf(EncU64(uc.timelock))>>
               \o [i \in 1..Len(uc.keys) |-> Leaf(EncPK(uc.keys[i]))]
               \o <<Leaf(EncU64(uc.sigs))>>)

-----------------------------------------------------------------------------
(* wallet.go: standard addresses.                                         *)

StandardUnlockConditions(pk) == [timelock |-> 0, keys |-> <<pk>>, sigs |-> 1]

TimelockHash == Leaf(EncU64(0))
SigsRequiredHash == Leaf(EncU64(1))

StandardAddress(pk) ==
    LET pubkeyHash == Leaf(EncPK(pk))
        tlpkHash   == Node(TimelockHash, pubkeyHash)
    IN  Node(tlpkHash, SigsRequiredHash)

IsStandardNoSigs(uc) == uc.timelock = 0 /\ Len(uc.keys) = 1

IsStandard(uc) == uc.timelock = 0 /\ Len(uc.keys) = 1 /\ uc.sigs = 1

CalculateUnlockHash(uc) ==
    IF IsStandard(uc) THEN StandardAddress(uc.keys[1]) ELSE UnlockHash(uc)

Addrs == {UnlockHash(uc) : uc \in UnlockConds}
OwnedAddrs == {UnlockHash(uc) : uc \in OwnerConds}

OwnsAddress(a) == a \in OwnedAddrs

-----------------------------------------------------------------------------
(* wallet.go: CalculateLimboOutputs.                                      *)

SiacoinOutputIDOneBased(t, i) == <<t.id, i + 1>>

SiacoinOutputID(t, i) == <<t.id, i>>

\* The owned outputs txn t creates, in order, with their ids.
NewOutputsOf(t) ==
    LET idx == SelectSeq([i \in 1..Len(t.outputs) |-> i],
                         LAMBDA i : OwnsAddress(t.outputs[i]))
    IN  [j \in 1..Len(idx) |-> [id |-> SiacoinOutputID(t, idx[j] - 1),
                                addr |-> t.outputs[idx[j]]]]

\* The parents of t's inputs whose unlock conditions the owner owns.
SpentParentsOf(t) ==
    LET own == SelectSeq(t.inputs, LAMBDA in : OwnsAddress(CalculateUnlockHash(in.uc)))
    IN  [j \in 1..Len(own) |-> own[j].parent]

RemoveOutput(os, p) == RemoveFirstMatch(os, LAMBDA o : o.id = p)

CalculateLimboOutputsOnePass(lim, outs) ==
    LET step(os, t) == FoldLeft(RemoveOutput, os \o NewOutputsOf(t), SpentParentsOf(t))
    IN  FoldLeft(step, outs, lim)

CalculateLimboOutputs(lim, outs) ==
    LET added == outs \o FlattenSeq([j \in 1..Len(lim) |-> NewOutputsOf(lim[j])])
    IN  FoldLeft(RemoveOutput, added,
                 FlattenSeq([j \in 1..Len(lim) |-> SpentParentsOf(lim[j])]))

-----------------------------------------------------------------------------
(* The store, as the wallet sees it through the Store interface.          *)

OutputIds == ToSet([j \in 1..Len(Genesis) |-> Genesis[j].id])
             \cup (TxnIds \X (0..MaxOutputs - 1))

\* Outputs a new transaction may spend: the owner's confirmed outputs and the
\* owned outputs of transactions in limbo.
Spendable ==
    ToSet(outputs) \cup UNION {ToSet(NewOutputsOf(t)) : t \in limbo}

\* The unlock conditions that unlock an address.
CondsFor(a) == {uc \in UnlockConds : UnlockHash(uc) = a}

\* Transactions the owner can broadcast now: at most one input spending a
\* spendable output with the conditions of its address, and a few outputs.
NewTxns(id) ==
    {[id |-> id, inputs |-> ins, outputs |-> os] :
        ins \in {<<>>} \cup UNION {{<<[parent |-> o.id, uc |-> uc]>> :
                                          uc \in CondsFor(o.addr)} : o \in Spendable},
        os \in BoundedSeq(Addrs, MaxOutputs)}

\* Store.AddToLimbo after a broadcast.
AddToLimbo ==
    \E id \in TxnIds \ ({t.id : t \in limbo} \cup confirmed) :
    \E t \in NewTxns(id) :
        /\ limbo' = limbo \cup {t}
        /\ UNCHANGED <<outputs, confirmed>>

\* The ProcessedConsensusChange of a block that confirms t: the owned
\* outputs it creates and its transactions (the address index, block
\* rewards, file contracts and counters are not modelled).
ProcessedChange(t) == [Outputs |-> NewOutputsOf(t), Transactions |-> <<t>>]

\* A block confirms a limbo transaction whose parents are all confirmed and
\* unspent.  The processed change is applied as one unit: spent outputs go,
\* created owned outputs come, and the transaction leaves limbo.
ApplyConsensusChange ==
    \E t \in limbo :
        LET cc    == ProcessedChange(t)
            spent == {in.parent : in \in UNION {ToSet(cc.Transactions[j].inputs) :
                                                j \in 1..Len(cc.Transactions)}}
        IN  /\ spent \subseteq {o.id : o \in ToSet(outputs)}
            /\ outputs' = SelectSeq(outputs, LAMBDA o : o.id \notin spent) \o cc.Outputs
            /\ limbo' = limbo \ ToSet(cc.Transactions)
            /\ confirmed' = confirmed \cup {t.id}

\* Store.RemoveFromLimbo: a transaction that will not confirm is dropped.
RemoveFromLimbo ==
    \E t \in limbo :
        /\ limbo' = limbo \ {t}
        /\ UNCHANGED <<outputs, confirmed>>

Init ==
    /\ outputs = Genesis
    /\ limbo = {}
    /\ confirmed = {}

Next ==
    \/ AddToLimbo
    \/ ApplyConsensusChange
    \/ RemoveFromLimbo

Spec == Init /\ [][Next]_vars

-----------------------------------------------------------------------------
(* Properties.                                                            *)

UnspentOutput == [id : OutputIds, addr : Addrs]
Input == [parent : OutputIds, uc : UnlockConds]
Transaction == [id : TxnIds, inputs : Seq(Input), outputs : Seq(Addrs)]

TypeOK ==
    /\ outputs \in Seq(UnspentOutput)
    /\ limbo \subseteq Transaction
    /\ confirmed \subseteq TxnIds

\* CalculateUnlockHash's fast path (StandardAddress, with its precomputed
\* leaves and hand-built Merkle tree) gives every input of a limbo transaction
\* the address of the output it spends, as the general UnlockHash does: the
\* ownership test at the inputs of CalculateLimboOutputs sees the true address.
UnlockHashAgrees ==
    \A t \in limbo : \A in \in ToSet(t.inputs) :
        CalculateUnlockHash(in.uc) = UnlockHash(in.uc)

\* What the owner would control if every limbo transaction were applied:
\* its outputs and the owned outputs limbo creates, less those limbo spends.
LimboReference ==
    {o \in Spendable : \A t \in limbo : \A in \in ToSet(t.inputs) : in.parent # o.id}

\* CalculateLimboOutputs, on the limbo transactions in whatever order the
\* store returns them, yields exactly the reference outputs, each once: the
\* order of limbo transactions is irrelevant, as its comment claims.
LimboOutputsMatchReference ==
    \A order \in SetToSeqs(limbo) :
        LET res == CalculateLimboOutputs(order, outputs)
        IN  /\ ToSet(res) = LimboReference
            /\ Len(res) = Cardinality(ToSet(res))

=============================================================================
